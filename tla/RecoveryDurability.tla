------------------------ MODULE RecoveryDurability ------------------------
(***************************************************************************)
(* Transactions are atomic and durable: Recovery implements DurableStore,  *)
(* for every number of items, transactions, log records and crashes, where *)
(* none of the circumstances that Faults names occurs (LogMgr_Restart,     *)
(* dbi_trans_commit_internal, TransMgr_trans_abort, _Checkpointing).       *)
(*                                                                         *)
(* What is invariant is about the crashes that may come: whichever images  *)
(* of the items and whichever prefix of the log a crash leaves, redo and   *)
(* undo make of them what the transactions that have ended left.  While a  *)
(* commit is in progress, the whole log makes what it is going to leave.   *)
(***************************************************************************)
EXTENDS RecoveryLosers

\* The updates of item i on the chains from ls, and the value of i after those
\* of P are undone.
OnChains(L, N, ls, i) ==
    {n \in UNION {ChainIn(L, N, l) : l \in ls} : L[n].type = "UPDATE" /\ L[n].item = i}
BackTo(L, P, v) == IF P = {} THEN v ELSE L[Min(P)].before

\* The records from w to k that change item i, the value that one of them gives
\* it, and what redo makes of the value v.
ChangesItem(L, n, i) ==
    \/ L[n].type = "UPDATE" /\ L[n].item = i
    \/ L[n].type = "COMPENSATION" /\ L[L[n].undone].item = i
ValueIn(L, n) == IF L[n].type = "UPDATE" THEN n ELSE L[L[n].undone].before
ChangesIn(L, w, k, i) == {n \in w .. k : ChangesItem(L, n, i)}
RedoTo(L, w, k, i, v) ==
    LET R == ChangesIn(L, w, k, i) IN IF R = {} THEN v ELSE ValueIn(L, Max(R))

\* What a restart with log anchor c makes of the first k records and of the
\* image v of item i, if page 0 has b.
Tops(L, N, a, b, k) == {LastIn(L, N, a, b, k, s) : s \in Slot}
From(c, b) == Max({c.begin, b})
Outcome(L, N, c, b, k, i, v) ==
    BackTo(L, OnChains(L, N, Tops(L, N, c.end, b, k), i), RedoTo(L, From(c, b), k, i, v))

\* What the transactions other than those in slots left of item i, and what
\* they will have left when the commit in progress is answered.
LeftIn(L, N, t, values, slots, i) ==
    BackTo(L, OnChains(L, N, {t[s].last : s \in slots}, i), values[i])
Left(slots, i) == LeftIn(log, End, trans, mem, slots, i)
Promised(k, i) == IF k = End THEN Left(Slot \ Committing, i) ELSE Left(Slot, i)

\* After every crash a restart makes that of the items.
OutcomesRight(b) ==
    \A k \in stable .. End : Quiet(log, anchor.end, unsettled, k) =>
       \A i \in Items : \A v \in db[i] :
          Outcome(log, End, anchor, b, k, i, v) = Promised(k, i)

\* Redo of the whole log makes what is in memory, but for what a restart undid
\* there.
RedoRight(b) ==
    Quiet(log, anchor.end, unsettled, End) =>
       \A i \in Items : \A v \in db[i] :
          \/ up /\ unsettled < anchor.end
          \/ OnChains(log, End, Tops(log, End, anchor.end, b, End), i) = {}
          => RedoTo(log, From(anchor, b), End, i, v) = mem[i]

\* While page 0 has the LSN of the running checkpoint, the database file is
\* synchronised.  It has no other that is ahead of the log anchor, but b and
\* those of checkpoints that failed.
Ahead(b) ==
    {x \in anchorLSN : /\ x # b /\ x > anchor.end
                       /\ \/ stage = "end" /\ x = End
                          \/ stage = "anchor" /\ x = End - 1}
PagesRight(b) ==
    /\ stage = "anchor" \/ Ahead(b) # {} => db = Synced
    /\ stage \in {"pages", "page0"} => End \notin anchorLSN
    /\ stage # "anchor" => \E y \in anchorLSN : y = b \/ y <= anchor.end

DurableFrom(b) == OutcomesRight(b) /\ RedoRight(b) /\ PagesRight(b)

\* Transactions have begun after losers were undone in memory only.  What has
\* been undone of a transaction is no longer on its chain.
BegunAfter ==
    up /\ unsettled >= anchor.end => \A s \in Slot : trans[s].first \in {0} \cup unsettled + 1 .. End
UndoneOffChain ==
    work.op \in {"partial", "abort"} =>
       \A n \in ChainIn(log, End, trans[work.slot].last) :
          log[n].type = "UPDATE" => n \in ChainIn(log, End, work.next)
DurableInv ==
    /\ UndoInv /\ BegunAfter /\ UndoneOffChain
    /\ \E b \in Nat : LosersFrom(b) /\ FilesFrom(b) /\ DurableFrom(b)

-----------------------------------------------------------------------------
(* What is undone *)

LEMMA OnChainsLogged ==
    ASSUME NEW L, NEW N, IsLog(L, N), NEW ls, ls \subseteq 0 .. N, NEW i
    PROVE  /\ OnChains(L, N, ls, i) \subseteq 1 .. N /\ OnChains(L, N, ls, i) \subseteq Nat
           /\ \A n \in OnChains(L, N, ls, i) :
                 L[n].type = "UPDATE" /\ L[n].item = i /\ OfTrans(L[n]) /\ L[n].before \in 0 .. n - 1
<1>1. \A l \in ls : N \in Nat /\ ChainIn(L, N, l) \subseteq 1 .. N
  <2> TAKE l \in ls
  <2>1. l \in 0 .. N
    OBVIOUS
  <2> QED
    BY <2>1, ChainInside
<1>2. N \in Nat
  BY LogFacts
<1>3. OnChains(L, N, ls, i) \subseteq 1 .. N
  BY <1>1 DEF OnChains
<1>4. ASSUME NEW n \in OnChains(L, N, ls, i)
      PROVE  L[n].type = "UPDATE" /\ L[n].item = i /\ OfTrans(L[n]) /\ L[n].before \in 0 .. n - 1
  <2>1. L[n].type = "UPDATE" /\ L[n].item = i /\ n \in 1 .. N
    BY <1>3 DEF OnChains
  <2>2. OfTrans(L[n]) /\ LinkOk(L, L[n], n)
    BY <2>1, UpdateFields
  <2> QED
    BY <2>1, <2>2 DEF LinkOk
<1> QED
  BY <1>2, <1>3, <1>4

\* Going back to before the first of them.
LEMMA BackToFirst ==
    ASSUME NEW L, NEW N, IsLog(L, N), NEW ls, ls \subseteq 0 .. N, NEW i, NEW v \in 0 .. N
    PROVE  BackTo(L, OnChains(L, N, ls, i), v) \in 0 .. N
<1> DEFINE P == OnChains(L, N, ls, i)
<1>1. P \subseteq 1 .. N /\ P \subseteq Nat /\ N \in Nat /\ \A n \in P : L[n].before \in 0 .. n - 1
  BY OnChainsLogged, LogFacts
<1> HIDE DEF P
<1>2. CASE P = {}
  BY <1>2 DEF BackTo, P
<1>3. CASE P # {}
  <2>1. Min(P) \in P
    BY <1>1, <1>3, MinIs
  <2>2. \A m \in P : L[m].before \in 0 .. N
    <3> TAKE m \in P
    <3>1. m \in 1 .. N /\ L[m].before \in 0 .. m - 1 /\ N \in Nat
      BY <1>1, Zenon
    <3> QED
      BY <3>1
  <2>3. BackTo(L, P, v) = L[Min(P)].before
    BY <1>3 DEF BackTo
  <2> QED
    BY <2>1, <2>2, <2>3, Zenon DEF P
<1> QED
  BY <1>2, <1>3

\* Logs that are the same up to record k.
LEMMA OnChainsSame ==
    ASSUME NEW L, NEW N, NEW M, NEW K, NEW a, NEW k, Alike(L, N, M, K, a, k),
           NEW ls, ls \subseteq 0 .. k, NEW i, NEW v
    PROVE  /\ OnChains(M, K, ls, i) = OnChains(L, N, ls, i)
           /\ BackTo(M, OnChains(M, K, ls, i), v) = BackTo(L, OnChains(L, N, ls, i), v)
<1> DEFINE P == OnChains(L, N, ls, i)
<1>1. /\ k \in Nat /\ \A n \in 1 .. k : L[n] = M[n]
      /\ \A n \in 0 .. k : ChainIn(L, N, n) = ChainIn(M, K, n) /\ ChainIn(L, N, n) \subseteq 1 .. k
  BY AlikeFacts
<1>2. UNION {ChainIn(L, N, l) : l \in ls} = UNION {ChainIn(M, K, l) : l \in ls}
  BY <1>1
<1>3. UNION {ChainIn(L, N, l) : l \in ls} \subseteq 1 .. k
  BY <1>1
<1>4. OnChains(M, K, ls, i) = P
  BY <1>1, <1>2, <1>3 DEF OnChains
<1>5. P \subseteq 1 .. k /\ P \subseteq Nat
  BY <1>1, <1>3 DEF OnChains
<1> HIDE DEF P
<1>6. P # {} => L[Min(P)] = M[Min(P)]
  BY <1>1, <1>5, MinIs
<1> QED
  BY <1>4, <1>6 DEF BackTo, P

\* The empty chain has nothing to undo.
LEMMA OnNoChain ==
    ASSUME NEW L, NEW N, IsLog(L, N), NEW ls, NEW ms, ls \ {0} = ms \ {0}, NEW i
    PROVE  OnChains(L, N, ls, i) = OnChains(L, N, ms, i)
<1>1. ChainIn(L, N, 0) = {}
  BY LogFacts
<1>2. UNION {ChainIn(L, N, l) : l \in ls} = UNION {ChainIn(L, N, l) : l \in ms}
  BY <1>1
<1> QED
  BY <1>2 DEF OnChains

-----------------------------------------------------------------------------
(* What is redone *)

LEMMA FromIs ==
    ASSUME NEW c, c.begin \in Nat, NEW b \in Nat
    PROVE  /\ From(c, b) \in {c.begin, b} /\ c.begin <= From(c, b) /\ b <= From(c, b)
           /\ From(c, b) \in Nat
<1> DEFINE S == {c.begin, b}
<1>1. S \subseteq Nat /\ S # {} /\ c.begin + b \in Nat /\ \A x \in S : x <= c.begin + b
  OBVIOUS
<1>2. c.begin \in S /\ b \in S
  OBVIOUS
<1> HIDE DEF S
<1>3. Max(S) \in S /\ \A x \in S : x <= Max(S)
  BY <1>1, MaxIs
<1> QED
  BY <1>2, <1>3 DEF From, S

\* A record that changes an item is one of a transaction.
LEMMA ChangesOfTrans ==
    ASSUME NEW L, NEW n, NEW i, ChangesItem(L, n, i)
    PROVE  OfTrans(L[n])
BY DEF ChangesItem, OfTrans

\* More records, of which none changes the item, or the last one does.
LEMMA RedoMore ==
    ASSUME NEW L, NEW w \in Nat, NEW j \in Nat, NEW k \in Nat, j <= k, NEW i, NEW v
    PROVE  /\ (\A n \in j + 1 .. k : ~ChangesItem(L, n, i)) =>
                ChangesIn(L, w, k, i) = ChangesIn(L, w, j, i) /\ RedoTo(L, w, k, i, v) = RedoTo(L, w, j, i, v)
           /\ j < k /\ w <= k /\ ChangesItem(L, k, i) => RedoTo(L, w, k, i, v) = ValueIn(L, k)
<1>1. ASSUME \A n \in j + 1 .. k : ~ChangesItem(L, n, i)
      PROVE  ChangesIn(L, w, k, i) = ChangesIn(L, w, j, i)
  BY <1>1 DEF ChangesIn
<1>2. ASSUME w <= k, ChangesItem(L, k, i)
      PROVE  RedoTo(L, w, k, i, v) = ValueIn(L, k)
  <2> DEFINE R == ChangesIn(L, w, k, i)
  <2>1. R \subseteq Nat /\ k \in R /\ \A x \in R : x <= k
    BY <1>2 DEF ChangesIn
  <2> HIDE DEF R
  <2>2. Max(R) \in R /\ \A x \in R : x <= Max(R)
    BY <2>1, MaxIs
  <2>3. \A m \in R : k <= m => m = k
    BY <2>1
  <2>5. Max(R) = k
    BY <2>1, <2>2, <2>3, Zenon
  <2>4. (IF R = {} THEN v ELSE ValueIn(L, Max(R))) = ValueIn(L, k)
    BY <2>1, <2>5
  <2> QED
    BY <2>4 DEF RedoTo, R
<1> QED
  BY <1>1, <1>2 DEF RedoTo

\* Logs that are the same up to record k.
LEMMA RedoSame ==
    ASSUME NEW L, NEW N, NEW M, NEW K, NEW a, NEW k, Alike(L, N, M, K, a, k), NEW w \in Nat, 1 <= w,
           NEW i, NEW v
    PROVE  /\ ChangesIn(M, w, k, i) = ChangesIn(L, w, k, i)
           /\ RedoTo(M, w, k, i, v) = RedoTo(L, w, k, i, v)
<1> DEFINE R == ChangesIn(L, w, k, i)
<1>1. /\ k \in Nat /\ k <= N /\ N \in Nat /\ IsLog(L, N) /\ \A n \in 1 .. k : L[n] = M[n]
  BY AlikeFacts
<1>2. ASSUME NEW n \in w .. k
      PROVE  /\ ChangesItem(M, n, i) <=> ChangesItem(L, n, i)
             /\ ChangesItem(L, n, i) => ValueIn(M, n) = ValueIn(L, n)
  <2>1. n \in 1 .. k /\ n \in 1 .. N /\ L[n] = M[n]
    BY <1>1
  <2>2. CASE L[n].type = "COMPENSATION"
    <3>1. OfTrans(L[n])
      BY <2>2 DEF OfTrans
    <3>2. LinkOk(L, L[n], n)
      BY <1>1, <2>1, <3>1, LogFacts
    <3>3. L[n].undone \in 1 .. k
      BY <1>1, <2>1, <2>2, <3>2 DEF LinkOk
    <3> QED
      BY <1>1, <2>1, <2>2, <3>3 DEF ChangesItem, ValueIn
  <2>3. CASE L[n].type # "COMPENSATION"
    BY <2>1, <2>3 DEF ChangesItem, ValueIn
  <2> QED
    BY <2>2, <2>3
<1>3. ChangesIn(M, w, k, i) = R
  BY <1>2 DEF ChangesIn
<1>4. R \subseteq w .. k /\ R \subseteq Nat /\ \A x \in R : x <= k /\ ChangesItem(L, x, i)
  BY <1>1 DEF ChangesIn
<1> HIDE DEF R
<1>5. R # {} => Max(R) \in R
  BY <1>1, <1>4, MaxIs
<1>6. R # {} => ValueIn(M, Max(R)) = ValueIn(L, Max(R))
  BY <1>2, <1>4, <1>5
<1> QED
  BY <1>3, <1>6 DEF RedoTo, R

\* Where redo changes nothing, the image is what counts, otherwise it does not.
LEMMA RedoImage ==
    ASSUME NEW L, NEW w, NEW k, NEW i, NEW v, NEW m, RedoTo(L, w, k, i, v) = m
    PROVE  RedoTo(L, w, k, i, m) = m
BY DEF RedoTo

-----------------------------------------------------------------------------
(* What a restart makes of the log *)

LEMMA TopsLogged ==
    ASSUME NEW L, NEW N, NEW a, Anchored(L, N, a), NEW b, NEW k \in a .. N
    PROVE  Tops(L, N, a, b, k) \subseteq 0 .. k /\ Tops(L, N, a, b, k) \subseteq 0 .. N
           /\ k \in Nat /\ N \in Nat /\ IsLog(L, N)
<1>1. N \in Nat /\ a \in 1 .. N /\ IsLog(L, N)
  BY LogFacts DEF Anchored
<1>2. \A s \in Slot : LastIn(L, N, a, b, k, s) \in 0 .. k
  BY LastLogged
<1>3. Tops(L, N, a, b, k) \subseteq 0 .. k
  BY <1>2 DEF Tops
<1> QED
  BY <1>1, <1>3

LEMMA OutcomeSame ==
    ASSUME NEW L, NEW N, NEW M, NEW K, NEW c, NEW k, Alike(L, N, M, K, c.end, k),
           c.begin \in Nat \ {0}, NEW b \in Nat, NEW i, NEW v
    PROVE  Outcome(M, K, c, b, k, i, v) = Outcome(L, N, c, b, k, i, v)
<1> DEFINE w == From(c, b)
           a == c.end
<1>1. w \in Nat /\ 1 <= w
  <2>1. w \in Nat /\ c.begin <= w
    BY FromIs
  <2> QED
    BY <2>1
<1> HIDE DEF w
<1>2. k \in a .. N /\ Anchored(L, N, a)
  BY DEF Alike
<1>3. \A s \in Slot : LastIn(M, K, a, b, k, s) = LastIn(L, N, a, b, k, s)
  <2>1. k \in a .. k
    BY AlikeFacts
  <2> QED
    BY <2>1, AlikeFacts
<1>4. Tops(M, K, a, b, k) = Tops(L, N, a, b, k) /\ Tops(L, N, a, b, k) \subseteq 0 .. k
  BY <1>2, <1>3, TopsLogged DEF Tops
<1>5. RedoTo(M, w, k, i, v) = RedoTo(L, w, k, i, v)
  BY <1>1, RedoSame
<1>6. \A x : BackTo(M, OnChains(M, K, Tops(L, N, a, b, k), i), x)
            = BackTo(L, OnChains(L, N, Tops(L, N, a, b, k), i), x)
  BY <1>4, OnChainsSame
<1> QED
  BY <1>4, <1>5, <1>6 DEF Outcome, w

\* Records of checkpoints make no difference.
LEMMA OutcomeQuiet ==
    ASSUME NEW L, NEW N, NEW c, Anchored(L, N, c.end), c.begin \in Nat, NEW b \in Nat,
           NEW j \in c.end .. N, NEW k \in j .. N, \A n \in j + 1 .. k : ~OfTrans(L[n]),
           NEW i, NEW v
    PROVE  /\ Outcome(L, N, c, b, k, i, v) = Outcome(L, N, c, b, j, i, v)
           /\ Tops(L, N, c.end, b, k) = Tops(L, N, c.end, b, j)
           /\ RedoTo(L, From(c, b), k, i, v) = RedoTo(L, From(c, b), j, i, v)
<1>1. c.end \in Nat /\ N \in Nat /\ j \in Nat /\ k \in Nat /\ j <= k /\ k \in j .. k
  BY LogFacts DEF Anchored
<1>2. \A s \in Slot : LastIn(L, N, c.end, b, k, s) = LastIn(L, N, c.end, b, j, s)
  BY <1>1, LastQuiet
<1>3. Tops(L, N, c.end, b, k) = Tops(L, N, c.end, b, j)
  BY <1>2 DEF Tops
<1>4. From(c, b) \in Nat
  BY FromIs
<1>5. RedoTo(L, From(c, b), k, i, v) = RedoTo(L, From(c, b), j, i, v)
  <2>1. \A n \in j + 1 .. k : ~ChangesItem(L, n, i)
    BY ChangesOfTrans
  <2> QED
    BY <1>1, <1>4, <2>1, RedoMore
<1> QED
  BY <1>3, <1>5 DEF Outcome

\* An image that redo may find is as good as another if redo would make it of
\* that.
LEMMA OutcomeImage ==
    ASSUME NEW L, NEW N, NEW c, NEW b, NEW k, NEW i, NEW v, NEW m,
           OnChains(L, N, Tops(L, N, c.end, b, k), i) = {} => RedoTo(L, From(c, b), k, i, v) = m
    PROVE  Outcome(L, N, c, b, k, i, m) = Outcome(L, N, c, b, k, i, v)
<1>1. CASE OnChains(L, N, Tops(L, N, c.end, b, k), i) = {}
  BY <1>1, RedoImage DEF Outcome, BackTo
<1>2. CASE OnChains(L, N, Tops(L, N, c.end, b, k), i) # {}
  BY <1>2 DEF Outcome, BackTo
<1> QED
  BY <1>1, <1>2

\* Nor does it make one which of the checkpoints up to the log anchor page 0
\* has.
LEMMA OutcomeFrom ==
    ASSUME Inv, NEW b \in Nat, NEW x \in Nat, b <= x, x <= anchor.end,
           NEW k \in anchor.end .. End, NEW i, NEW v
    PROVE  Outcome(log, End, anchor, x, k, i, v) = Outcome(log, End, anchor, b, k, i, v)
<1>1. /\ LogInv /\ Anchored(log, End, anchor.end) /\ anchor.end = anchor.begin + 1
      /\ anchor.begin \in Nat /\ anchor.end \in Nat
      /\ ~OfTrans(log[anchor.begin])
  BY LogAnchored, Sizes DEF Inv, LogInv, OfTrans
<1>2. \A s \in Slot : LastIn(log, End, anchor.end, x, k, s) = LastIn(log, End, anchor.end, b, k, s)
  <2>1. b <= anchor.end
    BY <1>1
  <2> QED
    BY <1>1, <2>1, LastNone
<1>3. Tops(log, End, anchor.end, x, k) = Tops(log, End, anchor.end, b, k)
  BY <1>2 DEF Tops
<1>4. \A y \in Nat : y <= anchor.end => From(anchor, y) \in {anchor.begin, anchor.begin + 1}
  <2> TAKE y \in Nat
  <2>1. From(anchor, y) \in {anchor.begin, y} /\ anchor.begin <= From(anchor, y)
    BY <1>1, FromIs
  <2> QED
    BY <1>1, <2>1
<1>5. \A w \in {anchor.begin, anchor.begin + 1} :
         ChangesIn(log, w, k, i) = ChangesIn(log, anchor.begin + 1, k, i)
  <2>1. ~ChangesItem(log, anchor.begin, i)
    BY <1>1, ChangesOfTrans
  <2> QED
    BY <1>1, <2>1 DEF ChangesIn
<1>6. From(anchor, x) \in {anchor.begin, anchor.begin + 1} /\ From(anchor, b) \in {anchor.begin, anchor.begin + 1}
  BY <1>1, <1>4
<1>7. ChangesIn(log, From(anchor, x), k, i) = ChangesIn(log, From(anchor, b), k, i)
  BY <1>5, <1>6
<1>8. RedoTo(log, From(anchor, x), k, i, v) = RedoTo(log, From(anchor, b), k, i, v)
  BY <1>7 DEF RedoTo
<1> QED
  BY <1>3, <1>8 DEF Outcome

-----------------------------------------------------------------------------
(* The mapping to DurableStore, and what a restart leaves *)

LEMMA BackOutIs ==
    ASSUME Inv, NEW values, NEW lasts, lasts \subseteq 0 .. End,
           \A l \in lasts : \A n \in Chain(l) : Readable(n)
    PROVE  BackOut(values, lasts) =
              [i \in Items |-> BackTo(log, OnChains(log, End, lasts, i), values[i])]
<1> DEFINE undone == {n \in UNION {Chain(l) : l \in lasts} :
                        Readable(n) /\ log[n].type = "UPDATE"}
           on(i) == {n \in undone : log[n].item = i}
           value(i) == IF on(i) = {} THEN values[i] ELSE log[Min(on(i))].before
<1>1. UNION {Chain(l) : l \in lasts} = UNION {ChainIn(log, End, l) : l \in lasts}
  BY ChainIsChainIn
<1>2. undone = {n \in UNION {ChainIn(log, End, l) : l \in lasts} : log[n].type = "UPDATE"}
  BY <1>1
<1>3. \A i \in Items : on(i) = OnChains(log, End, lasts, i)
  <2> TAKE i \in Items
  <2> HIDE DEF undone
  <2> QED
    BY <1>2 DEF OnChains
<1>4. BackOut(values, lasts) = [i \in Items |-> value(i)]
  BY DEF BackOut
<1>5. \A i \in Items : value(i) = BackTo(log, OnChains(log, End, lasts, i), values[i])
  <2> HIDE DEF on
  <2> QED
    BY <1>3 DEF BackTo
<1> HIDE DEF value
<1> QED
  BY <1>4, <1>5

\* What the transactions in the other slots have left is what Recovery maps to
\* the store that DurableStore promises.
LEMMA StoreIs ==
    ASSUME Inv, LogKept, NEW slots, slots \subseteq Slot
    PROVE  BackOut(mem, LastOf(slots)) = [i \in Items |-> Left(slots, i)]
<1>1. \A s \in Slot : trans[s].last \in 0 .. End /\ \A n \in Chain(trans[s].last) : Readable(n)
  BY AtLogged DEF LogKept
<1>2. LastOf(slots) \subseteq 0 .. End /\ \A l \in LastOf(slots) : \A n \in Chain(l) : Readable(n)
  BY <1>1 DEF LastOf
<1>3. BackOut(mem, LastOf(slots)) =
         [i \in Items |-> BackTo(log, OnChains(log, End, LastOf(slots), i), mem[i])]
  BY <1>2, BackOutIs
<1> QED
  BY <1>3 DEF Left, LeftIn, LastOf

LEMMA RecoveredIs ==
    ASSUME Inv, LogKept, ~up, NEW b \in Nat, LosersFrom(b)
    PROVE  Recovered = [i \in Items |-> Outcome(log, End, anchor, b, End, i, Image(i))]
<1> DEFINE w == From(anchor, b)
           T == Tops(log, End, anchor.end, b, End)
<1>1. /\ LogInv /\ IsLog(log, End) /\ End \in Nat /\ anchor.begin \in Nat /\ Losers \subseteq 0 .. End
  BY Sizes, LosersLogged DEF Inv, LogInv
<1>2. SkippedBefore = b /\ Losers \ {0} = T \ {0}
  BY LosersAre DEF Tops
<1>3. BackOut(Redo, Losers) = [i \in Items |-> BackTo(log, OnChains(log, End, Losers, i), Redo[i])]
  <2>1. \A l \in Losers : \A n \in Chain(l) : Readable(n)
    BY DEF LogKept
  <2> QED
    BY <1>1, <2>1, BackOutIs
<1>4. ASSUME NEW i \in Items
      PROVE  OnChains(log, End, Losers, i) = OnChains(log, End, T, i)
  BY <1>1, <1>2, OnNoChain
<1>5. ASSUME NEW i \in Items
      PROVE  Redo[i] = RedoTo(log, w, End, i, Image(i))
  <2>1. anchor.begin <= w /\ w \in Nat
    BY <1>1, FromIs
  <2>2. Redone(i) = {n \in w .. End : Touches(n, i)}
    BY <1>2 DEF Redone, From
  <2>3. \A n \in w .. End : log[n].type = "COMPENSATION" => Readable(log[n].undone)
    BY <1>1, <2>1 DEF LogKept
  <2>4. \A n \in w .. End : Touches(n, i) <=> ChangesItem(log, n, i)
    BY <2>3 DEF Touches, ChangesItem
  <2>5. Redone(i) = ChangesIn(log, w, End, i)
    BY <2>2, <2>4 DEF ChangesIn
  <2>6. \A n : ValueAfter(n) = ValueIn(log, n)
    BY DEF ValueAfter, ValueIn
  <2>7. Redo[i] = IF Redone(i) = {} THEN Image(i) ELSE ValueAfter(Max(Redone(i)))
    BY DEF Redo
  <2> QED
    BY <2>5, <2>6, <2>7 DEF RedoTo
<1>6. \A i \in Items : BackTo(log, OnChains(log, End, Losers, i), Redo[i])
                       = Outcome(log, End, anchor, b, End, i, Image(i))
  BY <1>4, <1>5 DEF Outcome
<1> QED
  BY <1>3, <1>6 DEF Recovered

-----------------------------------------------------------------------------
(* Crashes *)

\* What the table has is what the END_CHKPT record named or a later record.
LEMMA LastFrom ==
    ASSUME NEW L, NEW N, NEW a, Anchored(L, N, a), NEW b, NEW s \in Slot, NEW k \in a .. N
    PROVE  /\ LastIn(L, N, a, b, k, s) \in {0, L[a].active[s].last} \cup {n \in a + 1 .. N : OfTrans(L[n])}
           /\ (\A n \in a + 1 .. N : OfTrans(L[n]) => n < b) =>
                 LastIn(L, N, a, b, k, s) = L[a].active[s].last
<1>1. N \in Nat /\ a \in Nat /\ k \in Nat /\ a <= k /\ k <= N
  BY LogFacts DEF Anchored
<1> DEFINE l(n) == LastIn(L, N, a, b, n, s)
           first == L[a].active[s].last
           later == {n \in a + 1 .. N : OfTrans(L[n])}
           none == \A n \in a + 1 .. N : OfTrans(L[n]) => n < b
           T == {n \in a .. k : l(n) \in {0, first} \cup later /\ (none => l(n) = first)}
<1>2. /\ l(a) = first
      /\ \A n \in a + 1 .. N, p \in a .. N : n = p + 1 =>
            /\ ~Changes(L, b, n, s) => l(n) = l(p)
            /\ Changes(L, b, n, s) => l(n) = IF L[n].type \in Ends THEN 0 ELSE n
  <2>1. Unfolds(L, N, a, b, s)
    BY LastUnfolds
  <2> QED
    BY <2>1 DEF Unfolds
<1>3. \A n \in a + 1 .. N : Changes(L, b, n, s) => n \in later /\ ~none
  BY DEF Changes
<1> HIDE DEF l, first, later, none
<1>4. ASSUME NEW n \in a .. k, \A m \in a .. n - 1 : m \in T
      PROVE  n \in T
  <2>1. CASE n = a
    BY <1>2, <2>1
  <2>2. CASE n # a
    <3>1. n \in a + 1 .. N /\ n - 1 \in a .. N /\ n = (n - 1) + 1 /\ n - 1 \in a .. n - 1
      BY <1>1, <2>2
    <3>2. n - 1 \in T
      BY <1>4, <3>1
    <3>3. CASE ~Changes(L, b, n, s)
      <4>1. l(n) = l(n - 1)
        BY <1>2, <3>1, <3>3
      <4> QED
        BY <3>2, <4>1
    <3>4. CASE Changes(L, b, n, s)
      <4>1. l(n) \in {0, n} /\ n \in later /\ ~none
        BY <1>2, <1>3, <3>1, <3>4
      <4> QED
        BY <4>1
    <3> QED
      BY <3>3, <3>4
  <2> QED
    BY <2>1, <2>2
<1>5. a .. k \subseteq T
  <2> HIDE DEF T
  <2> QED
    BY <1>1, <1>4, Induction
<1>6. k \in T
  BY <1>1, <1>5
<1>7. l(k) \in {0, first} \cup later /\ (none => l(k) = first)
  BY <1>6
<1> QED
  BY <1>7 DEF l, first, later, none

\* Where no transaction has a record there is nothing to undo.
LEMMA LeftEmpty ==
    ASSUME NEW L, NEW N, IsLog(L, N), NEW t, NEW slots, {t[s].last : s \in slots} \subseteq {0},
           NEW values, NEW i
    PROVE  LeftIn(L, N, t, values, slots, i) = values[i]
<1>1. ChainIn(L, N, 0) = {}
  BY LogFacts
<1>2. OnChains(L, N, {t[s].last : s \in slots}, i) = {}
  BY <1>1 DEF OnChains
<1> QED
  BY <1>2 DEF LeftIn, BackTo

LEMMA RecoveredIsNext ==
    (Inv /\ LogKept /\ ~up => \A b \in Nat : LosersFrom(b) =>
        Recovered = [i \in Items |-> Outcome(log, End, anchor, b, End, i, Image(i))])'
<1>1. Inv /\ LogKept /\ ~up => \A b \in Nat : LosersFrom(b) =>
        Recovered = [i \in Items |-> Outcome(log, End, anchor, b, End, i, Image(i))]
  BY RecoveredIs
<1> QED
  BY <1>1, PTL

\* Page 0 is ahead of the log anchor, but no transaction that ran across the
\* begin of either checkpoint has a record in between.
LEMMA AheadOutcome ==
    ASSUME Inv, Faults = {}, up, BegunAfter, NEW b \in Nat, LosersFrom(b), DurableFrom(b),
           NEW x \in Ahead(b), ~HalfAnchored(x), ~UndoneInMemory(End),
           NEW i \in Items, NEW v \in db[i]
    PROVE  /\ stable = End /\ work.op # "commit"
           /\ Outcome(log, End, anchor, x, End, i, v) = Left(Slot, i)
<1> DEFINE e == anchor.end
           l(y, s) == LastIn(log, End, e, y, End, s)
<1>1. /\ Anchored(log, End, e) /\ IsLog(log, End) /\ End \in Nat /\ stable \in 2 .. End
      /\ e \in 1 .. stable /\ End \in e .. End /\ e \in Nat /\ anchor.begin \in Nat
      /\ log[e].type = "END_CHKPT" /\ unsettled \in 0 .. stable
  BY LogAnchored, Sizes DEF Inv, LogInv
<1>2. /\ stage \in {"end", "anchor"} /\ db = Synced /\ x = (IF stage = "end" THEN End ELSE End - 1)
      /\ x \in anchorLSN /\ x > e /\ x # b
  <2>1. db = Synced
    BY DEF DurableFrom, PagesRight
  <2> QED
    BY <2>1 DEF Ahead
<1>3. stable = End /\ work.op # "commit"
  BY <1>2 DEF Inv, StageInv
<1>4. v = mem[i]
  BY <1>2 DEF Synced
<1>5. x \in Nat /\ \A n \in x .. End : ~OfTrans(log[n])
  <2>1. \A n \in x .. End : log[n].type \in {"BEGIN_CHKPT", "END_CHKPT"}
    BY <1>1, <1>2 DEF Inv, StageInv
  <2> QED
    BY <1>1, <1>2, <2>1 DEF OfTrans
<1>6. RedoTo(log, From(anchor, x), End, i, v) = mem[i]
  <2>1. From(anchor, x) \in Nat /\ x <= From(anchor, x)
    BY <1>1, <1>5, FromIs
  <2>2. \A n \in From(anchor, x) .. End : ~ChangesItem(log, n, i)
    BY <1>1, <1>5, <2>1, ChangesOfTrans
  <2> QED
    BY <1>4, <2>2 DEF RedoTo, ChangesIn
<1>7. ASSUME NEW s \in Slot
      PROVE  /\ l(x, s) = log[e].active[s].last /\ l(x, s) \in {0, l(b, s)}
             /\ l(b, s) \in {0, log[e].active[s].last} \cup {n \in e + 1 .. End : OfTrans(log[n])}
             /\ l(b, s) \in 0 .. End /\ l(x, s) \in 0 .. End
  <2>1. Sound(x) /\ End \in stable .. End /\ Quiet(log, e, unsettled, End)
    <3>1. unsettled < e \/ \A n \in unsettled + 1 .. End : ~OfTrans(log[n])
      BY <1>1 DEF UndoneInMemory
    <3> QED
      BY <1>1, <1>3, <3>1 DEF Sound, Quiet
  <2>2. l(x, s) \in {0, l(b, s)}
    BY <1>2, <2>1, SkipsAt
  <2>3. \A n \in e + 1 .. End : OfTrans(log[n]) => n < x
    BY <1>1, <1>5
  <2>4. l(x, s) = log[e].active[s].last
    BY <1>1, <2>3, LastFrom
  <2>5. l(b, s) \in {0, log[e].active[s].last} \cup {n \in e + 1 .. End : OfTrans(log[n])}
    BY <1>1, LastFrom
  <2>6. l(b, s) \in 0 .. End /\ l(x, s) \in 0 .. End
    BY <1>1, LastLogged
  <2> QED
    BY <2>2, <2>4, <2>5, <2>6
<1>8. CASE unsettled < e
  <2>1. ASSUME NEW s \in Slot PROVE l(x, s) = trans[s].last
    <3>1. l(b, s) = trans[s].last
      <4>1. Running(s) = trans[s].last
        BY <1>3 DEF Running, Ending
      <4> QED
        BY <1>8, <4>1 DEF LosersFrom, Sound
    <3>2. l(b, s) \notin {n \in e + 1 .. End : OfTrans(log[n])}
      <4> SUFFICES ASSUME trans[s].last \in e + 1 .. End, OfTrans(log[trans[s].last]) PROVE FALSE
        BY <3>1
      <4> DEFINE n == trans[s].last
      <4>1. n < x /\ n # 0 /\ n \in Nat /\ n >= e
        BY <1>1, <1>5
      <4>2. log[n].trans = trans[s].id
        BY <4>1 DEF Inv, SlotInv, SlotOk
      <4>3. n \in e .. x - 1
        BY <1>1, <1>5, <4>1
      <4> QED
        BY <4>2, <4>3 DEF HalfAnchored
    <3> QED
      BY <1>7, <3>1, <3>2
  <2>2. Tops(log, End, e, x, End) = {trans[s].last : s \in Slot}
    BY <2>1 DEF Tops
  <2>3. Outcome(log, End, anchor, x, End, i, v) = Left(Slot, i)
    BY <1>6, <2>2 DEF Outcome, Left, LeftIn
  <2> QED
    BY <1>3, <2>3
<1>9. CASE ~(unsettled < e)
  <2> DEFINE Px == OnChains(log, End, Tops(log, End, e, x, End), i)
             Pb == OnChains(log, End, Tops(log, End, e, b, End), i)
  <2>1. \A n \in unsettled + 1 .. End : ~OfTrans(log[n])
    BY <1>1, <1>9 DEF UndoneInMemory
  <2>2. ASSUME NEW s \in Slot PROVE trans[s].last = 0
    <3>1. trans[s].first \in {0} \cup unsettled + 1 .. End
      BY <1>1, <1>9 DEF BegunAfter
    <3>2. trans[s].first # 0 => OfTrans(log[trans[s].last]) /\ trans[s].last \in 1 .. End
                                /\ trans[s].last >= trans[s].first
      BY <1>1 DEF Inv, SlotInv, SlotOk
    <3>3. trans[s].first = 0
      BY <1>1, <2>1, <3>1, <3>2
    <3> QED
      BY <3>3 DEF Inv, SlotInv, SlotOk
  <2>3. Left(Slot, i) = mem[i]
    <3>1. {trans[s].last : s \in Slot} \subseteq {0}
      BY <2>2
    <3> QED
      BY <1>1, <3>1, LeftEmpty DEF Left
  <2>4. Quiet(log, e, unsettled, End) /\ Apart(log, End, e, b, End)
    <3>1. Quiet(log, e, unsettled, End) /\ End \in stable .. End
      BY <1>1, <1>3, <2>1 DEF Quiet
    <3> QED
      BY <3>1 DEF LosersFrom, Sound
  <2>5. Outcome(log, End, anchor, b, End, i, v) = mem[i]
    <3>1. End \in stable .. End
      BY <1>1
    <3>2. Outcome(log, End, anchor, b, End, i, v) = Promised(End, i)
      BY <2>4, <3>1 DEF DurableFrom, OutcomesRight
    <3>3. Promised(End, i) = Left(Slot, i)
      BY <1>3 DEF Promised, Committing
    <3> QED
      BY <2>3, <3>2, <3>3
  <2>6. CASE Px = {}
    <3>1. Outcome(log, End, anchor, x, End, i, v) = mem[i]
      BY <1>6, <2>6 DEF Outcome, BackTo
    <3> QED
      BY <1>3, <2>3, <3>1
  <2>7. CASE Px # {}
    <3>1. PICK m : m \in Px
      BY <2>7
    <3>2. ASSUME NEW y, NEW n \in OnChains(log, End, Tops(log, End, e, y, End), i)
          PROVE  \E s \in Slot : n \in ChainIn(log, End, l(y, s)) /\ log[n].type = "UPDATE" /\ log[n].item = i
      BY DEF OnChains, Tops
    <3>3. PICK r \in Slot : m \in ChainIn(log, End, l(x, r)) /\ log[m].type = "UPDATE" /\ log[m].item = i
      BY <3>1, <3>2
    <3>4. ChainIn(log, End, 0) = {}
      BY <1>1, LogFacts
    <3>5. l(x, r) = l(b, r)
      BY <1>7, <3>3, <3>4
    <3>6. Pb \subseteq Px
      <4> SUFFICES ASSUME NEW n \in Pb PROVE n \in Px
        OBVIOUS
      <4>1. PICK s \in Slot : n \in ChainIn(log, End, l(b, s)) /\ log[n].type = "UPDATE" /\ log[n].item = i
        BY <3>2
      <4>2. s = r
        <5> SUFFICES ASSUME s # r PROVE FALSE
          OBVIOUS
        <5>1. Disjoint(log, End, l(b, s), l(b, r))
          BY <2>4 DEF Apart
        <5> QED
          BY <3>3, <3>5, <4>1, <5>1 DEF Disjoint
      <4>3. n \in ChainIn(log, End, l(x, r))
        BY <3>5, <4>1, <4>2
      <4> QED
        BY <4>1, <4>3 DEF OnChains, Tops
    <3>7. Px \subseteq Pb
      <4> SUFFICES ASSUME NEW n \in Px PROVE n \in Pb
        OBVIOUS
      <4>1. PICK s \in Slot : n \in ChainIn(log, End, l(x, s)) /\ log[n].type = "UPDATE" /\ log[n].item = i
        BY <3>2
      <4>2. l(x, s) = l(b, s)
        BY <1>7, <3>4, <4>1
      <4> QED
        BY <4>1, <4>2 DEF OnChains, Tops
    <3>8. Px = Pb
      BY <3>6, <3>7
    <3> HIDE DEF Px, Pb
    <3>9. BackTo(log, Px, RedoTo(log, From(anchor, x), End, i, v))
        = BackTo(log, Pb, RedoTo(log, From(anchor, b), End, i, v))
      BY <2>7, <3>8 DEF BackTo
    <3>10. Outcome(log, End, anchor, x, End, i, v) = Outcome(log, End, anchor, b, End, i, v)
      BY <3>9 DEF Outcome, Px, Pb
    <3> QED
      BY <1>3, <2>3, <2>5, <3>10
  <2> QED
    BY <2>6, <2>7
<1> QED
  BY <1>8, <1>9

\* Whatever a crash leaves, the outcome is right.
LEMMA CrashOutcome ==
    ASSUME Inv, Faults = {}, up, BegunAfter, NEW b \in Nat, LosersFrom(b), DurableFrom(b),
           NEW x \in anchorLSN, ~HalfAnchored(x), NEW k \in stable .. End, ~UndoneInMemory(k),
           NEW i \in Items, NEW v \in db[i]
    PROVE  Outcome(log, End, anchor, x, k, i, v) = Promised(k, i)
<1>1. /\ End \in Nat /\ stable \in 2 .. End /\ anchor.end \in 1 .. stable /\ k \in anchor.end .. End
      /\ x \in Nat /\ b <= x
  BY Sizes DEF Inv, LogInv, DiskInv, LosersFrom
<1>2. Quiet(log, anchor.end, unsettled, k)
  <2>1. unsettled < anchor.end \/ \A n \in unsettled + 1 .. k : ~OfTrans(log[n])
    BY <1>1, Sizes DEF UndoneInMemory, Inv, LogInv
  <2> QED
    BY <2>1 DEF Quiet
<1>3. CASE x \in Ahead(b)
  <2>1. k = End
    <3>1. stage \in {"end", "anchor"}
      BY <1>3 DEF Ahead
    <3>2. stable = End
      BY <3>1 DEF Inv, StageInv
    <3> QED
      BY <1>1, <3>2
  <2>2. work.op # "commit" /\ Outcome(log, End, anchor, x, End, i, v) = Left(Slot, i)
    BY <1>3, <2>1, AheadOutcome
  <2>3. Promised(k, i) = Left(Slot, i)
    BY <2>1, <2>2 DEF Promised, Committing
  <2> QED
    BY <2>1, <2>2, <2>3
<1>4. CASE x \notin Ahead(b)
  <2>1. Outcome(log, End, anchor, b, k, i, v) = Promised(k, i)
    BY <1>2 DEF DurableFrom, OutcomesRight
  <2>2. x = b \/ x <= anchor.end
    <3> SUFFICES ASSUME x # b, x > anchor.end PROVE FALSE
      BY <1>1
    <3>1. ~FailedAfterPage0(x)
      BY DEF HalfAnchored
    <3>2. stage # "anchor" /\ \A y \in anchorLSN : ~(y < x)
      BY <1>4, <3>1 DEF Ahead, FailedAfterPage0
    <3>3. PICK y \in anchorLSN : y = b \/ y <= anchor.end
      BY <3>2 DEF DurableFrom, PagesRight
    <3>4. y \in Nat
      BY <1>1 DEF Inv, DiskInv
    <3> QED
      BY <1>1, <3>2, <3>3, <3>4
  <2>3. Outcome(log, End, anchor, x, k, i, v) = Outcome(log, End, anchor, b, k, i, v)
    BY <1>1, <2>2, OutcomeFrom
  <2> QED
    BY <2>1, <2>3
<1> QED
  BY <1>3, <1>4

\* What a restart leaves is what the transactions that had ended left, with or
\* without the one whose commit the crash interrupted.
CrashLeaves ==
    /\ \/ \A i \in Items : mem'[i] = Left(Slot, i)
       \/ \A i \in Items : mem'[i] = Left(Slot \ Committing, i)
    /\ \A slots \in SUBSET Slot, i \in Items : LeftIn(log', End', trans', mem', slots, i) = mem'[i]

LEMMA CrashDurable ==
    ASSUME Inv, Inv', LogKept', Faults = {}, BegunAfter, NEW b \in Nat, LosersFrom(b), DurableFrom(b),
           NEW c \in Nat, LosersFrom(c)', Crash
    PROVE  DurableFrom(c)' /\ CrashLeaves /\ mem' \in [Items -> LSN]
<1> DEFINE e == anchor.end
<1>1. PICK k \in stable .. End, a \in anchorLSN,
           image \in {f \in [Items -> UNION {db[i] : i \in Items}] : \A i \in Items : f[i] \in db[i]} :
        /\ ~HalfAnchored(a) /\ ~UndoneInMemory(k)
        /\ log' = SubSeq(log, 1, k) /\ stable' = k
        /\ db' = [i \in Items |-> {image[i]}]
        /\ anchorLSN' = {a}
  BY Zenon DEF Crash
<1>2. /\ up /\ ~up' /\ UNCHANGED <<anchor, unsettled>> /\ mem' = Recovered'
      /\ trans' = [s \in Slot |-> NoTrans] /\ work' = Idle /\ stage' = "none"
  BY DEF Crash
<1>3. a = c
  BY <1>1, <1>2 DEF LosersFrom
<1>4. \A i \in Items : image[i] \in db[i]
  OBVIOUS
<1>5. /\ Anchored(log, End, e) /\ IsLog(log, End) /\ End \in Nat /\ stable \in 2 .. End
      /\ e \in 1 .. stable /\ anchor.begin \in Nat \ {0}
  BY LogAnchored, Sizes DEF Inv, LogInv
<1>6. IsLog(log', End') /\ End' = k /\ Agree(log', log, k) /\ k \in e .. End
  <2>1. k \in 0 .. End
    BY <1>5
  <2> QED
    BY <1>1, <1>5, <2>1, LogPrefix
<1>7. Alike(log, End, log', End', e, k)
  <2>1. Anchored(log', End', e)
    BY <1>2, LogAnchoredNext DEF Inv
  <2>2. Agree(log, log', k) /\ k <= End'
    BY <1>5, <1>6 DEF Agree
  <2> QED
    BY <1>5, <1>6, <2>1, <2>2 DEF Alike
<1>8. ASSUME NEW i \in Items
      PROVE  /\ Outcome(log', End', anchor, c, End', i, image[i]) = Promised(k, i)
             /\ mem'[i] = Outcome(log', End', anchor, c, End', i, image[i])
  <2>1. Outcome(log, End, anchor, c, k, i, image[i]) = Promised(k, i)
    BY <1>1, <1>2, <1>3, <1>4, CrashOutcome
  <2>2. Outcome(log', End', anchor, c, k, i, image[i]) = Outcome(log, End, anchor, c, k, i, image[i])
    BY <1>5, <1>7, OutcomeSame
  <2>3. Recovered' = [j \in Items |-> Outcome(log', End', anchor', c, End', j, Image(j)')]
    BY <1>2, RecoveredIsNext
  <2>4. Image(i)' = image[i]
    BY <1>1 DEF Image
  <2>5. mem'[i] = Outcome(log', End', anchor, c, End', i, image[i])
    BY <1>2, <2>3, <2>4
  <2> QED
    BY <1>6, <2>1, <2>2, <2>5
<1>9. \A slots \in SUBSET Slot, i \in Items : LeftIn(log', End', trans', mem', slots, i) = mem'[i]
  <2> TAKE slots \in SUBSET Slot, i \in Items
  <2>1. {trans'[s].last : s \in slots} \subseteq {0}
    BY <1>2 DEF NoTrans
  <2> QED
    BY <1>6, <2>1, LeftEmpty
<1>10. CrashLeaves
  <2>1. CASE k = End
    BY <1>8, <1>9, <2>1 DEF CrashLeaves, Promised
  <2>2. CASE k # End
    BY <1>8, <1>9, <2>2 DEF CrashLeaves, Promised
  <2> QED
    BY <2>1, <2>2
<1>11. \A i \in Items : db'[i] = {image[i]}
  BY <1>1
<1>12. OutcomesRight(c)'
  <2>1. \A j \in stable' .. End' : j = End'
    BY <1>1, <1>6
  <2>2. \A i \in Items : Promised(End, i)' = mem'[i]
    <3>1. Slot \ Committing' \in SUBSET Slot
      OBVIOUS
    <3> QED
      BY <1>9, <3>1 DEF Promised, Left
  <2> QED
    BY <1>2, <1>8, <1>11, <2>1, <2>2 DEF OutcomesRight
<1>13. RedoRight(c)'
  <2>1. ASSUME NEW i \in Items, OnChains(log', End', Tops(log', End', e, c, End'), i) = {}
        PROVE  RedoTo(log', From(anchor, c), End', i, image[i]) = mem'[i]
    BY <1>8, <2>1 DEF Outcome, BackTo
  <2> QED
    BY <1>2, <1>11, <2>1 DEF RedoRight
<1>14. PagesRight(c)'
  BY <1>1, <1>2, <1>3 DEF PagesRight, Ahead
<1>15. mem' \in [Items -> LSN]
  <2>1. mem' \in [Items -> 0 .. End']
    BY DEF Inv, DiskInv
  <2>2. 0 .. End' \subseteq LSN
    BY <1>6, LogFacts, RecoveryAssumption DEF LSN
  <2> QED
    BY <2>1, <2>2
<1> QED
  BY <1>10, <1>12, <1>13, <1>14, <1>15 DEF DurableFrom

-----------------------------------------------------------------------------
(* Steps that leave the log anchor alone *)

\* The records that a step writes give the items that it changes their values,
\* and no others.
Effects ==
    \A i \in Items :
       \/ mem'[i] = mem[i] /\ \A n \in End + 1 .. End' : ~ChangesItem(log', n, i)
       \/ End < End' /\ ChangesItem(log', End', i) /\ mem'[i] = ValueIn(log', End')

\* What is promised for the earlier prefixes of the log stays what it was.
PromisesKept ==
    \A i \in Items, k \in stable' .. End' :
       k < End' \/ (\A n \in End + 1 .. End' : ~OfTrans(log'[n])) =>
          Promised(k, i)' = Promised(IF k <= End THEN k ELSE End, i)

\* Pages are written as they are in memory, after a flush of the log.
ImagesKept ==
    /\ \A i \in Items : db'[i] \subseteq db[i] \cup {mem[i]}
    /\ db' = db \/ stable' = End'

\* The first of two records is the TRANS_BEGIN of an empty slot.
BeginsFirst ==
    End + 1 < End' => (\E s : WritesFor(s)) /\ log'[End + 1].type = "TRANS_BEGIN"

\* Where the log has all that happened, redo makes what is in memory and undo
\* takes back what is still running.
LEMMA SettledOutcome ==
    ASSUME Faults = {}
    PROVE  Inv /\ up /\ unsettled < anchor.end =>
             \A b \in Nat : LosersFrom(b) /\ RedoRight(b) =>
                \A i \in Items : \A v \in db[i] :
                   Outcome(log, End, anchor, b, End, i, v) = Promised(End, i)
<1> SUFFICES ASSUME Inv, up, unsettled < anchor.end, NEW b \in Nat, LosersFrom(b), RedoRight(b),
                    NEW i \in Items, NEW v \in db[i]
             PROVE  Outcome(log, End, anchor, b, End, i, v) = Promised(End, i)
  OBVIOUS
<1>1. IsLog(log, End)
  BY DEF Inv, LogInv
<1>2. \A s \in Slot : LastIn(log, End, anchor.end, b, End, s) = Running(s)
  BY DEF LosersFrom, Sound
<1>3. RedoTo(log, From(anchor, b), End, i, v) = mem[i]
  BY DEF RedoRight, Quiet
<1> DEFINE ls == {trans[s].last : s \in Slot \ Committing}
<1>4. Tops(log, End, anchor.end, b, End) \ {0} = ls \ {0}
  <2>1. \A s \in Slot : s \in Committing <=> Ending(work, s)
    BY DEF Committing, Ending
  <2> QED
    BY <1>2, <2>1 DEF Tops, Running
<1>5. OnChains(log, End, Tops(log, End, anchor.end, b, End), i) = OnChains(log, End, ls, i)
  BY <1>1, <1>4, OnNoChain
<1>6. Outcome(log, End, anchor, b, End, i, v) = BackTo(log, OnChains(log, End, ls, i), mem[i])
  BY <1>3, <1>5 DEF Outcome
<1>7. Promised(End, i) = BackTo(log, OnChains(log, End, ls, i), mem[i])
  BY DEF Promised, Left, LeftIn
<1> QED
  BY <1>6, <1>7

LEMMA SettledOutcomeNext ==
    ASSUME Faults = {}
    PROVE  (Inv /\ up /\ unsettled < anchor.end =>
             \A b \in Nat : LosersFrom(b) /\ RedoRight(b) =>
                \A i \in Items : \A v \in db[i] :
                   Outcome(log, End, anchor, b, End, i, v) = Promised(End, i))'
<1>1. Inv /\ up /\ unsettled < anchor.end =>
         \A b \in Nat : LosersFrom(b) /\ RedoRight(b) =>
            \A i \in Items : \A v \in db[i] :
               Outcome(log, End, anchor, b, End, i, v) = Promised(End, i)
  BY SettledOutcome
<1> QED
  BY <1>1, PTL

\* The first record of a transaction leaves the outcome as it is.
LEMMA OutcomeBegins ==
    ASSUME Onward, NEW b \in Nat, LosersFrom(b), unsettled < anchor.end, Sound(b),
           NEW s, WritesFor(s), End + 1 < End', log'[End + 1].type = "TRANS_BEGIN",
           NEW i, NEW v
    PROVE  Outcome(log', End', anchor, b, End + 1, i, v) = Outcome(log', End', anchor, b, End, i, v)
<1> DEFINE e == anchor.end
           l(n, u) == LastIn(log', End', e, b, n, u)
<1>1. /\ Anchored(log', End', e) /\ IsLog(log', End') /\ End \in Nat /\ End' \in Nat
      /\ End + 1 \in 1 .. End' /\ e \in Nat /\ anchor.begin \in Nat
  BY OnwardFacts, Sizes DEF Onward, Inv, LogInv
<1>2. OfTrans(log'[End + 1]) /\ log'[End + 1].prev = 0
  <2>1. OfTrans(log'[End + 1])
    BY <1>1 DEF WritesFor
  <2> QED
    BY <1>1, <2>1, LogFacts DEF LinkOk
<1>3. ChainIn(log', End', End + 1) = {End + 1} /\ ChainIn(log', End', 0) = {}
  BY <1>1, <1>2, LogFacts
<1>4. s \in Slot /\ trans[s].last = 0
  <2>1. IsLog(log, End) /\ trans[s].last \in 0 .. End /\ s \in Slot
    BY OnwardFacts, AtLogged DEF Onward, WritesFor
  <2>2. 0 \notin ChainIn(log, End, trans[s].last)
    BY <2>1, ChainInside
  <2> QED
    BY <1>2, <2>1, <2>2 DEF WritesFor
<1>5. /\ \A u \in Slot \ {s} : l(End + 1, u) = l(End, u)
      /\ l(End + 1, s) = End + 1 /\ l(End, s) = 0
  BY <1>4, WritesTable DEF Ends
<1>6. OnChains(log', End', Tops(log', End', e, b, End + 1), i)
      = OnChains(log', End', Tops(log', End', e, b, End), i)
  <2>1. \A n : (\E u \in Slot : n \in ChainIn(log', End', l(End + 1, u)) /\ log'[n].type = "UPDATE")
           <=> (\E u \in Slot : n \in ChainIn(log', End', l(End, u)) /\ log'[n].type = "UPDATE")
    BY <1>3, <1>4, <1>5
  <2> HIDE DEF l
  <2>2. \A k : OnChains(log', End', Tops(log', End', e, b, k), i)
            = {n \in UNION {ChainIn(log', End', l(k, u)) : u \in Slot} : log'[n].type = "UPDATE" /\ log'[n].item = i}
    BY DEF OnChains, Tops, l
  <2>3. \A k, n : n \in OnChains(log', End', Tops(log', End', e, b, k), i) <=>
           (\E u \in Slot : n \in ChainIn(log', End', l(k, u)) /\ log'[n].type = "UPDATE") /\ log'[n].item = i
    BY <2>2
  <2>4. \A n : n \in OnChains(log', End', Tops(log', End', e, b, End + 1), i)
             <=> n \in OnChains(log', End', Tops(log', End', e, b, End), i)
    BY <2>1, <2>3
  <2> QED
    BY <2>4, Zenon
<1>7. RedoTo(log', From(anchor, b), End + 1, i, v) = RedoTo(log', From(anchor, b), End, i, v)
  <2>1. From(anchor, b) \in Nat
    BY <1>1, FromIs
  <2>2. \A n \in End + 1 .. End + 1 : ~ChangesItem(log', n, i)
    BY <1>1 DEF ChangesItem
  <2>3. End + 1 \in Nat /\ End <= End + 1
    BY <1>1
  <2> QED
    BY <1>1, <2>1, <2>2, <2>3, RedoMore
<1> QED
  BY <1>6, <1>7 DEF Outcome

\* What redo makes of the old log, and of the images that the step leaves.
LEMMA RedoBefore ==
    ASSUME Inv, NEW b \in Nat, DurableFrom(b), Quiet(log, anchor.end, unsettled, End), ImagesKept,
           NEW i \in Items, NEW v \in db'[i],
           \/ up /\ unsettled < anchor.end
           \/ OnChains(log, End, Tops(log, End, anchor.end, b, End), i) = {}
    PROVE  RedoTo(log, From(anchor, b), End, i, v) = mem[i]
<1>1. PICK y \in db[i] : TRUE
  <2>1. db[i] # {}
    BY DEF Inv, DiskInv
  <2> QED
    BY <2>1
<1>2. \A x \in db[i] : RedoTo(log, From(anchor, b), End, i, x) = mem[i]
  BY DEF DurableFrom, RedoRight
<1>3. RedoTo(log, From(anchor, b), End, i, mem[i]) = mem[i]
  BY <1>2, RedoImage
<1> QED
  BY <1>2, <1>3 DEF ImagesKept

\* The outcomes for the old log.
LEMMA OutcomeBefore ==
    ASSUME Inv, NEW b \in Nat, DurableFrom(b), ImagesKept, NEW k \in stable .. End,
           Quiet(log, anchor.end, unsettled, k), k = End \/ db' = db,
           NEW i \in Items, NEW v \in db'[i]
    PROVE  Outcome(log, End, anchor, b, k, i, v) = Promised(k, i)
<1>1. \A x \in db[i] : Outcome(log, End, anchor, b, k, i, x) = Promised(k, i)
  BY DEF DurableFrom, OutcomesRight
<1>2. CASE v \in db[i]
  BY <1>1, <1>2
<1>3. CASE v \notin db[i]
  <2>1. k = End /\ v = mem[i]
    BY <1>3 DEF ImagesKept
  <2>2. PICK y \in db[i] : TRUE
    <3>1. db[i] # {}
      BY DEF Inv, DiskInv
    <3> QED
      BY <3>1
  <2>3. OnChains(log, End, Tops(log, End, anchor.end, b, k), i) = {} =>
           RedoTo(log, From(anchor, b), k, i, y) = mem[i]
    BY <2>1, <2>2 DEF DurableFrom, RedoRight
  <2>4. Outcome(log, End, anchor, b, k, i, mem[i]) = Outcome(log, End, anchor, b, k, i, y)
    BY <2>3, OutcomeImage
  <2> QED
    BY <1>1, <2>1, <2>2, <2>4
<1> QED
  BY <1>2, <1>3

LEMMA CarriedRedo ==
    ASSUME Onward, NEW b \in Nat, LosersFrom(b), DurableFrom(b), Effects, ImagesKept
    PROVE  RedoRight(b)'
<1> DEFINE e == anchor.end
           w == From(anchor, b)
<1>1. /\ Alike(log, End, log', End', e, End) /\ Anchored(log, End, e) /\ Anchored(log', End', e)
      /\ End \in Nat /\ End' \in Nat /\ End <= End' /\ stable \in 2 .. End
      /\ e \in 1 .. stable /\ e \in Nat /\ unsettled \in 0 .. stable
      /\ \A n \in 1 .. End : log'[n] = log[n]
  BY OnwardFacts, GrowsFacts DEF Onward
<1>2. Inv /\ up /\ up' /\ anchor' = anchor /\ unsettled' = unsettled /\ anchor.begin \in 1 .. stable
  BY Sizes DEF Onward, Inv
<1>3. w \in Nat /\ 1 <= w /\ w <= End
  <2>1. b <= End
    <3>1. PICK x \in anchorLSN : x \in 1 .. stable
      BY <1>2 DEF Inv, DiskInv
    <3>2. b <= x
      BY DEF LosersFrom
    <3> QED
      BY <1>1, <3>1, <3>2
  <2>2. w \in {anchor.begin, b} /\ anchor.begin <= w /\ w \in Nat
    BY <1>2, FromIs
  <2> QED
    BY <1>1, <1>2, <2>1, <2>2
<1> SUFFICES ASSUME Quiet(log', e, unsettled, End'), NEW i \in Items, NEW v \in db'[i],
                    \/ unsettled < e
                    \/ OnChains(log', End', Tops(log', End', e, b, End'), i) = {}
             PROVE  RedoTo(log', w, End', i, v) = mem'[i]
  BY <1>2 DEF RedoRight
<1>4. unsettled < e \/ \A n \in End + 1 .. End' : ~OfTrans(log'[n])
  BY <1>1 DEF Quiet
<1>5. Quiet(log, e, unsettled, End)
  BY <1>1 DEF Quiet
<1>6. CASE /\ mem'[i] = mem[i] /\ \A n \in End + 1 .. End' : ~ChangesItem(log', n, i)
  <2>1. RedoTo(log', w, End', i, v) = RedoTo(log, w, End, i, v)
    <3>1. RedoTo(log', w, End', i, v) = RedoTo(log', w, End, i, v)
      BY <1>1, <1>3, <1>6, RedoMore
    <3> QED
      BY <1>1, <1>3, <3>1, RedoSame
  <2>2. unsettled < e \/ OnChains(log, End, Tops(log, End, e, b, End), i) = {}
    <3> SUFFICES ASSUME ~(unsettled < e) PROVE OnChains(log, End, Tops(log, End, e, b, End), i) = {}
      OBVIOUS
    <3>1. End \in e .. End' /\ End' \in End .. End' /\ End \in e .. End /\ anchor.begin \in Nat
          /\ \A n \in End + 1 .. End' : ~OfTrans(log'[n])
      BY <1>1, <1>2, <1>4
    <3>2. Tops(log', End', e, b, End') = Tops(log', End', e, b, End)
      BY <1>1, <3>1, OutcomeQuiet
    <3>3. \A s \in Slot : LastIn(log', End', e, b, End, s) = LastIn(log, End, e, b, End, s)
      BY <1>1, <3>1, AlikeFacts
    <3>4. Tops(log', End', e, b, End) = Tops(log, End, e, b, End) /\ Tops(log, End, e, b, End) \subseteq 0 .. End
      BY <1>1, <3>1, <3>3, TopsLogged DEF Tops
    <3>5. OnChains(log', End', Tops(log, End, e, b, End), i) = OnChains(log, End, Tops(log, End, e, b, End), i)
      BY <1>1, <3>4, OnChainsSame
    <3> QED
      BY <3>2, <3>4, <3>5
  <2>3. RedoTo(log, w, End, i, v) = mem[i]
    BY <1>2, <1>5, <2>2, RedoBefore
  <2> QED
    BY <1>6, <2>1, <2>3
<1>7. CASE End < End' /\ ChangesItem(log', End', i) /\ mem'[i] = ValueIn(log', End')
  <2>1. w <= End'
    BY <1>1, <1>3
  <2>2. RedoTo(log', w, End', i, v) = ValueIn(log', End')
    BY <1>1, <1>3, <1>7, <2>1, RedoMore
  <2> QED
    BY <1>7, <2>2
<1> QED
  BY <1>6, <1>7 DEF Effects

LEMMA CarriedOutcomes ==
    ASSUME Onward, Faults = {}, NEW b \in Nat, LosersFrom(b), LosersFrom(b)', DurableFrom(b),
           Effects, ImagesKept, PromisesKept, BeginsFirst, End' <= End + 2
    PROVE  OutcomesRight(b)' /\ RedoRight(b)'
<1> DEFINE e == anchor.end
<1>1. /\ Alike(log, End, log', End', e, End) /\ Anchored(log, End, e) /\ Anchored(log', End', e)
      /\ End \in Nat /\ End' \in Nat /\ End <= End' /\ stable \in 2 .. End
      /\ e \in 1 .. stable /\ e \in Nat /\ unsettled \in 0 .. stable
      /\ \A n \in 1 .. End : log'[n] = log[n]
  BY OnwardFacts, GrowsFacts DEF Onward
<1>2. /\ Inv /\ Inv' /\ up /\ up' /\ anchor' = anchor /\ unsettled' = unsettled
      /\ anchor.begin \in Nat \ {0} /\ stable' \in stable .. End'
  BY Sizes DEF Onward, Inv
<1>3. RedoRight(b)'
  BY CarriedRedo
<1>4. ASSUME NEW k \in stable' .. End', Quiet(log', e, unsettled, k), NEW i \in Items, NEW v \in db'[i]
      PROVE  Outcome(log', End', anchor, b, k, i, v) = Promised(k, i)'
  <2>1. CASE k <= End
    <3>1. k \in stable .. End /\ k \in e .. End /\ (k = End \/ db' = db)
      BY <1>1, <1>2, <2>1 DEF ImagesKept
    <3>2. Quiet(log, e, unsettled, k)
      BY <1>1, <1>4, <3>1 DEF Quiet
    <3>3. Outcome(log, End, anchor, b, k, i, v) = Promised(k, i)
      BY <1>2, <3>1, <3>2, OutcomeBefore
    <3>4. Outcome(log', End', anchor, b, k, i, v) = Outcome(log, End, anchor, b, k, i, v)
      <4>1. Alike(log, End, log', End', e, k)
        BY <1>1, <3>1 DEF Alike, Agree
      <4> QED
        BY <1>2, <4>1, OutcomeSame
    <3>5. Promised(k, i)' = Promised(k, i)
      <4>1. k < End' \/ \A n \in End + 1 .. End' : ~OfTrans(log'[n])
        BY <1>1, <2>1
      <4> QED
        BY <2>1, <4>1 DEF PromisesKept
    <3> QED
      BY <3>3, <3>4, <3>5
  <2>2. ASSUME ~(k <= End), Outcome(log', End', anchor, b, k, i, v) = Outcome(log', End', anchor, b, End, i, v),
               k < End' \/ \A n \in End + 1 .. End' : ~OfTrans(log'[n])
        PROVE  Outcome(log', End', anchor, b, k, i, v) = Promised(k, i)'
    <3>1. End \in stable .. End /\ End \in e .. End
      BY <1>1
    <3>2. Quiet(log, e, unsettled, End)
      BY <1>1, <1>4, <2>2 DEF Quiet
    <3>3. Outcome(log, End, anchor, b, End, i, v) = Promised(End, i)
      BY <1>2, <3>1, <3>2, OutcomeBefore
    <3>4. Outcome(log', End', anchor, b, End, i, v) = Outcome(log, End, anchor, b, End, i, v)
      BY <1>1, <1>2, OutcomeSame
    <3>5. Promised(k, i)' = Promised(End, i)
      BY <2>2 DEF PromisesKept
    <3> QED
      BY <2>2, <3>3, <3>4, <3>5
  <2>3. CASE ~(k <= End) /\ \A n \in End + 1 .. k : ~OfTrans(log'[n])
    <3>1. End \in e .. End' /\ k \in End .. End'
      BY <1>1, <1>2, <2>3
    <3>2. Outcome(log', End', anchor, b, k, i, v) = Outcome(log', End', anchor, b, End, i, v)
      BY <1>1, <1>2, <2>3, <3>1, OutcomeQuiet
    <3>3. k < End' \/ \A n \in End + 1 .. End' : ~OfTrans(log'[n])
      <4>1. k < End' \/ k = End'
        BY <1>1, <3>1
      <4> QED
        BY <2>3, <4>1
    <3> QED
      BY <2>2, <2>3, <3>2, <3>3
  <2>4. CASE unsettled < e /\ k = End'
    BY <1>2, <1>3, <2>4, SettledOutcomeNext
  <2>5. CASE unsettled < e /\ ~(k <= End) /\ k # End'
    <3>1. k = End + 1 /\ End + 1 < End'
      BY <1>1, <1>2, <2>5
    <3>2. PICK s : WritesFor(s) /\ log'[End + 1].type = "TRANS_BEGIN"
      BY <3>1 DEF BeginsFirst
    <3>3. Outcome(log', End', anchor, b, k, i, v) = Outcome(log', End', anchor, b, End, i, v)
      BY <2>5, <3>1, <3>2, OutcomeBegins DEF Sound
    <3> QED
      BY <2>2, <2>5, <3>1, <3>3
  <2> QED
    BY <1>1, <1>2, <1>4, <2>1, <2>3, <2>4, <2>5 DEF Quiet
<1>5. OutcomesRight(b)'
  BY <1>2, <1>4 DEF OutcomesRight
<1> QED
  BY <1>3, <1>5

-----------------------------------------------------------------------------
(* What steps make of the store that transactions have left *)

\* A step leaves the store as it is, or it ends a commit.
Keeps ==
    /\ work.op # "commit"
    /\ \A i \in Items :
         /\ LeftIn(log', End', trans', mem', Slot, i) = Left(Slot, i)
         /\ (\A n \in End + 1 .. End' : ~OfTrans(log'[n])) =>
              LeftIn(log', End', trans', mem', Slot \ Committing', i) = Left(Slot, i)
Settles ==
    /\ work.op = "commit" /\ work'.op # "commit"
    /\ \A i \in Items :
         /\ LeftIn(log', End', trans', mem', Slot, i) = Left(Slot \ Committing, i)
         /\ stable' < End => Left(Slot, i) = Left(Slot \ Committing, i)

LEMMA StorePromised ==
    ASSUME Onward, Keeps \/ Settles
    PROVE  PromisesKept
<1>1. End \in Nat /\ stable' \in Nat /\ End' \in Nat
  BY OnwardFacts
<1> SUFFICES ASSUME NEW i \in Items, NEW k \in stable' .. End',
                    k < End' \/ (\A n \in End + 1 .. End' : ~OfTrans(log'[n]))
             PROVE  Promised(k, i)' = Promised(IF k <= End THEN k ELSE End, i)
  BY DEF PromisesKept
<1>2. CASE Keeps
  <2>1. Committing = {}
    BY <1>2 DEF Keeps, Committing
  <2>2. \A j : Promised(j, i) = Left(Slot, i)
    BY <2>1 DEF Promised
  <2>3. Promised(k, i)' = IF k = End' THEN LeftIn(log', End', trans', mem', Slot \ Committing', i)
                          ELSE LeftIn(log', End', trans', mem', Slot, i)
    BY DEF Promised, Left
  <2>4. k = End' => (\A n \in End + 1 .. End' : ~OfTrans(log'[n]))
    OBVIOUS
  <2> QED
    BY <1>2, <2>2, <2>3, <2>4 DEF Keeps
<1>3. CASE Settles
  <2>1. Committing' = {}
    BY <1>3 DEF Settles, Committing
  <2>2. Promised(k, i)' = LeftIn(log', End', trans', mem', Slot, i)
    BY <2>1 DEF Promised, Left
  <2>3. Promised(k, i)' = Left(Slot \ Committing, i)
    BY <1>3, <2>2 DEF Settles
  <2>4. k < End => stable' < End
    BY <1>1
  <2>5. k < End => Left(Slot, i) = Left(Slot \ Committing, i)
    BY <1>3, <2>4 DEF Settles
  <2>6. ~(k <= End) \/ k = End \/ k < End
    BY <1>1
  <2> QED
    BY <2>3, <2>5, <2>6 DEF Promised
<1> QED
  BY <1>2, <1>3

LEMMA OnChainsGrown ==
    ASSUME Onward, NEW ls, ls \subseteq 0 .. End, NEW i, NEW v
    PROVE  /\ OnChains(log', End', ls, i) = OnChains(log, End, ls, i)
           /\ BackTo(log', OnChains(log', End', ls, i), v) = BackTo(log, OnChains(log, End, ls, i), v)
<1>1. /\ End \in Nat /\ \A n \in 1 .. End : log[n] = log'[n]
      /\ \A n \in 0 .. End : ChainIn(log, End, n) = ChainIn(log', End', n) /\ ChainIn(log, End, n) \subseteq 1 .. End
  BY OnwardFacts, AlikeFacts
<1>2. UNION {ChainIn(log, End, l) : l \in ls} = UNION {ChainIn(log', End', l) : l \in ls}
  BY <1>1
<1>3. UNION {ChainIn(log, End, l) : l \in ls} \subseteq 1 .. End
  BY <1>1
<1> DEFINE P == OnChains(log, End, ls, i)
<1>4. OnChains(log', End', ls, i) = P
  BY <1>1, <1>2, <1>3 DEF OnChains
<1>5. P \subseteq 1 .. End /\ P \subseteq Nat
  BY <1>1, <1>3 DEF OnChains
<1> HIDE DEF P
<1>6. P # {} => log[Min(P)] = log'[Min(P)]
  BY <1>1, <1>5, MinIs
<1> QED
  BY <1>4, <1>6 DEF BackTo, P

\* The items as they were, and the same chains but for empty ones.
LEMMA LeftSame ==
    ASSUME Onward, NEW S, S \subseteq Slot, NEW R, R \subseteq Slot,
           {trans'[s].last : s \in S} \ {0} = {trans[s].last : s \in R} \ {0},
           NEW i, mem'[i] = mem[i]
    PROVE  LeftIn(log', End', trans', mem', S, i) = Left(R, i)
<1> DEFINE ls == {trans'[s].last : s \in S}
           ms == {trans[s].last : s \in R}
<1>1. IsLog(log', End') /\ Alike(log, End, log', End', anchor.end, End)
  BY OnwardFacts
<1>2. ms \subseteq 0 .. End
  <2>1. \A s \in Slot : trans[s].last \in 0 .. End
    BY AtLogged DEF Onward
  <2> QED
    BY <2>1
<1> HIDE DEF ls, ms
<1>3. OnChains(log', End', ls, i) = OnChains(log', End', ms, i)
  BY <1>1, OnNoChain DEF ls, ms
<1>4. BackTo(log', OnChains(log', End', ms, i), mem[i]) = BackTo(log, OnChains(log, End, ms, i), mem[i])
  BY <1>2, OnChainsGrown
<1> QED
  BY <1>3, <1>4 DEF Left, LeftIn, ls, ms

\* Steps that change no item and write nothing for a transaction.
LEMMA KeepsQuietly ==
    ASSUME Onward, UNCHANGED mem, work.op # "commit",
           \A n \in End + 1 .. End' : ~OfTrans(log'[n]),
           \A s \in Slot : trans'[s].last = trans[s].last,
           work'.op = "commit" => work'.slot \in Slot /\ trans[work'.slot].last = 0
    PROVE  Effects /\ Keeps
<1>1. Effects
  BY ChangesOfTrans DEF Effects
<1>2. \A s \in Committing' : trans'[s].last = 0
  BY DEF Committing
<1>3. /\ {trans'[s].last : s \in Slot} \ {0} = {trans[s].last : s \in Slot} \ {0}
      /\ {trans'[s].last : s \in Slot \ Committing'} \ {0} = {trans[s].last : s \in Slot} \ {0}
  BY <1>2
<1>4. \A i \in Items : LeftIn(log', End', trans', mem', Slot, i) = Left(Slot, i)
  BY <1>3, LeftSame
<1>5. \A i \in Items : LeftIn(log', End', trans', mem', Slot \ Committing', i) = Left(Slot, i)
  <2> DEFINE S == Slot \ Committing'
  <2>1. S \subseteq Slot /\ {trans'[s].last : s \in S} \ {0} = {trans[s].last : s \in Slot} \ {0}
    BY <1>3
  <2> HIDE DEF S
  <2>2. \A i \in Items : LeftIn(log', End', trans', mem', S, i) = Left(Slot, i)
    BY <2>1, LeftSame
  <2> QED
    BY <2>2 DEF S
<1> QED
  BY <1>1, <1>4, <1>5 DEF Keeps

\* A commit is answered: its slot is given back.
LEMMA SettlesCommit ==
    ASSUME Onward, UNCHANGED mem, work.op = "commit", work' = Idle, DelTrans(work.slot),
           \A n \in End + 1 .. End' : ~OfTrans(log'[n]),
           stable' < End => trans[work.slot].first = 0
    PROVE  Effects /\ Settles
<1> DEFINE s == work.slot
<1>1. s \in Slot /\ Committing = {s} /\ trans \in [Slot -> Trans] /\ work'.op # "commit"
  BY DEF Onward, Inv, WorkInv, SlotInv, Committing, Idle
<1>2. trans' = [trans EXCEPT ![s] = NoTrans]
  BY DEF DelTrans
<1>3. trans'[s].last = 0 /\ \A u \in Slot \ {s} : trans'[u] = trans[u]
  BY <1>1, <1>2 DEF NoTrans
<1> HIDE DEF s
<1>4. {trans'[u].last : u \in Slot} \ {0} = {trans[u].last : u \in Slot \ {s}} \ {0}
  BY <1>1, <1>3
<1>5. \A i \in Items : LeftIn(log', End', trans', mem', Slot, i) = Left(Slot \ {s}, i)
  BY <1>4, LeftSame
<1>6. ASSUME trans[s].first = 0, NEW i \in Items
      PROVE  Left(Slot, i) = Left(Slot \ {s}, i)
  <2>1. trans[s].last = 0 /\ IsLog(log, End)
    BY <1>1, <1>6, AtLogged DEF Onward
  <2>2. {trans[u].last : u \in Slot} \ {0} = {trans[u].last : u \in Slot \ {s}} \ {0}
    BY <2>1
  <2>3. OnChains(log, End, {trans[u].last : u \in Slot}, i) = OnChains(log, End, {trans[u].last : u \in Slot \ {s}}, i)
    BY <2>1, <2>2, OnNoChain
  <2> QED
    BY <2>3 DEF Left, LeftIn
<1>7. Effects
  BY ChangesOfTrans DEF Effects
<1> QED
  BY <1>1, <1>5, <1>6, <1>7 DEF Settles, s

\* The updates that are to be undone of an item are those of the slots.
LEMMA OnSlots ==
    ASSUME NEW L, NEW N, NEW t, NEW S, NEW i
    PROVE  \A n : n \in OnChains(L, N, {t[s].last : s \in S}, i) <=>
              \E s \in S : n \in ChainIn(L, N, t[s].last) /\ L[n].type = "UPDATE" /\ L[n].item = i
BY DEF OnChains

\* A step that logs an update of the item, or undoes the last one.
Written(P, Q, v, w) ==
    /\ P \subseteq 1 .. End
    /\ \/ Q = P /\ w = v
       \/ Q = P \cup {End'} /\ End < End' /\ log'[End'].before = v
       \/ \E n \in P : Q = P \ {n} /\ (\A m \in P : m <= n) /\ w = log[n].before
LEMMA BackToWritten ==
    ASSUME Onward, NEW P, NEW Q, NEW v, NEW w, Written(P, Q, v, w)
    PROVE  BackTo(log', Q, w) = BackTo(log, P, v)
<1> USE DEF Written
<1>1. End \in Nat /\ End' \in Nat /\ \A n \in 1 .. End : log'[n] = log[n]
  BY GrowsFacts, OnwardFacts DEF Onward
<1>2. P \subseteq Nat /\ (P # {} => Min(P) \in P /\ \A m \in P : Min(P) <= m)
  <2>1. P \subseteq Nat
    BY <1>1
  <2> QED
    BY <2>1, MinIs
<1>3. P # {} => log'[Min(P)] = log[Min(P)]
  BY <1>1, <1>2
<1>4. CASE Q = P /\ w = v
  BY <1>3, <1>4 DEF BackTo
<1>5. CASE Q = P \cup {End'} /\ End < End' /\ log'[End'].before = v
  <2>1. Q \subseteq Nat /\ End' \in Q /\ \A m \in P : m <= End'
    <3>1. \A m \in P : m \in 1 .. End /\ m <= End'
      BY <1>1, <1>5
    <3> QED
      BY <1>1, <1>2, <1>5, <3>1
  <2>2. CASE P = {}
    <3>1. \A m \in Q : End' <= m
      BY <1>1, <1>5, <2>2
    <3>2. Min(Q) = End'
      BY <2>1, <3>1, MinUnique
    <3> QED
      BY <1>5, <2>1, <2>2, <3>2 DEF BackTo
  <2>3. CASE P # {}
    <3>1. Min(P) \in Q /\ \A m \in Q : Min(P) <= m
      BY <1>2, <1>5, <2>1, <2>3
    <3>2. Min(Q) = Min(P)
      BY <2>1, <3>1, MinUnique
    <3> QED
      BY <1>3, <2>1, <2>3, <3>2 DEF BackTo
  <2> QED
    BY <2>2, <2>3
<1>6. CASE \E n \in P : Q = P \ {n} /\ (\A m \in P : m <= n) /\ w = log[n].before
  <2>1. PICK n \in P : Q = P \ {n} /\ (\A m \in P : m <= n) /\ w = log[n].before
    BY <1>6
  <2>2. CASE Q = {}
    <3>1. P = {n}
      BY <2>1, <2>2
    <3>2. Min(P) = n
      BY <1>2, <3>1
    <3> QED
      BY <2>1, <2>2, <3>1, <3>2 DEF BackTo
  <2>3. CASE Q # {}
    <3>1. PICK m \in Q : TRUE
      BY <2>3
    <3>2. m \in P /\ m # n /\ m <= n /\ Min(P) <= m /\ m \in Nat /\ n \in Nat /\ Min(P) \in Nat
      BY <1>2, <2>1, <3>1
    <3>3. Min(P) # n
      BY <3>2
    <3>4. Min(P) \in Q /\ \A x \in Q : Min(P) <= x
      BY <1>2, <2>1, <3>2, <3>3
    <3>5. Q \subseteq Nat
      BY <1>2, <2>1
    <3>6. Min(Q) = Min(P)
      BY <3>4, <3>5, MinUnique
    <3> QED
      BY <1>3, <2>3, <3>2, <3>6 DEF BackTo
  <2> QED
    BY <2>2, <2>3
<1> QED
  BY <1>4, <1>5, <1>6

-----------------------------------------------------------------------------
(* Steps of transactions *)

LEMMA BeginEffects ==
    ASSUME Onward, Begin
    PROVE  Effects /\ Keeps /\ End' = End
<1>1. PICK id : FreeId(id) /\ trans' = [trans EXCEPT ![id % MaxTrans] = [NoTrans EXCEPT !.id = id]]
  <2> DEFINE tries == {j \in 0 .. MaxTrans : FreeId(IdAt[j])}
             id == IdAt[Min(tries)]
  <2>1. tries # {} /\ trans' = [trans EXCEPT ![id % MaxTrans] = [NoTrans EXCEPT !.id = id]]
    BY DEF Begin
  <2>2. tries \subseteq Nat
    BY RecoveryAssumption
  <2> HIDE DEF tries
  <2>3. Min(tries) \in tries
    BY <2>1, <2>2, MinIs
  <2>4. FreeId(id)
    BY <2>3 DEF tries
  <2> QED
    BY <2>1, <2>4
<1>2. work = Idle /\ UNCHANGED <<mem, log, work>>
  BY DEF Begin, Free, logs
<1> DEFINE v == id % MaxTrans
<1>3. trans[v].id = 0
  BY <1>1 DEF FreeId, Used
<1> HIDE DEF v
<1>4. ASSUME NEW s \in Slot PROVE trans'[s].last = trans[s].last
  <2>1. CASE s = v
    <3>1. trans[s] = NoTrans
      BY <1>3, <2>1 DEF Onward, Inv, SlotInv, SlotOk
    <3>2. trans'[s] = [NoTrans EXCEPT !.id = id]
      BY <1>1, <2>1 DEF Onward, Inv, SlotInv, v
    <3> QED
      BY <3>1, <3>2 DEF NoTrans
  <2>2. CASE s # v
    BY <1>1, <2>2 DEF Onward, Inv, SlotInv, v
  <2> QED
    BY <2>1, <2>2
<1>5. End' = End /\ work.op # "commit" /\ work'.op # "commit"
  BY <1>2, GrowsSame DEF Onward, Inv, Idle
<1>6. \A n \in End + 1 .. End' : ~OfTrans(log'[n])
  BY <1>5, OnwardFacts
<1> QED
  BY <1>2, <1>4, <1>5, <1>6, KeepsQuietly

LEMMA RollbackEffects ==
    ASSUME Onward, EndPartialRollback \/ \E s \in Slot : PartialRollback(s) \/ Abort(s)
    PROVE  Effects /\ Keeps /\ End' = End
<1>1. UNCHANGED <<mem, log>> /\ work.op # "commit" /\ work'.op # "commit"
  BY DEF EndPartialRollback, PartialRollback, Abort, Idle, Free, logs
<1>2. \A s \in Slot : trans'[s].last = trans[s].last
  <2>1. CASE EndPartialRollback
    BY <2>1 DEF EndPartialRollback, Onward, Inv, SlotInv, Trans
  <2>2. CASE \E s \in Slot : PartialRollback(s) \/ Abort(s)
    BY <2>2 DEF PartialRollback, Abort
  <2> QED
    BY <2>1, <2>2
<1>5. End' = End
  BY <1>1, GrowsSame DEF Onward, Inv
<1>6. \A n \in End + 1 .. End' : ~OfTrans(log'[n])
  BY <1>5, OnwardFacts
<1> QED
  BY <1>1, <1>2, <1>5, <1>6, KeepsQuietly

LEMMA EndCommitEffects ==
    ASSUME Onward, EndCommit
    PROVE  Effects /\ Settles /\ End' = End
<1>1. /\ UNCHANGED <<mem, log>> /\ work.op = "commit" /\ work' = Idle /\ DelTrans(work.slot)
      /\ stable' = IF trans[work.slot].first = 0 THEN stable ELSE End
  BY DEF EndCommit
<1>2. End' = End /\ End \in Nat
  BY <1>1, GrowsSame, OnwardFacts DEF Onward, Inv
<1>3. \A n \in End + 1 .. End' : ~OfTrans(log'[n])
  BY <1>2
<1>4. stable' < End => trans[work.slot].first = 0
  BY <1>1, <1>2
<1> QED
  BY <1>1, <1>2, <1>3, <1>4, SettlesCommit

\* Checkpoints write no record of a transaction.  The one that takes the place
\* of the end of a commit has the whole log flushed.
LEMMA CheckpointEffects ==
    ASSUME Onward, CheckpointNext, "clean" \notin Faults
    PROVE  /\ Effects
           /\ ~CheckpointAtCommit => Keeps
           /\ CheckpointAtCommit => Settles
<1>1. /\ \A n \in End + 1 .. End' : ~OfTrans(log'[n])
      /\ UNCHANGED mem
      /\ ~CheckpointAtCommit => UNCHANGED trans /\ (work' = work \/ (work.op = "restart" /\ work' = Idle))
  BY CheckpointWrites DEF Onward
<1>2. CASE CheckpointAtCommit
  <2>1. /\ work.op = "commit" /\ work' = Idle /\ DelTrans(work.slot)
        /\ StartCheckpoint \/ SkipCheckpoint
    BY <1>2 DEF CheckpointAtCommit
  <2>2. ~(stable' < End)
    <3>1. End \in Nat
      BY OnwardFacts
    <3>2. stable' = End + 1 \/ stable' = End
      BY <2>1 DEF StartCheckpoint, SkipCheckpoint
    <3> QED
      BY <3>1, <3>2
  <2> QED
    BY <1>1, <1>2, <2>1, <2>2, SettlesCommit
<1>3. CASE ~CheckpointAtCommit
  <2>1. work.op # "commit"
    BY <1>3 DEF CheckpointNext, Checkpoint, CheckpointPages, CheckpointPage0, CheckpointEnd,
                CheckpointAnchor, CheckpointFails, DeleteLogFiles, ReplaceBuffer, Onward, Inv, StageInv
  <2>2. work'.op # "commit"
    BY <1>1, <1>3, <2>1 DEF Idle
  <2> QED
    BY <1>1, <1>3, <2>1, <2>2, KeepsQuietly
<1> QED
  BY <1>2, <1>3

\* The updates of item i on the chain from l.
Own(L, N, l, i) == {n \in ChainIn(L, N, l) : L[n].type = "UPDATE" /\ L[n].item = i}

LEMMA OneOfSlots ==
    ASSUME NEW L, NEW N, NEW t, NEW S, NEW s \in S, NEW i
    PROVE  OnChains(L, N, {t[u].last : u \in S}, i)
           = Own(L, N, t[s].last, i) \cup OnChains(L, N, {t[u].last : u \in S \ {s}}, i)
<1>1. \A n : n \in OnChains(L, N, {t[u].last : u \in S}, i) <=>
             \E u \in S : n \in ChainIn(L, N, t[u].last) /\ L[n].type = "UPDATE" /\ L[n].item = i
  BY DEF OnChains
<1>2. \A n : n \in OnChains(L, N, {t[u].last : u \in S \ {s}}, i) <=>
             \E u \in S \ {s} : n \in ChainIn(L, N, t[u].last) /\ L[n].type = "UPDATE" /\ L[n].item = i
  BY DEF OnChains
<1>3. \A n : n \in Own(L, N, t[s].last, i) <=>
             n \in ChainIn(L, N, t[s].last) /\ L[n].type = "UPDATE" /\ L[n].item = i
  BY DEF Own
<1> QED
  BY <1>1, <1>2, <1>3

\* What a transaction writes leaves the chains of the others alone.
LEMMA LeftWritten ==
    ASSUME Onward, NEW s \in Slot, \A u \in Slot \ {s} : trans'[u].last = trans[u].last, NEW i
    PROVE  \E O \in SUBSET (1 .. End) :
              /\ O = OnChains(log, End, {trans[u].last : u \in Slot \ {s}}, i)
              /\ Own(log, End, trans[s].last, i) \subseteq 1 .. End
              /\ Left(Slot, i) = BackTo(log, Own(log, End, trans[s].last, i) \cup O, mem[i])
              /\ LeftIn(log', End', trans', mem', Slot, i)
                 = BackTo(log', Own(log', End', trans'[s].last, i) \cup O, mem'[i])
<1> DEFINE ls == {trans[u].last : u \in Slot \ {s}}
           O == OnChains(log, End, ls, i)
<1>1. IsLog(log, End) /\ \A u \in Slot : trans[u].last \in 0 .. End
  BY AtLogged DEF Onward, Inv, LogInv
<1>2. ls \subseteq 0 .. End
  BY <1>1
<1>3. {trans'[u].last : u \in Slot \ {s}} = ls
  OBVIOUS
<1>4. Left(Slot, i) = BackTo(log, Own(log, End, trans[s].last, i) \cup O, mem[i])
  <2>1. OnChains(log, End, {trans[u].last : u \in Slot}, i)
        = Own(log, End, trans[s].last, i) \cup OnChains(log, End, {trans[u].last : u \in Slot \ {s}}, i)
    BY OneOfSlots
  <2> QED
    BY <2>1 DEF Left, LeftIn
<1>5. LeftIn(log', End', trans', mem', Slot, i)
      = BackTo(log', Own(log', End', trans'[s].last, i) \cup OnChains(log', End', ls, i), mem'[i])
  <2>1. OnChains(log', End', {trans'[u].last : u \in Slot}, i)
        = Own(log', End', trans'[s].last, i) \cup OnChains(log', End', {trans'[u].last : u \in Slot \ {s}}, i)
    BY OneOfSlots
  <2> QED
    BY <1>3, <2>1 DEF LeftIn
<1> HIDE DEF ls
<1>6. OnChains(log', End', ls, i) = O
  BY <1>2, OnChainsGrown
<1>7. O \subseteq 1 .. End
  BY <1>1, <1>2, OnChainsLogged
<1>8. Own(log, End, trans[s].last, i) \subseteq 1 .. End
  BY <1>1, ChainInside DEF Own
<1> QED
  BY <1>4, <1>5, <1>6, <1>7, <1>8 DEF ls

\* The chain of a record that has just been written.
LEMMA OwnGrown ==
    ASSUME Onward, NEW p \in 0 .. End, NEW i
    PROVE  /\ Own(log', End', p, i) = Own(log, End, p, i)
           /\ End' = End + 1 /\ OfTrans(log'[End']) /\ log'[End'].prev = p /\ log'[End'].type # "UPDATE" =>
                Own(log', End', End', i) = Own(log, End, p, i)
<1>1. /\ IsLog(log, End) /\ IsLog(log', End') /\ End \in Nat /\ End <= End' /\ Agree(log, log', End)
      /\ \A n \in 1 .. End : log'[n] = log[n]
  BY OnwardFacts, GrowsFacts DEF Onward, Grows
<1>2. ChainIn(log', End', p) = ChainIn(log, End, p) /\ ChainIn(log, End, p) \subseteq 1 .. End
  BY <1>1, ChainGrown, ChainInside
<1>3. Own(log', End', p, i) = Own(log, End, p, i)
  BY <1>1, <1>2 DEF Own
<1>4. ASSUME End' = End + 1, OfTrans(log'[End']), log'[End'].prev = p, log'[End'].type # "UPDATE"
      PROVE  Own(log', End', End', i) = Own(log, End, p, i)
  <2>1. ChainIn(log', End', End') = {End'} \cup ChainIn(log', End', p)
    <3>1. End' \in 1 .. End'
      BY <1>1, <1>4
    <3> QED
      BY <1>1, <1>4, <3>1, LogFacts
  <2>2. Own(log', End', End', i) = Own(log', End', p, i)
    BY <1>4, <2>1 DEF Own
  <2> QED
    BY <1>3, <2>2
<1> QED
  BY <1>3, <1>4

LEMMA DoUpdateEffects ==
    ASSUME Onward, NEW s \in Slot, NEW i \in Items, NEW begins \in BOOLEAN, DoUpdate(s, i, begins)
    PROVE  Effects /\ Keeps /\ BeginsFirst /\ End' <= End + 2
<1> DEFINE recs == BeginRecords(s) \o <<Update(s, PrevLSN(s), i)>>
           t == Logged(s, recs)
           v == [t EXCEPT !.save = IF begins THEN trans[s].last ELSE trans[s].save]
<1>1. /\ work = Idle /\ trans[s].id # 0 /\ WriteLog(recs)
      /\ trans' = [trans EXCEPT ![s] = v] /\ work' = work
      /\ mem' = [mem EXCEPT ![i] = End']
  BY DEF DoUpdate, Free, Used, End
<1>2. /\ log'[End'].type = "UPDATE" /\ log'[End'].item = i /\ log'[End'].before = mem[i]
      /\ End' = IF trans[s].first = 0 THEN End + 2 ELSE End + 1
      /\ \A n \in End + 1 .. End' : n # End' => log'[n].type = "TRANS_BEGIN"
      /\ ChainIn(log', End', End') = (End + 1 .. End') \cup ChainIn(log, End, trans[s].last)
      /\ t \in Trans /\ t.last = End'
  BY <1>1, UpdateWrites DEF Onward
<1> HIDE DEF recs, t
<1>3. /\ trans \in [Slot -> Trans] /\ End \in Nat /\ End' \in Nat /\ trans[s].last \in 0 .. End
      /\ mem \in [Items -> 0 .. End] /\ IsLog(log, End)
      /\ \A n \in 1 .. End : log'[n] = log[n]
  BY AtLogged, GrowsFacts, OnwardFacts DEF Onward, Inv, SlotInv, DiskInv
<1>4. v.last = End'
  BY <1>2 DEF Trans
<1> HIDE DEF v
<1>5. trans'[s].last = End' /\ \A u \in Slot \ {s} : trans'[u].last = trans[u].last
  BY <1>1, <1>3, <1>4
<1>6. mem'[i] = End' /\ \A j \in Items \ {i} : mem'[j] = mem[j]
  BY <1>1, <1>3
<1>7. work.op # "commit" /\ Committing' = {}
  BY <1>1 DEF Idle, Committing
<1>8. End' \in {End + 1, End + 2} /\ End < End' /\ End' \in End + 1 .. End'
  BY <1>2, <1>3
<1>9. ChainIn(log, End, trans[s].last) \subseteq 1 .. End
  BY <1>3, ChainInside
<1>10. ASSUME NEW j \in Items
       PROVE  Own(log', End', End', j)
              = Own(log, End, trans[s].last, j) \cup (IF j = i THEN {End'} ELSE {})
  <2>1. \A n \in End + 1 .. End' : log'[n].type = "UPDATE" <=> n = End'
    BY <1>2
  <2>2. \A n : n \in Own(log', End', End', j) <=>
           \/ n \in End + 1 .. End' /\ log'[n].type = "UPDATE" /\ log'[n].item = j
           \/ n \in ChainIn(log, End, trans[s].last) /\ log'[n].type = "UPDATE" /\ log'[n].item = j
    BY <1>2 DEF Own
  <2>3. \A n : n \in Own(log, End, trans[s].last, j) <=>
           n \in ChainIn(log, End, trans[s].last) /\ log'[n].type = "UPDATE" /\ log'[n].item = j
    BY <1>3, <1>9 DEF Own
  <2>4. \A n : n \in End + 1 .. End' /\ log'[n].type = "UPDATE" /\ log'[n].item = j <=> n = End' /\ j = i
    BY <1>2, <1>8, <2>1
  <2> QED
    BY <2>2, <2>3, <2>4
<1>11. ASSUME NEW j \in Items PROVE LeftIn(log', End', trans', mem', Slot, j) = Left(Slot, j)
  <2>1. PICK O \in SUBSET (1 .. End) :
           /\ Own(log, End, trans[s].last, j) \subseteq 1 .. End
           /\ Left(Slot, j) = BackTo(log, Own(log, End, trans[s].last, j) \cup O, mem[j])
           /\ LeftIn(log', End', trans', mem', Slot, j)
              = BackTo(log', Own(log', End', trans'[s].last, j) \cup O, mem'[j])
    BY <1>5, LeftWritten
  <2> DEFINE P == Own(log, End, trans[s].last, j) \cup O
             Q == Own(log', End', trans'[s].last, j) \cup O
  <2>2. \/ Q = P /\ mem'[j] = mem[j]
        \/ Q = P \cup {End'} /\ End < End' /\ log'[End'].before = mem[j]
    <3>1. CASE j = i
      BY <1>2, <1>5, <1>8, <1>10, <3>1
    <3>2. CASE j # i
      BY <1>5, <1>6, <1>10, <3>2
    <3> QED
      BY <3>1, <3>2
  <2>3. P \subseteq 1 .. End
    BY <2>1
  <2> HIDE DEF P, Q
  <2>4. BackTo(log', Q, mem'[j]) = BackTo(log, P, mem[j])
    <3>1. Written(P, Q, mem[j], mem'[j])
      BY <2>2, <2>3 DEF Written
    <3> QED
      BY <3>1, BackToWritten
  <2> QED
    BY <2>1, <2>4 DEF P, Q
<1>12. Effects
  <2> SUFFICES ASSUME NEW j \in Items
               PROVE  \/ mem'[j] = mem[j] /\ \A n \in End + 1 .. End' : ~ChangesItem(log', n, j)
                      \/ End < End' /\ ChangesItem(log', End', j) /\ mem'[j] = ValueIn(log', End')
    BY DEF Effects
  <2>1. CASE j = i
    BY <1>2, <1>6, <1>8, <2>1 DEF ChangesItem, ValueIn
  <2>2. CASE j # i
    <3>1. \A n \in End + 1 .. End' : ~ChangesItem(log', n, j)
      BY <1>2, <2>2 DEF ChangesItem
    <3> QED
      BY <1>6, <2>2, <3>1
  <2> QED
    BY <2>1, <2>2
<1>13. Keeps
  BY <1>7, <1>11 DEF Keeps
<1>14. BeginsFirst
  <2>1. WritesFor(s)
    BY DoUpdateWrites DEF Onward
  <2>2. End + 1 < End' => log'[End + 1].type = "TRANS_BEGIN"
    BY <1>2, <1>3
  <2> QED
    BY <2>1, <2>2 DEF BeginsFirst
<1>15. End' <= End + 2
  BY <1>3, <1>8
<1> QED
  BY <1>12, <1>13, <1>14, <1>15

LEMMA EndAbortEffects ==
    ASSUME Onward, UndoneOffChain, EndAbort
    PROVE  Effects /\ Keeps /\ End' <= End + 1
<1> DEFINE s == work.slot
           r == TransRec("TRANS_ABORT", s, trans[s].last)
<1>1. /\ work.op = "abort" /\ work' = Idle /\ trans' = [trans EXCEPT ![s] = NoTrans]
      /\ \/ trans[s].last = 0 /\ UNCHANGED log
         \/ trans[s].last # 0 /\ WriteLog(<<r>>)
      /\ UNCHANGED mem /\ work.next = 0
  BY DEF EndAbort, DelTrans, UndoneEnough
<1>2. /\ s \in Slot /\ trans[s].id # 0 /\ End \in Nat /\ End' \in Nat /\ trans \in [Slot -> Trans]
      /\ IsLog(log, End) /\ trans[s].last \in 0 .. End
  BY <1>1, AtLogged, OnwardFacts DEF Onward, Inv, WorkInv, WorkOk, SlotInv
<1>3. work.op # "commit" /\ Committing' = {} /\ work'.op # "commit"
  BY <1>1 DEF Committing, Idle
<1>4. trans'[s].last = 0 /\ \A u \in Slot \ {s} : trans'[u] = trans[u]
  BY <1>1, <1>2 DEF NoTrans
<1>5. CASE trans[s].last = 0
  <2>1. \A u \in Slot : trans'[u].last = trans[u].last
    BY <1>4, <1>5
  <2>2. UNCHANGED log /\ UNCHANGED mem
    BY <1>1, <1>5
  <2>3. End' = End /\ \A n \in End + 1 .. End' : ~OfTrans(log'[n])
    BY <1>2, <2>2, GrowsSame DEF Onward, Inv
  <2>4. End' <= End + 1
    BY <1>2, <2>3
  <2> QED
    BY <1>3, <2>1, <2>2, <2>3, <2>4, KeepsQuietly
<1>6. CASE trans[s].last # 0
  <2>1. ~Ending(work, s) /\ "TRANS_ABORT" \in Ends
    BY <1>2, <1>3 DEF Ends, Ending
  <2>2. /\ RecordOk(log, r, End + 1) /\ r.type = "TRANS_ABORT"
    BY <1>2, <1>6, <2>1, EndRecordOk DEF Onward
  <2>3. WriteLog(<<r>>)
    BY <1>1, <1>6
  <2> HIDE DEF r
  <2>4. End' = End + 1 /\ log'[End + 1] = r
    BY <1>2, <2>2, <2>3, WriteOne
  <2>5. \A j, n : n \in End + 1 .. End' => ~ChangesItem(log', n, j)
    <3>1. \A n \in End + 1 .. End' : log'[n].type = "TRANS_ABORT"
      BY <1>2, <2>2, <2>4
    <3> QED
      BY <3>1 DEF ChangesItem
  <2>6. ASSUME NEW j \in Items PROVE LeftIn(log', End', trans', mem', Slot, j) = Left(Slot, j)
    <3>1. PICK O \in SUBSET (1 .. End) :
             /\ Own(log, End, trans[s].last, j) \subseteq 1 .. End
             /\ Left(Slot, j) = BackTo(log, Own(log, End, trans[s].last, j) \cup O, mem[j])
             /\ LeftIn(log', End', trans', mem', Slot, j)
                = BackTo(log', Own(log', End', trans'[s].last, j) \cup O, mem'[j])
      BY <1>2, <1>4, LeftWritten
    <3>2. Own(log, End, trans[s].last, j) = {}
      <4>1. ChainIn(log, End, 0) = {}
        BY <1>2, LogFacts
      <4> QED
        BY <1>1, <4>1 DEF Own, UndoneOffChain
    <3>3. Own(log', End', trans'[s].last, j) = {}
      <4>1. ChainIn(log', End', 0) = {}
        BY LogFacts, OnwardFacts
      <4> QED
        BY <1>4, <4>1 DEF Own
    <3>4. mem'[j] = mem[j] /\ O \subseteq 1 .. End
      BY <1>1
    <3>5. BackTo(log', O, mem[j]) = BackTo(log, O, mem[j])
      <4>1. Written(O, O, mem[j], mem[j])
        BY <3>4 DEF Written
      <4> QED
        BY <4>1, BackToWritten
    <3>6. {} \cup O = O
      OBVIOUS
    <3> QED
      BY <3>1, <3>2, <3>3, <3>4, <3>5, <3>6
  <2>7. Effects
    BY <1>1, <2>5 DEF Effects
  <2>8. Keeps
    BY <1>3, <2>6 DEF Keeps
  <2> QED
    BY <1>2, <2>4, <2>7, <2>8
<1> QED
  BY <1>5, <1>6

LEMMA CommitEffects ==
    ASSUME Onward, NEW s \in Slot, Commit(s)
    PROVE  Effects /\ Keeps /\ End' <= End + 1
<1> DEFINE r == TransRec("TRANS_COMMIT", s, trans[s].last)
           t == Logged(s, <<r>>)
<1>1. /\ work = Idle /\ trans[s].id # 0 /\ work' = [op |-> "commit", slot |-> s, next |-> 0]
      /\ \/ trans[s].first = 0 /\ UNCHANGED <<log, trans>>
         \/ trans[s].first # 0 /\ WriteLog(<<r>>) /\ trans' = [trans EXCEPT ![s] = t]
      /\ UNCHANGED mem
  BY DEF Commit, Free, Used
<1>2. /\ End \in Nat /\ End' \in Nat /\ trans \in [Slot -> Trans]
      /\ IsLog(log, End) /\ trans[s].last \in 0 .. End /\ (trans[s].first = 0 <=> trans[s].last = 0)
  BY AtLogged, OnwardFacts DEF Onward, Inv, SlotInv
<1>3. work.op # "commit" /\ work'.slot = s
  BY <1>1 DEF Idle
<1>4. CASE trans[s].first = 0
  <2>1. trans[s].last = 0 /\ UNCHANGED <<log, trans, mem>>
    BY <1>1, <1>2, <1>4
  <2>2. End' = End /\ \A n \in End + 1 .. End' : ~OfTrans(log'[n])
    BY <1>2, <2>1, GrowsSame DEF Onward, Inv
  <2>3. End' <= End + 1
    BY <1>2, <2>2
  <2>4. work'.slot \in Slot /\ trans[work'.slot].last = 0
    BY <1>3, <2>1
  <2> QED
    BY <1>3, <2>1, <2>2, <2>3, <2>4, KeepsQuietly
<1>5. CASE trans[s].first # 0
  <2>1. trans[s].last # 0 /\ ~Ending(work, s) /\ "TRANS_COMMIT" \in Ends
    BY <1>2, <1>3, <1>5 DEF Ends, Ending
  <2>2. /\ RecordOk(log, r, End + 1) /\ OfTrans(r) /\ r.type = "TRANS_COMMIT"
        /\ r.prev = trans[s].last
    BY <1>1, <2>1, EndRecordOk DEF Onward
  <2>3. WriteLog(<<r>>) /\ trans' = [trans EXCEPT ![s] = t]
    BY <1>1, <1>5
  <2> HIDE DEF r
  <2>4. End' = End + 1 /\ log'[End + 1] = r /\ IsLog(log', End')
    BY <1>2, <2>2, <2>3, WriteOne
  <2>5. t.last = End'
    <3>1. End' = End + Len(<<r>>)
      BY <2>4, OneIsOne
    <3>2. End' \in LSN /\ End + 1 \in LSN
      BY <1>2, <2>4, LogFacts DEF LSN
    <3>3. t.id = trans[s].id /\ t.last = End' /\ t.save = trans[s].save
          /\ t.first = IF trans[s].first = 0 THEN End + 1 ELSE trans[s].first
      BY <1>2, <3>1, <3>2, LoggedFields
    <3> QED
      BY <3>3
  <2> HIDE DEF t
  <2>6. trans'[s].last = End' /\ \A u \in Slot \ {s} : trans'[u].last = trans[u].last
    BY <1>2, <2>3, <2>5
  <2>7. \A n \in End + 1 .. End' : n = End' /\ log'[n].type = "TRANS_COMMIT" /\ OfTrans(log'[n])
    BY <1>2, <2>2, <2>4
  <2>8. End' \in End + 1 .. End'
    BY <1>2, <2>4
  <2>9. ASSUME NEW j \in Items PROVE LeftIn(log', End', trans', mem', Slot, j) = Left(Slot, j)
    <3>1. PICK O \in SUBSET (1 .. End) :
             /\ Own(log, End, trans[s].last, j) \subseteq 1 .. End
             /\ Left(Slot, j) = BackTo(log, Own(log, End, trans[s].last, j) \cup O, mem[j])
             /\ LeftIn(log', End', trans', mem', Slot, j)
                = BackTo(log', Own(log', End', trans'[s].last, j) \cup O, mem'[j])
      BY <2>6, LeftWritten
    <3>2. Own(log', End', End', j) = Own(log, End, trans[s].last, j)
      BY <1>2, <2>2, <2>4, OwnGrown
    <3> DEFINE P == Own(log, End, trans[s].last, j) \cup O
    <3>3. mem'[j] = mem[j] /\ P \subseteq 1 .. End
      BY <1>1, <3>1
    <3> HIDE DEF P
    <3>4. BackTo(log', P, mem[j]) = BackTo(log, P, mem[j])
      <4>1. Written(P, P, mem[j], mem[j])
        BY <3>3 DEF Written
      <4> QED
        BY <4>1, BackToWritten
    <3> QED
      BY <2>6, <3>1, <3>2, <3>3, <3>4 DEF P
  <2>10. Effects
    BY <1>1, <2>7 DEF Effects, ChangesItem
  <2>11. Keeps
    BY <1>3, <2>7, <2>8, <2>9 DEF Keeps
  <2> QED
    BY <1>2, <2>4, <2>10, <2>11
<1> QED
  BY <1>4, <1>5

\* What is undone is the last update of its item that is still on the chain of
\* a running transaction.
LEMMA UndoneIsLast ==
    ASSUME Inv, SaveInv, UndoInv, UndoneOffChain, Undoing, ~UndoneEnough, log[work.next].type = "UPDATE",
           NEW i
    PROVE  LET s == work.slot
               n == work.next
               P == Own(log, End, trans[s].last, i) IN
           /\ P = Own(log, End, n, i)
           /\ Own(log, End, log[n].prev, i) = P \ (IF log[n].item = i THEN {n} ELSE {})
           /\ log[n].item = i => n \in P /\ \A m \in P : m <= n
           /\ log[n].item = i => OnChains(log, End, {trans[u].last : u \in Slot \ {s}}, i) = {}
<1> DEFINE s == work.slot
           n == work.next
           p == log[n].prev
           C == ChainIn(log, End, trans[s].last)
<1>1. /\ s \in Slot /\ work.op \in {"partial", "abort"}
      /\ n \in 1 .. trans[s].last /\ n \in 1 .. End /\ trans[s].last \in 1 .. End
      /\ RunsAt(log, n, trans[s].id) /\ p \in 0 .. n - 1
  BY Undone
<1>2. IsLog(log, End) /\ End \in Nat
  BY Sizes DEF Inv, LogInv
<1>3. n \in C
  BY <1>1 DEF UndoInv
<1>4. ChainIn(log, End, n) \subseteq C
  BY <1>1, <1>2, <1>3, ChainTrans
<1>5. ChainIn(log, End, n) = {n} \cup ChainIn(log, End, p)
  BY <1>1, <1>2, LogFacts DEF RunsAt
<1>6. ChainIn(log, End, p) \subseteq 1 .. p /\ ChainIn(log, End, n) \subseteq 1 .. n
  BY <1>1, <1>2, ChainInside
<1>7. \A m \in C : log[m].type = "UPDATE" => m \in ChainIn(log, End, n)
  BY <1>1 DEF UndoneOffChain
<1>8. Own(log, End, trans[s].last, i) = Own(log, End, n, i)
  BY <1>4, <1>7 DEF Own
<1>9. n \notin ChainIn(log, End, p)
  BY <1>1, <1>6
<1>10. Own(log, End, p, i) = Own(log, End, n, i) \ (IF log[n].item = i THEN {n} ELSE {})
  BY <1>5, <1>9 DEF Own
<1>11. ASSUME log[n].item = i PROVE n \in Own(log, End, n, i) /\ \A m \in Own(log, End, n, i) : m <= n
  <2>1. \A m \in ChainIn(log, End, n) : m <= n
    BY <1>1, <1>6
  <2> QED
    BY <1>5, <1>11, <2>1 DEF Own
<1>12. ASSUME log[n].item = i
       PROVE  OnChains(log, End, {trans[u].last : u \in Slot \ {s}}, i) = {}
  <2>1. ASSUME NEW u \in Slot \ {s}, NEW y \in ChainIn(log, End, trans[u].last), log[y].type = "UPDATE"
        PROVE  log[y].item # i
    <3>1. ~Ending(work, s) /\ ~Ending(work, u)
      BY <1>1 DEF Ending
    <3>2. Disjoint(log, End, trans[s].last, trans[u].last)
      BY <1>1, <3>1, RunningApart
    <3> QED
      BY <1>3, <1>12, <2>1, <3>2 DEF Disjoint
  <2> QED
    BY <2>1 DEF OnChains
<1> QED
  BY <1>8, <1>10, <1>11, <1>12

LEMMA UndoStepEffects ==
    ASSUME Onward, SaveInv, UndoInv, UndoneOffChain, UndoStep
    PROVE  Effects /\ Keeps /\ End' <= End + 1
<1> DEFINE s == work.slot
           n == work.next
           r == Compensation(s, n)
           t == Logged(s, <<r>>)
<1>1. Undoing /\ ~UndoneEnough
  BY DEF UndoStep
<1>2. /\ s \in Slot /\ work.op \in {"partial", "abort"}
      /\ n \in 1 .. trans[s].last /\ n \in 1 .. End /\ trans[s].last \in 1 .. End
      /\ LinkOk(log, log[n], n) /\ RunsAt(log, n, trans[s].id)
      /\ log[n].prev \in 0 .. n - 1
  BY <1>1, Undone DEF Onward
<1>3. /\ work' = [work EXCEPT !.next = log[n].prev]
      /\ log[n].type = "UPDATE" => /\ WriteLog(<<r>>) /\ trans' = [trans EXCEPT ![s] = t]
                                   /\ mem' = [mem EXCEPT ![log[n].item] = log[n].before]
      /\ log[n].type # "UPDATE" => UNCHANGED <<log, trans, mem>>
  BY DEF UndoStep
<1>4. work'.op = work.op /\ work.op # "commit" /\ Committing' = {}
  BY <1>2, <1>3 DEF Onward, Inv, WorkInv, Committing
<1>5. End \in Nat /\ End' \in Nat /\ IsLog(log, End)
  BY OnwardFacts
<1>6. CASE log[n].type # "UPDATE"
  <2>1. UNCHANGED <<log, trans, mem>>
    BY <1>3, <1>6
  <2>2. End' = End /\ \A k \in End + 1 .. End' : ~OfTrans(log'[k])
    BY <1>5, <2>1, GrowsSame DEF Onward, Inv
  <2>3. End' <= End + 1
    BY <1>5, <2>2
  <2> QED
    BY <1>4, <2>1, <2>2, <2>3, KeepsQuietly
<1>7. CASE log[n].type = "UPDATE"
  <2>1. /\ RecordOk(log, r, End + 1) /\ OfTrans(r) /\ r.type = "COMPENSATION"
        /\ r.trans = trans[s].id /\ r.prev = log[n].prev /\ r.undone = n
    BY <1>1, <1>7, CompensationOk DEF Onward
  <2>2. trans \in [Slot -> Trans] /\ mem \in [Items -> 0 .. End] /\ log[n].item \in Items
    BY <1>2, <1>5, <1>7, UpdateFields DEF Onward, Inv, SlotInv, DiskInv
  <2>3. WriteLog(<<r>>) /\ trans' = [trans EXCEPT ![s] = t]
    BY <1>3, <1>7
  <2> HIDE DEF r
  <2>4. IsLog(log', End') /\ End' = End + 1 /\ Agree(log, log', End) /\ log'[End + 1] = r
    BY <1>5, <2>1, <2>3, WriteOne
  <2>5. t.last = End'
    <3>1. End' = End + Len(<<r>>)
      BY <2>4, OneIsOne
    <3>2. End' \in LSN /\ End + 1 \in LSN
      BY <1>5, <2>4, LogFacts DEF LSN
    <3>3. t.id = trans[s].id /\ t.last = End' /\ t.save = trans[s].save
          /\ t.first = IF trans[s].first = 0 THEN End + 1 ELSE trans[s].first
      BY <1>2, <2>2, <3>1, <3>2, LoggedFields
    <3> QED
      BY <3>3
  <2> HIDE DEF t
  <2>6. trans'[s].last = End' /\ \A u \in Slot \ {s} : trans'[u].last = trans[u].last
    BY <1>2, <2>2, <2>3, <2>5
  <2>7. \A k \in 1 .. End : log'[k] = log[k]
    BY GrowsFacts DEF Onward
  <2>8. /\ mem'[log[n].item] = log[n].before
        /\ \A j \in Items : j # log[n].item => mem'[j] = mem[j]
    BY <1>3, <1>7, <2>2
  <2>9. \A k \in End + 1 .. End' : k = End' /\ log'[k] = r
    BY <1>5, <2>4
  <2>10. Effects
    <3> SUFFICES ASSUME NEW j \in Items
                 PROVE  \/ mem'[j] = mem[j] /\ \A k \in End + 1 .. End' : ~ChangesItem(log', k, j)
                        \/ End < End' /\ ChangesItem(log', End', j) /\ mem'[j] = ValueIn(log', End')
      BY DEF Effects
    <3>1. log'[n] = log[n] /\ End < End' /\ log'[End'] = r
      BY <1>2, <1>5, <2>4, <2>7
    <3>2. CASE j = log[n].item
      BY <2>1, <2>8, <3>1, <3>2 DEF ChangesItem, ValueIn
    <3>3. CASE j # log[n].item
      <4>1. \A k \in End + 1 .. End' : ~ChangesItem(log', k, j)
        BY <2>1, <2>9, <3>1, <3>3 DEF ChangesItem
      <4> QED
        BY <2>8, <3>3, <4>1
    <3> QED
      BY <3>2, <3>3
  <2>11. ASSUME NEW j \in Items PROVE LeftIn(log', End', trans', mem', Slot, j) = Left(Slot, j)
    <3> DEFINE A == Own(log, End, trans[s].last, j)
               B == Own(log', End', trans'[s].last, j)
               one == IF log[n].item = j THEN {n} ELSE {}
    <3>1. PICK O \in SUBSET (1 .. End) :
             /\ O = OnChains(log, End, {trans[u].last : u \in Slot \ {s}}, j)
             /\ A \subseteq 1 .. End
             /\ Left(Slot, j) = BackTo(log, A \cup O, mem[j])
             /\ LeftIn(log', End', trans', mem', Slot, j) = BackTo(log', B \cup O, mem'[j])
      BY <1>2, <2>6, LeftWritten
    <3>2. /\ Own(log, End, log[n].prev, j) = A \ one
          /\ log[n].item = j => n \in A /\ \A m \in A : m <= n
          /\ log[n].item = j => OnChains(log, End, {trans[u].last : u \in Slot \ {s}}, j) = {}
      BY <1>1, <1>7, UndoneIsLast DEF Onward
    <3>3. B = Own(log, End, log[n].prev, j)
      <4>1. log'[End'] = r /\ log[n].prev \in 0 .. End /\ r.type # "UPDATE"
        BY <1>2, <1>5, <2>1, <2>4
      <4> QED
        BY <2>1, <2>4, <2>6, <4>1, OwnGrown
    <3> HIDE DEF A, B
    <3>4. Written(A \cup O, B \cup O, mem[j], mem'[j])
      <4>1. A \cup O \subseteq 1 .. End
        BY <3>1
      <4>2. CASE log[n].item = j
        <5>1. B \cup O = (A \cup O) \ {n} /\ n \in A \cup O /\ \A m \in A \cup O : m <= n
          BY <3>1, <3>2, <3>3, <4>2
        <5>2. mem'[j] = log[n].before
          BY <2>8, <4>2
        <5> QED
          BY <4>1, <5>1, <5>2 DEF Written
      <4>3. CASE log[n].item # j
        <5>1. B \cup O = A \cup O
          BY <3>2, <3>3, <4>3
        <5> QED
          BY <2>8, <4>1, <4>3, <5>1 DEF Written
      <4> QED
        BY <4>2, <4>3
    <3>5. BackTo(log', B \cup O, mem'[j]) = BackTo(log, A \cup O, mem[j])
      BY <3>4, BackToWritten
    <3> QED
      BY <3>1, <3>5
  <2>12. Keeps
    BY <1>4, <2>11 DEF Keeps
  <2> QED
    BY <1>5, <2>4, <2>10, <2>12
<1> QED
  BY <1>6, <1>7

\* A commit is answered when its slot is given back.
Answers == EndCommit \/ CheckpointAtCommit

LEMMA TransEffects ==
    ASSUME Onward, SaveInv, UndoInv, UndoneOffChain, TransNext
    PROVE  /\ Effects /\ BeginsFirst /\ End' <= End + 2
           /\ EndCommit => Settles
           /\ ~EndCommit => Keeps
<1>1. End \in Nat /\ End' \in Nat
  BY OnwardFacts
<1>2. ASSUME End' <= End + 1 PROVE BeginsFirst /\ End' <= End + 2
  BY <1>1, <1>2 DEF BeginsFirst
<1>3. CASE EndCommit
  BY <1>1, <1>2, <1>3, EndCommitEffects
<1>4. CASE ~EndCommit
  <2>1. CASE Begin
    BY <1>1, <1>2, <1>4, <2>1, BeginEffects
  <2>2. CASE UndoStep
    BY <1>2, <1>4, <2>2, UndoStepEffects
  <2>3. CASE EndPartialRollback \/ \E s \in Slot : PartialRollback(s) \/ Abort(s)
    BY <1>1, <1>2, <1>4, <2>3, RollbackEffects
  <2>4. CASE EndAbort
    BY <1>2, <1>4, <2>4, EndAbortEffects
  <2>5. CASE \E s \in Slot : Commit(s)
    BY <1>2, <1>4, <2>5, CommitEffects
  <2>6. CASE \E s \in Slot : \E i \in Items, begins \in BOOLEAN : DoUpdate(s, i, begins)
    BY <1>4, <2>6, DoUpdateEffects
  <2> QED
    BY <1>4, <2>1, <2>2, <2>3, <2>4, <2>5, <2>6 DEF TransNext
<1> QED
  BY <1>3, <1>4

LEMMA TransPages ==
    ASSUME TransNext
    PROVE  stage = "none" /\ stage' = "none" /\ UNCHANGED <<db, anchorLSN, anchor>>
<1>1. CASE Begin
  BY <1>1, Zenon DEF Begin, Free, logs, pages
<1>2. CASE UndoStep \/ EndPartialRollback \/ EndAbort \/ EndCommit
  BY <1>2 DEF UndoStep, EndPartialRollback, EndAbort, EndCommit, Undoing, logs, pages
<1>3. CASE \E s \in Slot : PartialRollback(s) \/ Abort(s) \/ Commit(s)
  BY <1>3 DEF PartialRollback, Abort, Commit, Free, logs, pages
<1>4. CASE \E s \in Slot : \E i \in Items, begins \in BOOLEAN : DoUpdate(s, i, begins)
  BY <1>4 DEF DoUpdate, Free
<1> QED
  BY <1>1, <1>2, <1>3, <1>4 DEF TransNext

LEMMA TransDurable ==
    ASSUME Inv, SaveInv, UndoInv, UndoneOffChain, Inv', SaveInv', Faults = {},
           NEW b \in Nat, LosersFrom(b), DurableFrom(b), TransNext
    PROVE  /\ DurableFrom(b)'
           /\ EndCommit => Settles
           /\ ~EndCommit => Keeps
<1>1. Grows
  BY BeginWrites, UndoStepWrites, RollbackWrites, EndAbortWrites, EndCommitWrites, CommitWrites,
     DoUpdateWrites DEF TransNext
<1>2. Onward /\ LosersFrom(b)'
  BY <1>1, TransOnward, TransLosers
<1>3. /\ Effects /\ BeginsFirst /\ End' <= End + 2
      /\ EndCommit => Settles
      /\ ~EndCommit => Keeps
  BY <1>2, TransEffects
<1>4. stage = "none" /\ stage' = "none" /\ UNCHANGED <<db, anchorLSN, anchor>>
  BY TransPages
<1>5. ImagesKept
  BY <1>4 DEF ImagesKept
<1>6. PromisesKept
  BY <1>2, <1>3, StorePromised
<1>7. OutcomesRight(b)' /\ RedoRight(b)'
  BY <1>2, <1>3, <1>5, <1>6, CarriedOutcomes
<1>8. PagesRight(b)'
  <2>1. Ahead(b)' = {}
    BY <1>4 DEF Ahead
  <2> QED
    BY <1>4, <2>1 DEF DurableFrom, PagesRight
<1> QED
  BY <1>3, <1>7, <1>8 DEF DurableFrom

\* Checkpoints and buffer replacement, before the log anchor is written.
LEMMA CheckpointImages ==
    ASSUME Onward, NEW b, PagesRight(b), CheckpointNext, ~CheckpointAnchor
    PROVE  ImagesKept /\ PagesRight(b)' /\ End' <= End + 1
<1>1. /\ anchor' = anchor /\ End \in Nat /\ End' \in Nat
      /\ UNCHANGED mem /\ Synced' = Synced
      /\ db \in [Items -> SUBSET (0 .. stable)]
      /\ anchorLSN \subseteq 1 .. stable /\ anchorLSN # {} /\ stable \in Nat /\ stable <= End
  <2>1. UNCHANGED mem
    BY CheckpointWrites DEF Onward
  <2>2. stable \in 2 .. End
    BY Sizes DEF Onward, Inv
  <2> QED
    BY <2>1, <2>2, OnwardFacts DEF Onward, Synced, Inv, DiskInv
<1>2. CASE CheckpointAtCommit \/ Checkpoint
  <2>1. /\ stage = "none" /\ UNCHANGED <<db, anchorLSN>> /\ stage' \in {"pages", "delete"}
        /\ StartCheckpoint \/ SkipCheckpoint
    BY <1>2 DEF CheckpointAtCommit, Checkpoint, pages, StartCheckpoint, SkipCheckpoint
  <2>2. Ahead(b)' = {}
    BY <2>1 DEF Ahead
  <2>3. End' <= End + 1 /\ (stage' = "pages" => End' = End + 1)
    <3>1. CASE StartCheckpoint
      BY <1>1, <3>1, BeginChkptOk, WriteOne DEF LogInv, StartCheckpoint, Onward, Inv
    <3>2. CASE SkipCheckpoint
      BY <1>1, <3>2, GrowsSame DEF SkipCheckpoint, Onward, Inv
    <3> QED
      BY <2>1, <3>1, <3>2
  <2>4. stage' = "pages" => End' \notin anchorLSN'
    BY <1>1, <2>1, <2>3
  <2> QED
    BY <1>1, <2>1, <2>2, <2>3, <2>4 DEF PagesRight, ImagesKept
<1>3. CASE CheckpointPages \/ CheckpointFails
  <2>1. /\ stage \in {"pages", "page0", "end"} /\ stage' \in {"page0", "delete"}
        /\ stage' = "page0" => stage = "pages"
        /\ db' \in {WritePages(dirty), db} /\ UNCHANGED <<anchorLSN, log, stable>>
    BY <1>3 DEF CheckpointPages, CheckpointFails, logs
  <2>2. Ahead(b)' = {}
    BY <2>1 DEF Ahead
  <2>3. End' = End /\ stable' = End'
    BY <2>1, GrowsSame DEF Onward, Inv, StageInv
  <2>4. ImagesKept
    BY <1>1, <2>1, <2>3 DEF WritePages, ImagesKept
  <2> QED
    BY <1>1, <2>1, <2>2, <2>3, <2>4 DEF PagesRight
<1>4. CASE CheckpointPage0
  <2>1. /\ stage = "page0" /\ UNCHANGED <<log, stable>> /\ stage' = "end"
        /\ \/ db' = Synced /\ anchorLSN' = anchorLSN \cup {End}
           \/ UNCHANGED <<db, anchorLSN>>
    BY <1>4 DEF CheckpointPage0, logs
  <2>2. End \notin anchorLSN
    BY <2>1 DEF PagesRight
  <2>3. End' = End /\ stable' = End'
    BY <2>1, GrowsSame DEF Onward, Inv, StageInv
  <2>4. ImagesKept
    BY <1>1, <2>1, <2>3 DEF Synced, ImagesKept
  <2>5. CASE db' = Synced /\ anchorLSN' = anchorLSN \cup {End}
    BY <1>1, <2>1, <2>3, <2>4, <2>5 DEF PagesRight
  <2>6. CASE UNCHANGED <<db, anchorLSN>>
    <3>1. Ahead(b)' = {}
      BY <2>1, <2>2, <2>3, <2>6 DEF Ahead
    <3> QED
      BY <1>1, <2>1, <2>3, <2>4, <2>6, <3>1 DEF PagesRight
  <2> QED
    BY <2>1, <2>5, <2>6
<1>5. CASE CheckpointEnd
  <2>1. /\ stage = "end" /\ stage' = "anchor" /\ db' = Synced /\ anchorLSN' = {Max(anchorLSN)}
        /\ stable' = End + 1 /\ WriteLog(<<EndChkpt(Active)>>)
    BY <1>5 DEF CheckpointEnd
  <2>2. End' = End + 1
    <3>1. RecordOk(log, EndChkpt(Active), End + 1)
      BY <2>1, EndChkptOk DEF Onward, Inv, StageInv
    <3> QED
      BY <2>1, <3>1, WriteOne DEF Onward, Inv, LogInv
  <2>3. ImagesKept
    BY <1>1, <2>1, <2>2 DEF Synced, ImagesKept
  <2> QED
    BY <1>1, <2>1, <2>2, <2>3 DEF PagesRight
<1>6. CASE DeleteLogFiles
  <2>1. /\ stage = "delete" /\ UNCHANGED <<db, anchorLSN, log>> /\ stage' = "none"
    BY <1>6 DEF DeleteLogFiles, pages
  <2>2. Ahead(b)' = {}
    BY <2>1 DEF Ahead
  <2>3. End' = End
    BY <2>1, GrowsSame DEF Onward, Inv
  <2> QED
    BY <1>1, <2>1, <2>2, <2>3 DEF PagesRight, ImagesKept
<1>7. CASE \E i \in Items : ReplaceBuffer(i)
  <2>1. PICK i \in Items : ReplaceBuffer(i)
    BY <1>7
  <2>2. /\ stage = "none" /\ stage' = "none" /\ UNCHANGED <<anchorLSN, log>> /\ stable' = End
        /\ db' = WritePages({i})
    BY <2>1 DEF ReplaceBuffer
  <2>3. Ahead(b)' = {}
    BY <2>2 DEF Ahead
  <2>4. End' = End
    BY <2>2, GrowsSame DEF Onward, Inv
  <2>5. ImagesKept
    BY <1>1, <2>2, <2>4 DEF WritePages, ImagesKept
  <2> QED
    BY <1>1, <2>2, <2>3, <2>4, <2>5 DEF PagesRight
<1> QED
  BY <1>2, <1>3, <1>4, <1>5, <1>6, <1>7 DEF CheckpointNext

LEMMA CheckpointDurable ==
    ASSUME Inv, Inv', Faults = {}, NEW b \in Nat, LosersFrom(b), DurableFrom(b),
           CheckpointNext, ~CheckpointAnchor
    PROVE  /\ DurableFrom(b)'
           /\ CheckpointAtCommit => Settles
           /\ ~CheckpointAtCommit => Keeps
<1>1. Onward /\ LosersFrom(b)'
  BY CheckpointOnward, CheckpointLosers
<1>2. /\ Effects
      /\ CheckpointAtCommit => Settles
      /\ ~CheckpointAtCommit => Keeps
  BY <1>1, CheckpointEffects
<1>3. ImagesKept /\ PagesRight(b)' /\ End' <= End + 1
  BY <1>1, CheckpointImages DEF DurableFrom
<1>4. PromisesKept
  BY <1>1, <1>2, StorePromised
<1>5. BeginsFirst /\ End' <= End + 2
  <2>1. End \in Nat /\ End' \in Nat
    BY <1>1, OnwardFacts
  <2> QED
    BY <1>3, <2>1 DEF BeginsFirst
<1>6. OutcomesRight(b)' /\ RedoRight(b)'
  BY <1>1, <1>2, <1>3, <1>4, <1>5, CarriedOutcomes
<1> QED
  BY <1>2, <1>3, <1>6 DEF DurableFrom

-----------------------------------------------------------------------------
(* The log anchor, the start after a crash, and the new database *)

\* A checkpoint begins and ends with records that change nothing.
LEMMA RedoNothing ==
    ASSUME NEW L, NEW c, c.begin \in Nat, NEW b \in Nat, NEW k,
           \A n \in c.begin .. k : ~OfTrans(L[n]), NEW i, NEW v
    PROVE  RedoTo(L, From(c, b), k, i, v) = v
<1>1. From(c, b) \in Nat /\ c.begin <= From(c, b)
  BY FromIs
<1>2. \A n \in From(c, b) .. k : ~ChangesItem(L, n, i)
  <2> TAKE n \in From(c, b) .. k
  <2>1. n \in Int /\ From(c, b) <= n /\ n <= k
    BY <1>1
  <2>2. n \in c.begin .. k
    BY <1>1, <2>1
  <2> QED
    BY <2>2, ChangesOfTrans
<1>3. ChangesIn(L, From(c, b), k, i) = {}
  BY <1>2 DEF ChangesIn
<1> QED
  BY <1>3 DEF RedoTo

LEMMA AnchorDurable ==
    ASSUME Inv, UndoInv, Inv', Faults = {}, NEW b, DurableFrom(b), LosersFrom(0)', CheckpointAnchor
    PROVE  DurableFrom(0)'
<1>1. /\ stage = "anchor" /\ stage' = "delete" /\ anchor' = [begin |-> End - 1, end |-> End]
      /\ UNCHANGED <<mem, db, anchorLSN, log, stable, trans, work, up, unsettled>>
  BY DEF CheckpointAnchor, life
<1>2. /\ End' = End /\ End \in Nat /\ End >= 2 /\ up /\ work.op # "commit" /\ stable = End
      /\ log[End].type = "END_CHKPT" /\ log[End - 1].type = "BEGIN_CHKPT" /\ unsettled < End
      /\ anchorLSN \subseteq 1 .. stable
  BY <1>1, GrowsSame, Sizes DEF Inv, LogInv, StageInv, UndoInv, DiskInv
<1>3. db = Synced
  BY <1>1 DEF DurableFrom, PagesRight
<1>4. \A i \in Items : \A v \in db'[i] : v = mem'[i]
  BY <1>1, <1>3 DEF Synced
<1>5. anchor'.begin = End - 1 /\ anchor'.end = End /\ anchor'.begin \in Nat
  BY <1>1, <1>2
<1>6. \A n \in anchor'.begin .. End' : ~OfTrans(log'[n])
  <2>1. \A n \in End - 1 .. End : n = End - 1 \/ n = End
    BY <1>2
  <2> QED
    BY <1>1, <1>2, <1>5, <2>1 DEF OfTrans
<1>7. RedoRight(0)'
  <2>1. \A i, v : RedoTo(log', From(anchor', 0), End', i, v) = v
    BY <1>5, <1>6, RedoNothing
  <2> QED
    BY <1>4, <2>1 DEF RedoRight
<1>8. OutcomesRight(0)'
  <2>1. \A k \in stable' .. End' : k = End'
    BY <1>1, <1>2
  <2>2. up' /\ unsettled' < anchor'.end
    BY <1>1, <1>2, <1>5
  <2>3. \A i \in Items : \A v \in db'[i] :
           Outcome(log', End', anchor', 0, End', i, v) = Promised(End, i)'
    BY <1>7, <2>2, SettledOutcomeNext
  <2> QED
    BY <2>1, <2>3 DEF OutcomesRight
<1>9. PagesRight(0)'
  <2>1. \E y \in anchorLSN' : y <= anchor'.end
    <3>1. PICK y \in anchorLSN : TRUE
      BY DEF Inv, DiskInv
    <3>2. y \in 1 .. End
      BY <1>2
    <3>3. y <= anchor'.end
      BY <1>2, <1>5, <3>2
    <3> QED
      BY <1>1, <3>3
  <2>2. Ahead(0)' = {}
    BY <1>1 DEF Ahead
  <2> QED
    BY <1>1, <2>1, <2>2 DEF PagesRight
<1> QED
  BY <1>7, <1>8, <1>9 DEF DurableFrom

LEMMA OpenDurable ==
    ASSUME Inv, NEW b \in Nat, LosersFrom(b), DurableFrom(b), Open
    PROVE  DurableFrom(b)'
<1> DEFINE e == anchor.end
<1>1. /\ ~up /\ up' /\ unsettled' = IF Losers \ {0} # {} THEN End ELSE 0
      /\ UNCHANGED <<mem, db, anchorLSN, log, stable, anchor, trans, stage>>
      /\ work' \in {Idle, [Idle EXCEPT !.op = "restart"]}
  BY DEF Open, logs
<1>2. /\ End' = End /\ Anchored(log, End, e) /\ End \in Nat /\ e \in 1 .. End /\ stable = End
      /\ stage = "none" /\ work = Idle
  BY <1>1, GrowsSame, LogAnchored, Sizes DEF Inv, LogInv, StageInv
<1>3. Quiet(log, e, unsettled, End)
  BY <1>1 DEF LosersFrom
<1>4. Committing = {} /\ Committing' = {}
  BY <1>1, <1>2 DEF Committing, Idle
<1>5. \A k, i : Promised(k, i)' = Promised(k, i)
  BY <1>1, <1>2, <1>4 DEF Promised, Left
<1>6. OutcomesRight(b)'
  <2>1. \A k \in stable' .. End' : k = End
    BY <1>1, <1>2
  <2>2. \A i \in Items : \A v \in db[i] : Outcome(log, End, anchor, b, End, i, v) = Promised(End, i)
    <3>1. End \in stable .. End
      BY <1>2
    <3> QED
      BY <1>3, <3>1 DEF DurableFrom, OutcomesRight
  <2> QED
    BY <1>1, <1>2, <1>5, <2>1, <2>2 DEF OutcomesRight
<1>7. ASSUME unsettled' < e, NEW i
      PROVE  OnChains(log, End, Tops(log, End, e, b, End), i) = {}
  <2>1. Losers \ {0} = {}
    BY <1>1, <1>2, <1>7
  <2>2. Tops(log, End, e, b, End) \ {0} = {}
    BY <1>1, <2>1, LosersAre DEF Tops
  <2>3. OnChains(log, End, Tops(log, End, e, b, End), i) = OnChains(log, End, {}, i)
    BY <1>2, <2>2, OnNoChain DEF Anchored
  <2> QED
    BY <2>3 DEF OnChains
<1>8. RedoRight(b)'
  <2> SUFFICES ASSUME NEW i \in Items, NEW v \in db[i],
                      \/ unsettled' < e
                      \/ OnChains(log, End, Tops(log, End, e, b, End), i) = {}
               PROVE  RedoTo(log, From(anchor, b), End, i, v) = mem[i]
    BY <1>1, <1>2 DEF RedoRight
  <2>1. OnChains(log, End, Tops(log, End, e, b, End), i) = {}
    BY <1>7
  <2> QED
    BY <1>3, <2>1 DEF DurableFrom, RedoRight
<1>9. PagesRight(b)'
  <2>1. Ahead(b)' = {}
    BY <1>1, <1>2 DEF Ahead
  <2> QED
    BY <1>1, <1>2, <2>1 DEF DurableFrom, PagesRight
<1> QED
  BY <1>6, <1>8, <1>9 DEF DurableFrom

LEMMA DurableStarts ==
    ASSUME Faults = {}, Init
    PROVE  DurableFrom(0) /\ BegunAfter /\ UndoneOffChain
<1>1. Inv /\ LosersFrom(0)
  BY Starts, LosersStart
<1>2. /\ anchorLSN = {1} /\ up /\ unsettled = 0 /\ anchor = [begin |-> 1, end |-> 2] /\ stable = 2
      /\ stage = "none" /\ trans = [s \in Slot |-> NoTrans] /\ work = Idle
      /\ log = <<BeginChkpt, EndChkpt([s \in Slot |-> NoEntry])>>
      /\ mem = [i \in Items |-> 0] /\ db = [i \in Items |-> {0}]
  BY DEF Init
<1>3. log[1].type = "BEGIN_CHKPT" /\ log[2].type = "END_CHKPT" /\ Len(log) = 2
  BY <1>2 DEF BeginChkpt, EndChkpt
<1>4. End = 2
  BY <1>3, Zenon DEF End
<1>5. \A n \in 1 .. 2 : ~OfTrans(log[n])
  <2>1. \A n \in 1 .. 2 : n = 1 \/ n = 2
    OBVIOUS
  <2> QED
    BY <1>3, <2>1 DEF OfTrans
<1>6. anchor.begin = 1 /\ anchor.end = 2 /\ 1 \in Nat /\ 0 \in Nat /\ unsettled < anchor.end
  BY <1>2
<1>7. RedoRight(0)
  <2>1. \A i, v : RedoTo(log, From(anchor, 0), End, i, v) = v
    BY <1>4, <1>5, <1>6, RedoNothing
  <2>2. \A i \in Items : \A v \in db[i] : v = mem[i]
    BY <1>2
  <2> QED
    BY <2>1, <2>2 DEF RedoRight
<1>8. OutcomesRight(0)
  <2>1. \A k \in stable .. End : k = End
    BY <1>2, <1>4
  <2>2. \A i \in Items : \A v \in db[i] : Outcome(log, End, anchor, 0, End, i, v) = Promised(End, i)
    BY <1>1, <1>2, <1>6, <1>7, SettledOutcome
  <2> QED
    BY <2>1, <2>2 DEF OutcomesRight
<1>9. PagesRight(0)
  BY <1>2, <1>6 DEF PagesRight, Ahead
<1>10. BegunAfter /\ UndoneOffChain
  BY <1>2, <1>6 DEF BegunAfter, UndoneOffChain, Idle
<1> QED
  BY <1>7, <1>8, <1>9, <1>10 DEF DurableFrom

LEMMA SameDurable ==
    ASSUME Inv, UNCHANGED vars
    PROVE  /\ \A b : DurableFrom(b) => DurableFrom(b)'
           /\ BegunAfter => BegunAfter'
           /\ UndoneOffChain => UndoneOffChain'
           /\ End' = End /\ Committing' = Committing
<1>1. UNCHANGED <<mem, db, anchorLSN, log, stable, anchor, trans, work, stage, up, unsettled>>
  BY DEF vars, pages, logs, life
<1>2. End' = End /\ Committing' = Committing /\ Synced' = Synced /\ \A b : Ahead(b)' = Ahead(b)
  BY <1>1, GrowsSame DEF Inv, Committing, Synced, Ahead
<1>3. \A k, i : Promised(k, i)' = Promised(k, i)
  BY <1>1, <1>2 DEF Promised, Left
<1>4. ASSUME NEW b, DurableFrom(b) PROVE DurableFrom(b)'
  <2>1. OutcomesRight(b)'
    BY <1>1, <1>2, <1>3, <1>4 DEF DurableFrom, OutcomesRight
  <2>2. RedoRight(b)'
    BY <1>1, <1>2, <1>4 DEF DurableFrom, RedoRight
  <2>3. PagesRight(b)'
    BY <1>1, <1>2, <1>4 DEF DurableFrom, PagesRight
  <2> QED
    BY <2>1, <2>2, <2>3 DEF DurableFrom
<1>5. BegunAfter => BegunAfter'
  BY <1>1, <1>2 DEF BegunAfter
<1>6. UndoneOffChain => UndoneOffChain'
  BY <1>1, <1>2 DEF UndoneOffChain
<1> QED
  BY <1>2, <1>4, <1>5, <1>6

-----------------------------------------------------------------------------
(* Who has begun, and what has been undone *)

LEMMA BegunKept ==
    ASSUME Inv, Inv', UndoInv, BegunAfter, Next, "clean" \notin Faults
    PROVE  BegunAfter'
<1>1. /\ End \in Nat /\ unsettled \in Nat /\ unsettled <= End /\ trans' \in [Slot -> Trans]
      /\ stable \in Nat /\ anchor.end \in Nat
  BY Sizes DEF Inv, LogInv, SlotInv
<1>2. ASSUME Onward, \A s \in Slot : trans'[s].first \in {0, trans[s].first, End + 1}
      PROVE  BegunAfter'
  <2> SUFFICES ASSUME unsettled >= anchor.end, NEW s \in Slot
               PROVE  trans'[s].first \in {0} \cup unsettled + 1 .. End'
    BY <1>2 DEF BegunAfter, Onward
  <2>1. trans[s].first \in {0} \cup unsettled + 1 .. End
    BY <1>2 DEF BegunAfter, Onward
  <2>2. trans'[s].first \in {0, trans[s].first, End + 1}
    BY <1>2
  <2>3. SlotOk(log', End', trans'[s], s, work') /\ End' \in Nat
    BY <1>2, OnwardFacts DEF Inv, SlotInv
  <2>4. trans'[s].first <= End'
    BY <2>3 DEF SlotOk
  <2> QED
    BY <1>1, <2>1, <2>2, <2>3, <2>4
<1>3. CASE TransNext
  <2>1. Grows
    BY <1>3, BeginWrites, UndoStepWrites, RollbackWrites, EndAbortWrites, EndCommitWrites, CommitWrites,
       DoUpdateWrites DEF TransNext
  <2> QED
    BY <1>2, <1>3, <2>1, TransOnward, TransFirsts
<1>4. CASE CheckpointNext /\ ~CheckpointAnchor
  BY <1>2, <1>4, CheckpointOnward, CheckpointRecords
<1>5. CASE CheckpointAnchor
  <2>1. stage = "anchor" /\ anchor' = [begin |-> End - 1, end |-> End] /\ unsettled' = unsettled
    BY <1>5 DEF CheckpointAnchor, life
  <2>2. unsettled < End
    BY <2>1 DEF UndoInv
  <2> QED
    BY <1>1, <2>1, <2>2 DEF BegunAfter
<1>6. CASE Crash
  BY <1>6 DEF Crash, BegunAfter
<1>7. CASE Open
  <2>1. ~up /\ UNCHANGED trans
    BY <1>7 DEF Open
  <2>2. \A s \in Slot : trans'[s].first = 0
    BY <2>1 DEF Inv, StageInv, SlotInv, SlotOk, Used, NoTrans
  <2> QED
    BY <2>2 DEF BegunAfter
<1> QED
  BY <1>3, <1>4, <1>5, <1>6, <1>7 DEF Next

\* What is undone next goes along the chain.
LEMMA UndoStepOffChain ==
    ASSUME Inv, Inv', Grows, UndoneOffChain, UndoStep
    PROVE  UndoneOffChain'
<1> DEFINE s == work.slot
           n == work.next
           p == log[n].prev
           l == trans[s].last
<1>1. Undoing /\ ~UndoneEnough
  BY DEF UndoStep
<1>2. /\ s \in Slot /\ work.op \in {"partial", "abort"} /\ n \in 1 .. l /\ n \in 1 .. End
      /\ RunsAt(log, n, trans[s].id) /\ p \in 0 .. n - 1 /\ l \in 1 .. End
  BY <1>1, Undone
<1>3. work'.next = p /\ work'.slot = s /\ IsLog(log, End) /\ End \in Nat
  BY <1>1, Sizes DEF UndoStep, Inv, WorkInv, LogInv
<1>4. ChainIn(log, End, n) = {n} \cup ChainIn(log, End, p)
  BY <1>2, <1>3, LogFacts DEF RunsAt
<1>5. /\ ChainIn(log', End', p) = ChainIn(log, End, p)
      /\ ChainIn(log', End', l) = ChainIn(log, End, l)
      /\ IsLog(log', End') /\ \A m \in 1 .. End : log'[m] = log[m]
  BY <1>2, <1>3, ChainGrown, GrowsFacts DEF Grows
<1>6. \A m \in ChainIn(log, End, l) : m \in 1 .. End /\ (log[m].type = "UPDATE" => m \in ChainIn(log, End, n))
  <2>1. \A m \in ChainIn(log, End, l) : m \in 1 .. End
    BY <1>2, <1>3, ChainInside
  <2> QED
    BY <1>2, <2>1 DEF UndoneOffChain
<1>7. CASE log[n].type # "UPDATE"
  <2>1. trans' = trans
    BY <1>7 DEF UndoStep
  <2>2. \A m \in ChainIn(log', End', l) : log'[m].type = "UPDATE" => m \in ChainIn(log', End', p)
    BY <1>4, <1>5, <1>6, <1>7
  <2> QED
    BY <1>3, <2>1, <2>2 DEF UndoneOffChain
<1>8. CASE log[n].type = "UPDATE"
  <2> DEFINE r == Compensation(s, n)
  <2>1. WriteLog(<<r>>) /\ trans' = [trans EXCEPT ![s] = Logged(s, <<r>>)]
    BY <1>8 DEF UndoStep
  <2>2. End' = End + 1 /\ log'[End'] = r /\ trans'[s].last = End' /\ r.prev = p /\ r.type = "COMPENSATION"
    <3>1. RecordOk(log, r, End + 1)
      BY <1>1, <1>8, CompensationOk
    <3>2. End' = End + 1 /\ log'[End + 1] = r
      BY <1>3, <2>1, <3>1, WriteOne
    <3>3. trans'[s].last = End + 1
      <4>1. trans \in [Slot -> Trans]
        BY DEF Inv, SlotInv
      <4> QED
        BY <1>2, <2>1, <4>1 DEF Logged, Trans
    <3> QED
      BY <3>2, <3>3 DEF Compensation
  <2>3. ChainIn(log', End', End') = {End'} \cup ChainIn(log', End', p)
    <3>1. End' \in 1 .. End' /\ OfTrans(log'[End'])
      BY <1>3, <2>2 DEF OfTrans
    <3> QED
      BY <1>5, <2>2, <3>1, LogFacts
  <2>4. \A m \in ChainIn(log', End', End') : log'[m].type = "UPDATE" => m \in ChainIn(log', End', p)
    BY <2>2, <2>3
  <2> QED
    BY <1>3, <2>2, <2>4 DEF UndoneOffChain
<1> QED
  BY <1>7, <1>8

LEMMA OffChainKept ==
    ASSUME Inv, Inv', UndoInv, UndoneOffChain, Next
    PROVE  UndoneOffChain'
<1>1. CASE Begin \/ \E s \in Slot : \E i \in Items, begins \in BOOLEAN : DoUpdate(s, i, begins)
  <2>1. work' = Idle
    <3>1. CASE Begin
      BY <3>1, Zenon DEF Begin, Free
    <3>2. CASE \E s \in Slot : \E i \in Items, begins \in BOOLEAN : DoUpdate(s, i, begins)
      BY <3>2, Zenon DEF DoUpdate, Free
    <3> QED
      BY <1>1, <3>1, <3>2
  <2> QED
    BY <2>1 DEF Idle, UndoneOffChain
<1>2. CASE EndPartialRollback \/ EndAbort \/ EndCommit \/ CheckpointAtCommit \/ Crash \/ Open
  BY <1>2 DEF EndPartialRollback, EndAbort, EndCommit, CheckpointAtCommit, Crash, Open, Idle, UndoneOffChain
<1>3. CASE UndoStep
  <2>1. Grows
    BY <1>3, UndoStepWrites
  <2> QED
    BY <1>3, <2>1, UndoStepOffChain
<1>4. CASE \E s \in Slot : Commit(s)
  BY <1>4 DEF Commit, UndoneOffChain
<1>5. CASE \E s \in Slot : PartialRollback(s) \/ Abort(s)
  <2>1. PICK s \in Slot : PartialRollback(s) \/ Abort(s)
    BY <1>5
  <2>2. UNCHANGED <<log, trans>> /\ work'.slot = s /\ work'.next = trans[s].last
    BY <2>1 DEF PartialRollback, Abort, Free, logs
  <2> QED
    BY <2>2 DEF UndoneOffChain
<1>6. CASE CheckpointNext /\ ~CheckpointAtCommit
  <2>1. Grows /\ UNCHANGED trans /\ (work' = work \/ work' = Idle)
    BY <1>6, CheckpointWrites
  <2>2. CASE work' = Idle
    BY <2>2 DEF Idle, UndoneOffChain
  <2>3. CASE work' = work /\ work.op \in {"partial", "abort"}
    <3> DEFINE l == trans[work.slot].last
    <3>1. l \in 0 .. End /\ work.next \in 0 .. End /\ IsLog(log, End)
      <4>1. work.slot \in Slot /\ work.next \in 0 .. l
        BY <2>3 DEF Inv, WorkInv, WorkOk
      <4>2. l \in 0 .. End /\ IsLog(log, End) /\ End \in Nat
        BY <4>1, AtLogged
      <4> QED
        BY <4>1, <4>2
    <3>2. /\ ChainIn(log', End', l) = ChainIn(log, End, l)
          /\ ChainIn(log', End', work.next) = ChainIn(log, End, work.next)
          /\ ChainIn(log, End, l) \subseteq 1 .. End
          /\ \A m \in 1 .. End : log'[m] = log[m]
      <4>1. ChainIn(log', End', l) = ChainIn(log, End, l)
        BY <2>1, <3>1, ChainGrown DEF Grows
      <4>2. ChainIn(log', End', work.next) = ChainIn(log, End, work.next)
        BY <2>1, <3>1, ChainGrown DEF Grows
      <4> QED
        BY <2>1, <3>1, <4>1, <4>2, ChainInside, GrowsFacts
    <3>3. \A m \in ChainIn(log, End, l) : log'[m].type = "UPDATE" => m \in ChainIn(log, End, work.next)
      BY <2>3, <3>2 DEF UndoneOffChain
    <3> QED
      BY <2>1, <2>3, <3>2, <3>3 DEF UndoneOffChain
  <2>4. CASE work' = work /\ work.op \notin {"partial", "abort"}
    BY <2>4 DEF UndoneOffChain
  <2> QED
    BY <2>1, <2>2, <2>3, <2>4
<1> QED
  BY <1>1, <1>2, <1>3, <1>4, <1>5, <1>6 DEF Next, TransNext

-----------------------------------------------------------------------------
(* Every step is one of DurableStore, or leaves the store alone *)

LEMMA DurableStep ==
    ASSUME Inv, SaveInv, DurableInv, LogKept', Inv', SaveInv', [Next]_vars, Faults = {}
    PROVE  DurableInv'
<1>1. PICK b \in Nat : LosersFrom(b) /\ FilesFrom(b) /\ DurableFrom(b)
  BY DEF DurableInv
<1>2. CASE UNCHANGED vars
  <2>1. LosersFrom(b)' /\ FilesFrom(b)' /\ DurableFrom(b)' /\ BegunAfter' /\ UndoneOffChain'
    BY <1>1, <1>2, SameLosers, SameFiles, SameDurable DEF DurableInv
  <2> QED
    BY <2>1, UndoKept DEF DurableInv
<1>3. CASE Next
  <2>1. UndoInv' /\ BegunAfter' /\ UndoneOffChain'
    BY <1>3, UndoKept, BegunKept, OffChainKept DEF DurableInv
  <2>2. CASE TransNext
    <3>1. LosersFrom(b)' /\ FilesFrom(b)' /\ DurableFrom(b)'
      BY <1>1, <2>2, TransLosers, TransFiles, TransDurable DEF DurableInv
    <3> QED
      BY <2>1, <3>1 DEF DurableInv
  <2>3. CASE CheckpointNext /\ ~CheckpointAnchor
    <3>1. LosersFrom(b)' /\ DurableFrom(b)'
      BY <1>1, <2>3, CheckpointLosers, CheckpointDurable
    <3>2. FilesFrom(b)'
      BY <1>1, <2>3, CheckpointFiles, DeleteFiles
    <3> QED
      BY <2>1, <3>1, <3>2 DEF DurableInv
  <2>4. CASE CheckpointAnchor
    <3>1. LosersFrom(0)' /\ FilesFrom(0)'
      BY <1>1, <2>4, AnchorLosers, AnchorFiles DEF DurableInv
    <3>2. DurableFrom(0)'
      BY <1>1, <2>4, <3>1, AnchorDurable DEF DurableInv
    <3> QED
      BY <2>1, <3>1, <3>2 DEF DurableInv
  <2>5. CASE Crash
    <3>1. PICK c \in Nat : LosersFrom(c)'
      BY <1>1, <2>5, CrashLosers
    <3>2. FilesFrom(c)'
      BY <1>1, <2>5, <3>1, CrashFiles
    <3>3. DurableFrom(c)'
      BY <1>1, <2>5, <3>1, CrashDurable DEF DurableInv
    <3> QED
      BY <2>1, <3>1, <3>2, <3>3 DEF DurableInv
  <2>6. CASE Open
    <3>1. LosersFrom(b)' /\ FilesFrom(b)' /\ DurableFrom(b)'
      BY <1>1, <2>6, OpenLosers, OpenFiles, OpenDurable
    <3> QED
      BY <2>1, <3>1 DEF DurableInv
  <2> QED
    BY <1>3, <2>2, <2>3, <2>4, <2>5, <2>6 DEF Next
<1> QED
  BY <1>2, <1>3

LEMMA FilesKeptNext == (Inv /\ SaveInv /\ FileInv => LogKept)'
<1>1. Inv /\ SaveInv /\ FileInv => LogKept
  BY FilesKept
<1> QED
  BY <1>1, PTL

\* The store and the store in doubt, as functions of what transactions left.
Store == BackOut(mem, LastOf(Slot))
Doubt == BackOut(mem, LastOf(Slot \ Committing))
StoresAre ==
    /\ Store = [i \in Items |-> Left(Slot, i)] /\ Doubt = [i \in Items |-> Left(Slot \ Committing, i)]
    /\ Store \in [Items -> LSN] /\ Doubt \in [Items -> LSN]

LEMMA StoresTyped == Inv /\ LogKept => StoresAre
<1> SUFFICES ASSUME Inv, LogKept PROVE StoresAre
  OBVIOUS
<1>1. Slot \ Committing \subseteq Slot /\ Slot \subseteq Slot
  OBVIOUS
<1>2. Store = [i \in Items |-> Left(Slot, i)] /\ Doubt = [i \in Items |-> Left(Slot \ Committing, i)]
  BY <1>1, StoreIs DEF Store, Doubt
<1>3. IsLog(log, End) /\ 0 .. End \subseteq LSN /\ mem \in [Items -> 0 .. End]
  BY Sizes DEF Inv, LogInv, DiskInv
<1>4. ASSUME NEW slots \in SUBSET Slot, NEW i \in Items
      PROVE  Left(slots, i) \in LSN
  <2>1. {trans[s].last : s \in slots} \subseteq 0 .. End /\ mem[i] \in 0 .. End
    BY <1>3, AtLogged
  <2>2. BackTo(log, OnChains(log, End, {trans[s].last : s \in slots}, i), mem[i]) \in 0 .. End
    BY <1>3, <2>1, BackToFirst
  <2> QED
    BY <1>3, <2>2 DEF Left, LeftIn
<1> QED
  BY <1>1, <1>2, <1>4 DEF StoresAre

LEMMA StoresTypedNext == (Inv /\ LogKept => StoresAre)'
BY StoresTyped, PTL

\* A step with which no commit begins or ends changes neither.
LEMMA KeepsStores ==
    ASSUME StoresAre, StoresAre', Keeps, work'.op # "commit"
    PROVE  Store' = Store /\ Doubt' = Doubt /\ Doubt = Store
<1>1. Committing = {} /\ Committing' = {}
  BY DEF Keeps, Committing
<1>2. Doubt = Store /\ Doubt' = Store'
  BY <1>1 DEF Doubt, Store
<1>3. \A i \in Items : Left(Slot, i)' = Left(Slot, i)
  BY DEF Keeps, Left
<1>4. Store' = Store
  BY <1>3 DEF StoresAre
<1> QED
  BY <1>2, <1>4

LEMMA SettlesStores ==
    ASSUME StoresAre, StoresAre', Settles
    PROVE  Store' = Doubt /\ Doubt' = Doubt
<1>1. Committing' = {}
  BY DEF Settles, Committing
<1>2. Doubt' = Store'
  BY <1>1 DEF Doubt, Store
<1>3. \A i \in Items : Left(Slot, i)' = Left(Slot \ Committing, i)
  BY DEF Settles, Left
<1> QED
  BY <1>2, <1>3 DEF StoresAre

LEMMA StoreStep ==
    ASSUME Inv, SaveInv, DurableInv, LogKept, Inv', SaveInv', LogKept', [Next]_vars, Faults = {}
    PROVE  [Abstract!Next]_<<Store, Doubt, up>>
<1> USE DEF Abstract!Next
<1>1. StoresAre /\ StoresAre'
  BY StoresTyped, StoresTypedNext
<1>2. PICK b \in Nat : LosersFrom(b) /\ DurableFrom(b)
  BY DEF DurableInv
<1>3. UndoInv /\ BegunAfter /\ UndoneOffChain
  BY DEF DurableInv
<1>4. ASSUME Settles, up, up'
      PROVE  Abstract!Settle
  BY <1>1, <1>4, SettlesStores DEF Abstract!Settle, Store, Doubt
<1>5. CASE TransNext
  <2>1. Grows
    BY <1>5, BeginWrites, UndoStepWrites, RollbackWrites, EndAbortWrites, EndCommitWrites, CommitWrites,
       DoUpdateWrites, <1>3 DEF TransNext
  <2>2. up /\ up'
    BY <1>5, <2>1, TransOnward DEF Onward
  <2>3. (EndCommit => Settles) /\ (~EndCommit => Keeps)
    BY <1>2, <1>3, <1>5, TransDurable
  <2>4. CASE EndCommit
    BY <1>4, <2>2, <2>3, <2>4
  <2>5. CASE ~EndCommit /\ work'.op # "commit"
    BY <1>1, <2>2, <2>3, <2>5, KeepsStores
  <2>6. CASE ~EndCommit /\ work'.op = "commit"
    <3>1. Committing = {}
      BY <2>3, <2>6 DEF Keeps, Committing
    <3>2. Doubt = Store
      BY <3>1 DEF Doubt, Store
    <3>3. \A i \in Items : Left(Slot, i)' = Left(Slot, i)
      BY <2>3, <2>6 DEF Keeps, Left
    <3>4. Store' = Store
      BY <1>1, <3>3 DEF StoresAre
    <3>5. Abstract!Commit
      BY <1>1, <2>2, <3>2, <3>4 DEF Abstract!Commit, Store, Doubt, StoresAre
    <3> QED
      BY <3>5
  <2> QED
    BY <2>4, <2>5, <2>6
<1>6. CASE CheckpointNext /\ ~CheckpointAnchor
  <2>1. up /\ up'
    BY <1>6, CheckpointOnward DEF Onward
  <2>2. (CheckpointAtCommit => Settles) /\ (~CheckpointAtCommit => Keeps)
    BY <1>2, <1>6, CheckpointDurable
  <2>3. CASE CheckpointAtCommit
    BY <1>4, <2>1, <2>2, <2>3
  <2>4. CASE ~CheckpointAtCommit
    <3>1. work'.op # "commit"
      BY <1>6, <2>2, <2>4, CheckpointWrites DEF Keeps, Idle
    <3> QED
      BY <1>1, <2>1, <2>2, <2>4, <3>1, KeepsStores
  <2> QED
    BY <2>3, <2>4
<1>7. CASE CheckpointAnchor \/ Open
  <2>1. UNCHANGED <<mem, log, trans>> /\ (CheckpointAnchor => up' = up) /\ (Open => ~up /\ up')
    BY <1>7 DEF CheckpointAnchor, Open, logs, life
  <2>2. Committing' = {} /\ Committing = {} /\ End' = End
    BY <1>7, <2>1, GrowsSame DEF CheckpointAnchor, Open, Inv, StageInv, Committing, Idle
  <2>3. \A slots, i : Left(slots, i)' = Left(slots, i)
    BY <2>1, <2>2 DEF Left
  <2>4. Store' = Store /\ Doubt' = Doubt
    BY <1>1, <2>2, <2>3 DEF StoresAre
  <2> QED
    BY <1>7, <2>1, <2>4 DEF Abstract!Restart, Store, Doubt
<1>8. CASE Crash
  <2>1. PICK c \in Nat : LosersFrom(c)'
    BY <1>2, <1>8, CrashLosers
  <2>2. CrashLeaves
    BY <1>2, <1>3, <1>8, <2>1, CrashDurable
  <2>3. up /\ up' = FALSE /\ Committing' = {}
    BY <1>8 DEF Crash, Committing, Idle
  <2>4. Doubt' = Store'
    BY <2>3 DEF Doubt, Store
  <2>5. \A i \in Items : Left(Slot, i)' = mem'[i]
    BY <2>2 DEF CrashLeaves, Left
  <2>6. Store' \in {Store, Doubt}
    BY <1>1, <2>2, <2>5 DEF CrashLeaves, StoresAre
  <2> QED
    BY <2>3, <2>4, <2>6 DEF Abstract!Crash, Store, Doubt
<1>9. CASE UNCHANGED vars
  <2>1. UNCHANGED <<mem, log, trans, up>> /\ End' = End /\ Committing' = Committing
    BY <1>9, SameDurable DEF vars, logs, life
  <2>2. \A slots, i : Left(slots, i)' = Left(slots, i)
    BY <2>1 DEF Left
  <2> QED
    BY <1>1, <2>1, <2>2 DEF StoresAre
<1> QED
  BY <1>5, <1>6, <1>7, <1>8, <1>9 DEF Next

\* Transactions are atomic and durable: commits, rollbacks, checkpoints, crashes
\* and restarts leave the updates of exactly the committed transactions
\* (LogMgr_Restart, dbi_trans_commit_internal, _Checkpointing).  None of the
\* circumstances that Faults names may occur.
THEOREM ImplementsDurableStore ==
    ASSUME Faults = {}
    PROVE  Spec => Refines
<1>1. Init => Inv /\ SaveInv /\ DurableInv
  <2> SUFFICES ASSUME Init PROVE Inv /\ SaveInv /\ DurableInv
    OBVIOUS
  <2>1. Inv /\ SaveInv /\ UndoInv /\ LosersFrom(0) /\ FilesFrom(0)
    BY Starts, SaveStarts, LosersStart, FilesStart
  <2> QED
    BY <2>1, DurableStarts DEF DurableInv
<1>2. Inv /\ SaveInv /\ DurableInv => LogKept
  BY FilesKept DEF DurableInv, FileInv
<1>3. Init => Abstract!Init
  <2> SUFFICES ASSUME Init PROVE Abstract!Init
    OBVIOUS
  <2>1. StoresAre
    BY <1>1, <1>2, StoresTyped
  <2>2. Committing = {} /\ up = TRUE
    BY DEF Init, Committing, Idle
  <2>3. Doubt = Store
    BY <2>2 DEF Doubt, Store
  <2> QED
    BY <2>1, <2>2, <2>3 DEF Abstract!Init, StoresAre, Store, Doubt
<1>6. (Inv /\ SaveInv /\ DurableInv => LogKept)'
  BY <1>2, PTL
<1>4. Inv /\ SaveInv /\ DurableInv /\ [Next]_vars => Inv' /\ SaveInv' /\ DurableInv'
  <2> SUFFICES ASSUME Inv, SaveInv, DurableInv, [Next]_vars
               PROVE  Inv' /\ SaveInv' /\ DurableInv'
    OBVIOUS
  <2>1. Inv' /\ SaveInv'
    BY StepKeeps, SaveStep
  <2>2. FileInv /\ FileInv'
    BY <2>1, FileStep DEF DurableInv, FileInv
  <2>3. LogKept'
    BY <2>1, <2>2, FilesKeptNext
  <2> QED
    BY <2>1, <2>3, DurableStep
<1>5. Inv /\ SaveInv /\ DurableInv /\ Inv' /\ SaveInv' /\ DurableInv' /\ [Next]_vars
      => [Abstract!Next]_<<Store, Doubt, up>>
  BY <1>2, <1>6, StoreStep
<1> QED
  BY <1>1, <1>3, <1>4, <1>5, PTL DEF Spec, Refines, Abstract!Spec, Store, Doubt

=============================================================================
