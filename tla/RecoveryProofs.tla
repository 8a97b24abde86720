--------------------------- MODULE RecoveryProofs ---------------------------
(***************************************************************************)
(* For every number of items, transactions and log records: what Recovery  *)
(* keeps in the log, in the transaction slots and on disk.                 *)
(*                                                                         *)
(* First lemmas about sets of natural numbers, about functions that are    *)
(* defined by recursion over positions, and about the chains of records by *)
(* which Recovery undoes transactions.  The latter are about any log L of  *)
(* N records, so that they hold of log and of log' alike.  The induction   *)
(* theorems of the library are about operators.  That the natural numbers  *)
(* are well founded is a statement about sets, and gives the same          *)
(* inductions for the set of the numbers that have a property.             *)
(*                                                                         *)
(* Then the first invariant, which holds whatever Faults allows: the       *)
(* records of a transaction are linked, the slots name records of their    *)
(* transactions, and no image on disk is ahead of the flushed log.         *)
(***************************************************************************)
EXTENDS Recovery, WellFoundedInduction, SequenceTheorems, TLAPS

\* A non-empty set of natural numbers has a least element.
LEMMA LeastNat ==
    ASSUME NEW T, T \subseteq Nat, T # {}
    PROVE  \E x \in T : \A y \in T : x <= y
<1>1. PICK x \in T : \A y \in T : ~ (<<y, x>> \in OpToRel(<, Nat))
  BY NatLessThanWellFounded, WFMin, Zenon
<1>2. \A y \in T : <<y, x>> \in OpToRel(<, Nat) <=> y < x
  BY Zenon DEF OpToRel
<1>3. \A y \in T : ~(y < x)
  BY <1>1, <1>2, Zenon
<1>4. \A y \in T : y \in Nat /\ x \in Nat
  BY Zenon
<1> QED
  BY <1>3, <1>4, SMT

\* A non-empty and bounded set of natural numbers has a greatest element.
LEMMA GreatestNat ==
    ASSUME NEW S, S \subseteq Nat, S # {}, NEW b \in Nat, \A x \in S : x <= b
    PROVE  \E x \in S : \A y \in S : y <= x
<1> DEFINE T == {b - x : x \in S}
<1>1. \A x \in S : x \in Nat /\ b - x \in Nat
  OBVIOUS
<1>2. T \subseteq Nat /\ T # {}
  BY <1>1
<1>3. \E y \in T : \A z \in T : y <= z
  <2> HIDE DEF T
  <2> QED BY <1>2, LeastNat
<1>4. PICK x \in S : \A z \in S : b - x <= b - z
  BY <1>3
<1>5. \A z \in S : z <= x
  BY <1>1, <1>4
<1> QED
  BY <1>5

\* What Min and Max of FiniteSetsExt choose.
LEMMA MinIs ==
    ASSUME NEW S, S \subseteq Nat, S # {}
    PROVE  Min(S) \in S /\ \A x \in S : Min(S) <= x
BY LeastNat DEF Min

LEMMA MaxIs ==
    ASSUME NEW S, S \subseteq Nat, S # {}, NEW b \in Nat, \A x \in S : x <= b
    PROVE  Max(S) \in S /\ \A x \in S : x <= Max(S)
<1>1. PICK x \in S : \A y \in S : y <= x
  BY GreatestNat
<1>2. \A y \in S : x >= y
  BY <1>1
<1> QED
  BY <1>2 DEF Max

LEMMA MinUnique ==
    ASSUME NEW S, S \subseteq Nat, NEW m \in S, \A x \in S : m <= x
    PROVE  Min(S) = m
<1>1. Min(S) \in S /\ \A x \in S : Min(S) <= x
  BY MinIs
<1>2. Min(S) \in Nat /\ m \in Nat /\ Min(S) <= m /\ m <= Min(S)
  BY <1>1
<1> QED
  BY <1>2



\* Strong induction, for the set T of the positions from a to b that have a
\* property.
LEMMA Induction ==
    ASSUME NEW a \in Nat, NEW b \in Nat, NEW T,
           \A n \in a .. b : (\A m \in a .. n - 1 : m \in T) => n \in T
    PROVE  a .. b \subseteq T
<1> DEFINE Bad == (a .. b) \ T
<1>1. SUFFICES ASSUME Bad # {} PROVE FALSE
  OBVIOUS
<1>2. Bad \subseteq Nat
  OBVIOUS
<1>3. PICK n \in Bad : \A m \in Bad : n <= m
  <2> HIDE DEF Bad
  <2> QED BY <1>1, <1>2, LeastNat
<1>4. n \in a .. b /\ n \notin T
  OBVIOUS
<1>5. \A m \in a .. n - 1 : m \in T
  <2> TAKE m \in a .. n - 1
  <2>1. m \in a .. b /\ ~(n <= m)
    BY <1>4
  <2> QED
    BY <1>3, <2>1
<1> QED
  BY <1>4, <1>5

\* A recursive definition of a function on a .. b with values in V: at a the
\* value is first, at a later n it is G[n], applied to the value at p[n].
RecursionOn(a, b, V, first, p, G) ==
    /\ a \in Nat /\ b \in Nat /\ a <= b /\ first \in V
    /\ \A n \in a .. b : n # a => p[n] \in a .. n - 1
    /\ G \in [a .. b -> [V -> V]]

\* There is such a function.
LEMMA RecursiveFunction ==
    ASSUME NEW a, NEW b, NEW V, NEW first, NEW p, NEW G,
           RecursionOn(a, b, V, first, p, G)
    PROVE  \E f \in [a .. b -> V] :
              f[a] = first /\ \A n \in a .. b : n # a => f[n] = G[n][f[p[n]]]
<1> USE DEF RecursionOn
<1> DEFINE Ok(f, k) == f[a] = first /\ \A n \in a .. k : n # a => f[n] = G[n][f[p[n]]]
           T == {k \in Nat : \E f \in [a .. b -> V] : Ok(f, k)}
<1>1. ASSUME NEW k \in a .. b, \A m \in a .. k - 1 : m \in T
      PROVE  k \in T
  <2>1. CASE k = a
    <3> DEFINE f == [n \in a .. b |-> first]
    <3>1. f \in [a .. b -> V] /\ Ok(f, a)
      OBVIOUS
    <3> QED
      BY <3>1, <2>1
  <2>2. CASE k # a
    <3>1. k - 1 \in a .. k - 1
      BY <2>2
    <3>2. PICK f \in [a .. b -> V] : Ok(f, k - 1)
      BY <1>1, <3>1
    <3> DEFINE g == [n \in a .. b |-> IF n = k THEN G[k][f[p[k]]] ELSE f[n]]
    <3>3. p[k] \in a .. k - 1 /\ f[p[k]] \in V /\ G[k] \in [V -> V]
      BY <2>2
    <3>4. G[k][f[p[k]]] \in V
      BY <3>3
    <3>5. g \in [a .. b -> V]
      BY <3>4
    <3>6. g[a] = first
      BY <3>2, <2>2
    <3>7. ASSUME NEW n \in a .. k, n # a PROVE g[n] = G[n][g[p[n]]]
      <4>1. p[n] \in a .. n - 1 /\ p[n] # k /\ p[n] \in a .. b /\ n \in a .. b
        BY <3>7
      <4>2. g[p[n]] = f[p[n]]
        BY <4>1
      <4>3. CASE n = k
        BY <4>1, <4>2, <4>3
      <4>4. CASE n # k
        <5>1. n \in a .. k - 1
          BY <4>4
        <5>2. f[n] = G[n][f[p[n]]]
          BY <3>2, <3>7, <5>1
        <5> QED BY <4>1, <4>2, <4>4, <5>2
      <4> QED BY <4>3, <4>4
    <3>8. Ok(g, k)
      BY <3>6, <3>7
    <3>9. k \in Nat
      OBVIOUS
    <3> HIDE DEF g, Ok
    <3> QED
      BY <3>5, <3>8, <3>9
  <2> QED
    BY <2>1, <2>2
<1>2. a .. b \subseteq T
  <2> HIDE DEF T
  <2> QED BY <1>1, Induction
<1>3. b \in T
  <2> HIDE DEF T
  <2>1. b \in a .. b
    OBVIOUS
  <2> QED BY <1>2, <2>1
<1>4. PICK f \in [a .. b -> V] : Ok(f, b)
  BY <1>3
<1> QED
  BY <1>4

-----------------------------------------------------------------------------
(* The chains of records *)

\* The chain of record n in log L: Chain(n) of Recovery is ChainIn(log, End, n).
ChainIn(L, N, n) ==
    LET chain[m \in 0 .. N] ==
          IF m = 0 \/ ~OfTrans(L[m]) THEN {} ELSE {m} \cup chain[L[m].prev]
    IN  chain[n]

\* Each record of a transaction names an earlier one, or none.
Linked(L, N) ==
    N \in Nat /\ \A m \in 1 .. N : OfTrans(L[m]) => L[m].prev \in 0 .. m - 1

\* Two logs are the same up to record n.
Agree(L, M, n) == \A m \in 1 .. n : L[m] = M[m]

\* Chain is the operator of this module, applied to the log of a state.
LEMMA ChainIsChainIn ==
    /\ \A n : Chain(n) = ChainIn(log, End, n)
    /\ \A n : Chain(n)' = ChainIn(log', End', n)
BY Zenon DEF Chain, ChainIn, End, OfTrans

\* The recursive definition of a chain has a solution, so it can be unfolded.
LEMMA ChainUnfolds ==
    ASSUME NEW L, NEW N, Linked(L, N)
    PROVE  \A n \in 0 .. N :
              ChainIn(L, N, n) = IF n = 0 \/ ~OfTrans(L[n]) THEN {}
                                 ELSE {n} \cup ChainIn(L, N, L[n].prev)
<1> DEFINE V == SUBSET (0 .. N)
           ok(m) == m # 0 /\ OfTrans(L[m])
           p == [m \in 0 .. N |-> IF ok(m) THEN L[m].prev ELSE 0]
           G == [m \in 0 .. N |-> [S \in V |-> IF ok(m) THEN {m} \cup S ELSE {}]]
           Solves(h) == h = [m \in 0 .. N |-> IF m = 0 \/ ~OfTrans(L[m]) THEN {}
                                             ELSE {m} \cup h[L[m].prev]]
<1>0. N \in Nat
  BY DEF Linked
<1>1. RecursionOn(0, N, V, {}, p, G)
  BY <1>0 DEF Linked, RecursionOn
<1>2. PICK f \in [0 .. N -> V] :
        f[0] = {} /\ \A m \in 0 .. N : m # 0 => f[m] = G[m][f[p[m]]]
  <2> HIDE DEF V, p, G
  <2> QED
    BY <1>1, RecursiveFunction
<1>3. ASSUME NEW m \in 0 .. N
      PROVE  f[m] = IF m = 0 \/ ~OfTrans(L[m]) THEN {} ELSE {m} \cup f[L[m].prev]
  <2>1. CASE m = 0
    BY <2>1, <1>2
  <2>2. CASE m # 0
    <3>1. p[m] \in 0 .. N
      BY <1>1, <2>2 DEF RecursionOn
    <3>2. f[m] = G[m][f[p[m]]] /\ f[p[m]] \in V
      <4> HIDE DEF V, p, G
      <4> QED
        BY <3>1, <1>2, <2>2
    <3> HIDE DEF V
    <3>3. G[m][f[p[m]]] = IF ok(m) THEN {m} \cup f[p[m]] ELSE {}
      BY <3>2
    <3>4. p[m] = IF ok(m) THEN L[m].prev ELSE 0
      OBVIOUS
    <3> HIDE DEF G, p
    <3> QED
      BY <2>2, <3>2, <3>3, <3>4
  <2> QED
    BY <2>1, <2>2
<1>4. Solves(f)
  BY <1>3
<1> DEFINE g == CHOOSE h : Solves(h)
<1>5. Solves(g)
  <2> HIDE DEF Solves
  <2> QED
    BY <1>4
<1>6. \A m : ChainIn(L, N, m) = g[m]
  BY DEF ChainIn
<1> HIDE DEF g
<1>7. \A n \in 0 .. N : g[n] = IF n = 0 \/ ~OfTrans(L[n]) THEN {}
                               ELSE {n} \cup g[L[n].prev]
  BY <1>5
<1> QED
  BY <1>6, <1>7, Zenon

\* A chain leads from a record to earlier ones.
LEMMA ChainBelow ==
    ASSUME NEW L, NEW N, Linked(L, N), NEW n \in 0 .. N
    PROVE  ChainIn(L, N, n) \subseteq 1 .. n
<1> DEFINE T == {m \in 0 .. N : ChainIn(L, N, m) \subseteq 1 .. m}
<1>0. N \in Nat
  BY DEF Linked
<1>1. ASSUME NEW m \in 0 .. N, \A k \in 0 .. m - 1 : k \in T PROVE m \in T
  <2>1. CASE m = 0 \/ ~OfTrans(L[m])
    BY <2>1, ChainUnfolds
  <2>2. CASE m # 0 /\ OfTrans(L[m])
    <3>1. L[m].prev \in 0 .. m - 1
      BY <2>2, <1>0 DEF Linked
    <3>2. ChainIn(L, N, L[m].prev) \subseteq 1 .. L[m].prev
      BY <1>1, <3>1
    <3>3. ChainIn(L, N, m) = {m} \cup ChainIn(L, N, L[m].prev)
      BY <2>2, ChainUnfolds
    <3> QED
      BY <3>1, <3>2, <3>3, <2>2
  <2> QED
    BY <2>1, <2>2
<1>2. 0 .. N \subseteq T
  <2> HIDE DEF T
  <2> QED
    BY <1>0, <1>1, Induction
<1> QED
  BY <1>2

\* What follows a record changes nothing in its chain.
LEMMA ChainSame ==
    ASSUME NEW L, NEW N, NEW M, NEW K, Linked(L, N), Linked(M, K),
           NEW n \in 0 .. N, n <= K, Agree(L, M, n)
    PROVE  ChainIn(L, N, n) = ChainIn(M, K, n)
<1> DEFINE T == {m \in 0 .. n : ChainIn(L, N, m) = ChainIn(M, K, m)}
<1>0. N \in Nat /\ K \in Nat /\ n \in Nat /\ n <= N
  BY DEF Linked
<1>1. ASSUME NEW m \in 0 .. n, \A k \in 0 .. m - 1 : k \in T PROVE m \in T
  <2>0. m \in 0 .. N /\ m \in 0 .. K
    BY <1>0
  <2>1. CASE m = 0
    BY <2>0, <2>1, ChainUnfolds
  <2>2. CASE m # 0
    <3>1. m \in 1 .. n /\ L[m] = M[m]
      BY <2>2, <1>0 DEF Agree
    <3>2. CASE ~OfTrans(L[m])
      BY <2>0, <3>1, <3>2, ChainUnfolds
    <3>3. CASE OfTrans(L[m])
      <4>1. L[m].prev \in 0 .. m - 1
        BY <3>3, <3>1, <1>0 DEF Linked
      <4>2. ChainIn(L, N, L[m].prev) = ChainIn(M, K, L[m].prev)
        BY <1>1, <4>1
      <4>3. /\ ChainIn(L, N, m) = {m} \cup ChainIn(L, N, L[m].prev)
            /\ ChainIn(M, K, m) = {m} \cup ChainIn(M, K, M[m].prev)
        BY <2>0, <2>2, <3>1, <3>3, ChainUnfolds
      <4> QED
        BY <4>2, <4>3, <3>1
    <3> QED
      BY <3>2, <3>3
  <2> QED
    BY <2>1, <2>2
<1>2. 0 .. n \subseteq T
  <2> HIDE DEF T
  <2> QED
    BY <1>0, <1>1, Induction
<1> QED
  BY <1>2, <1>0

\* The chain of a record in a chain is the earlier part of that chain.
LEMMA ChainOfMember ==
    ASSUME NEW L, NEW N, Linked(L, N), NEW n \in 0 .. N, NEW m \in ChainIn(L, N, n)
    PROVE  /\ m \in 1 .. n /\ OfTrans(L[m])
           /\ ChainIn(L, N, m) = ChainIn(L, N, n) \cap (1 .. m)
<1> DEFINE Good(k) == \A j \in ChainIn(L, N, k) :
                         OfTrans(L[j]) /\ ChainIn(L, N, j) = ChainIn(L, N, k) \cap (1 .. j)
           T == {k \in 0 .. N : Good(k)}
<1>0. N \in Nat
  BY DEF Linked
<1>1. ASSUME NEW k \in 0 .. N, \A i \in 0 .. k - 1 : i \in T PROVE k \in T
  <2>1. CASE k = 0 \/ ~OfTrans(L[k])
    <3>1. ChainIn(L, N, k) = {}
      BY <2>1, ChainUnfolds
    <3> QED
      BY <3>1
  <2>2. CASE k # 0 /\ OfTrans(L[k])
    <3> DEFINE q == L[k].prev
    <3>1. q \in 0 .. k - 1
      BY <2>2, <1>0 DEF Linked
    <3>2. Good(q) /\ q \in 0 .. N
      BY <1>1, <3>1
    <3>3. ChainIn(L, N, k) = {k} \cup ChainIn(L, N, q)
      BY <2>2, ChainUnfolds
    <3>4. ChainIn(L, N, q) \subseteq 1 .. q /\ ChainIn(L, N, k) \subseteq 1 .. k
      BY <3>2, ChainBelow
    <3> HIDE DEF q
    <3>5. ASSUME NEW j \in ChainIn(L, N, k)
          PROVE  OfTrans(L[j]) /\ ChainIn(L, N, j) = ChainIn(L, N, k) \cap (1 .. j)
      <4>1. CASE j = k
        BY <4>1, <2>2, <3>4
      <4>2. CASE j # k
        <5>1. j \in ChainIn(L, N, q)
          BY <4>2, <3>3
        <5>2. OfTrans(L[j]) /\ ChainIn(L, N, j) = ChainIn(L, N, q) \cap (1 .. j)
          BY <5>1, <3>2
        <5>3. k \notin 1 .. j
          BY <5>1, <3>1, <3>4
        <5> QED
          BY <5>2, <5>3, <3>3
      <4> QED
        BY <4>1, <4>2
    <3> QED
      BY <3>5
  <2> QED
    BY <2>1, <2>2
<1>2. 0 .. N \subseteq T
  <2> HIDE DEF T
  <2> QED
    BY <1>0, <1>1, Induction
<1>3. m \in 1 .. n
  BY ChainBelow
<1> QED
  BY <1>2, <1>3

-----------------------------------------------------------------------------
(* The transaction table of a restart, for a log L of N records that is     *)
(* read from the END_CHKPT record at a on, without the records before k     *)

AfterIn(L, table, n) ==
    LET r == L[n]
        s == r.trans % MaxTrans
    IN  IF r.type \in {"TRANS_COMMIT", "TRANS_ABORT"}
        THEN [table EXCEPT ![s] = NoEntry]
        ELSE [table EXCEPT ![s] = [id |-> IF @.id = 0 THEN r.trans ELSE @.id, last |-> n]]
TableIn(L, N, a, k, n) ==
    LET table[m \in a .. N] ==
          IF m = a THEN L[m].active
          ELSE IF m < k \/ ~OfTrans(L[m]) THEN table[m - 1]
          ELSE AfterIn(L, table[m - 1], m)
    IN  table[n]

LEMMA TableIsTableIn ==
    TableAfterRedo = TableIn(log, End, anchor.end, SkippedBefore, End)
BY Zenon DEF TableAfterRedo, TableIn, AfterRecord, AfterIn

\* A log from which a transaction table can be made: the slots of the table it
\* starts with and of its records are there.
Entries(N) == [id : 0 .. MaxId - 1, last : 0 .. N]
Tabled(L, N, a) ==
    /\ a \in Nat /\ N \in Nat /\ a <= N /\ L[a].active \in [Slot -> Entries(N)]
    /\ \A m \in a .. N : OfTrans(L[m]) =>
          L[m].trans \in 1 .. MaxId - 1 /\ L[m].trans % MaxTrans \in Slot

LEMMA AfterInTyped ==
    ASSUME NEW L, NEW N, NEW a, Tabled(L, N, a), NEW m \in a .. N, OfTrans(L[m]),
           NEW table \in [Slot -> Entries(N)]
    PROVE  AfterIn(L, table, m) \in [Slot -> Entries(N)]
<1> DEFINE s == L[m].trans % MaxTrans
           e == [id |-> IF table[s].id = 0 THEN L[m].trans ELSE table[s].id, last |-> m]
<1>1. s \in Slot /\ L[m].trans \in 1 .. MaxId - 1 /\ m \in 0 .. N /\ N \in Nat
  BY DEF Tabled
<1> HIDE DEF s
<1>2. e \in Entries(N) /\ NoEntry \in Entries(N)
  BY <1>1, RecoveryAssumption DEF Entries, NoEntry
<1>3. \/ AfterIn(L, table, m) = [table EXCEPT ![s] = NoEntry]
      \/ AfterIn(L, table, m) = [table EXCEPT ![s] = e]
  BY <1>1 DEF AfterIn, s
<1> HIDE DEF e
<1> QED
  BY <1>1, <1>2, <1>3

LEMMA TableUnfolds ==
    ASSUME NEW L, NEW N, NEW a, NEW k, Tabled(L, N, a)
    PROVE  \A n \in a .. N :
              TableIn(L, N, a, k, n) =
                IF n = a THEN L[n].active
                ELSE IF n < k \/ ~OfTrans(L[n]) THEN TableIn(L, N, a, k, n - 1)
                ELSE AfterIn(L, TableIn(L, N, a, k, n - 1), n)
<1> DEFINE V == [Slot -> Entries(N)]
           ok(m) == ~(m < k \/ ~OfTrans(L[m]))
           p == [m \in a .. N |-> m - 1]
           G == [m \in a .. N |-> [t \in V |-> IF ok(m) THEN AfterIn(L, t, m) ELSE t]]
           Solves(h) == h = [m \in a .. N |-> IF m = a THEN L[m].active
                                             ELSE IF m < k \/ ~OfTrans(L[m]) THEN h[m - 1]
                                             ELSE AfterIn(L, h[m - 1], m)]
<1>0. a \in Nat /\ N \in Nat /\ a <= N /\ L[a].active \in V
  BY DEF Tabled
<1>1. RecursionOn(a, N, V, L[a].active, p, G)
  <2>1. \A m \in a .. N, t \in V : ok(m) => AfterIn(L, t, m) \in V
    BY AfterInTyped
  <2> HIDE DEF V, ok
  <2>2. G \in [a .. N -> [V -> V]]
    BY <2>1
  <2> QED
    BY <1>0, <2>2 DEF RecursionOn
<1>2. PICK f \in [a .. N -> V] :
        f[a] = L[a].active /\ \A m \in a .. N : m # a => f[m] = G[m][f[p[m]]]
  <2> HIDE DEF V, p, G
  <2> QED
    BY <1>1, RecursiveFunction
<1>3. ASSUME NEW m \in a .. N
      PROVE  f[m] = IF m = a THEN L[m].active
                    ELSE IF m < k \/ ~OfTrans(L[m]) THEN f[m - 1]
                    ELSE AfterIn(L, f[m - 1], m)
  <2>1. CASE m = a
    BY <2>1, <1>2
  <2>2. CASE m # a
    <3>1. p[m] = m - 1 /\ m - 1 \in a .. N
      BY <2>2, <1>0
    <3>2. f[m] = G[m][f[m - 1]] /\ f[m - 1] \in V
      <4> HIDE DEF V, p, G
      <4> QED
        BY <3>1, <1>2, <2>2
    <3> HIDE DEF V
    <3>3. G[m][f[m - 1]] = IF ok(m) THEN AfterIn(L, f[m - 1], m) ELSE f[m - 1]
      BY <3>2
    <3> HIDE DEF G, p
    <3> QED
      BY <2>2, <3>2, <3>3
  <2> QED
    BY <2>1, <2>2
<1>4. Solves(f)
  <2> HIDE DEF V
  <2> QED BY <1>2, <1>3
<1> DEFINE g == CHOOSE h : Solves(h)
<1>5. Solves(g)
  <2> HIDE DEF Solves
  <2> QED
    BY <1>4
<1>6. \A m : TableIn(L, N, a, k, m) = g[m]
  BY DEF TableIn
<1> HIDE DEF g
<1>7. \A n \in a .. N : g[n] = IF n = a THEN L[n].active
                               ELSE IF n < k \/ ~OfTrans(L[n]) THEN g[n - 1]
                               ELSE AfterIn(L, g[n - 1], n)
  BY <1>5
<1> QED
  BY <1>6, <1>7

LEMMA TableTyped ==
    ASSUME NEW L, NEW N, NEW a, NEW k, Tabled(L, N, a), NEW n \in a .. N
    PROVE  TableIn(L, N, a, k, n) \in [Slot -> Entries(N)]
<1> DEFINE V == [Slot -> Entries(N)]
           T == {m \in a .. N : TableIn(L, N, a, k, m) \in V}
<1>0. a \in Nat /\ N \in Nat /\ L[a].active \in V
  BY DEF Tabled
<1>1. ASSUME NEW m \in a .. N, \A j \in a .. m - 1 : j \in T PROVE m \in T
  <2> HIDE DEF V
  <2>1. CASE m = a
    BY <2>1, <1>0, TableUnfolds
  <2>2. CASE m # a
    <3>1. m - 1 \in a .. m - 1
      BY <2>2, <1>0
    <3>2. TableIn(L, N, a, k, m - 1) \in V
      BY <3>1, <1>1
    <3>3. OfTrans(L[m]) => AfterIn(L, TableIn(L, N, a, k, m - 1), m) \in V
      BY <3>2, AfterInTyped DEF V
    <3> QED
      BY <2>2, <3>2, <3>3, TableUnfolds
  <2> QED
    BY <2>1, <2>2
<1>2. a .. N \subseteq T
  <2> HIDE DEF T
  <2> QED BY <1>0, <1>1, Induction
<1> QED
  BY <1>2

-----------------------------------------------------------------------------
(* What is invariant *)

Id == 1 .. MaxId - 1
Ends == {"TRANS_COMMIT", "TRANS_ABORT"}
Entry == [id : 0 .. MaxId - 1, last : LSN]
Table == [Slot -> Entry]

\* The log records.
Record ==
    [type : {"BEGIN_CHKPT"}]
    \cup [type : {"END_CHKPT"}, active : Table]
    \cup [type : {"TRANS_BEGIN"} \cup Ends, trans : Id, prev : LSN]
    \cup [type : {"UPDATE"}, trans : Id, prev : LSN, item : Items, before : LSN]
    \cup [type : {"COMPENSATION"}, trans : Id, prev : LSN, undone : LSN]

\* A record r at position n of log L continues a transaction: only TRANS_BEGIN
\* has no record before it, and a compensation goes on with the record before
\* the one it undoes.
LinkOk(L, r, n) ==
    /\ r.trans % MaxTrans # 0 /\ r.prev \in 0 .. n - 1
    /\ r.prev = 0 <=> r.type = "TRANS_BEGIN"
    /\ r.prev # 0 => /\ OfTrans(L[r.prev]) /\ L[r.prev].trans = r.trans
                     /\ L[r.prev].type \notin Ends
    /\ r.type = "UPDATE" => r.before \in 0 .. n - 1
    /\ r.type = "COMPENSATION" =>
         /\ r.undone \in 1 .. n - 1 /\ L[r.undone].type = "UPDATE"
         /\ L[r.undone].prev = r.prev /\ L[r.undone].trans = r.trans

\* The table of an END_CHKPT record names records of running transactions.
TableOk(L, table, n) ==
    \A s \in Slot :
        LET e == table[s] IN
        /\ e.last \in 0 .. n - 1
        /\ e.id # 0 => e.id % MaxTrans = s
        /\ e.id = 0 => e.last = 0
        /\ e.last # 0 => /\ OfTrans(L[e.last]) /\ L[e.last].trans = e.id
                         /\ L[e.last].type \notin Ends

RecordOk(L, r, n) ==
    /\ r \in Record
    /\ OfTrans(r) => LinkOk(L, r, n)
    /\ r.type = "END_CHKPT" => TableOk(L, r.active, n)

GoodLog(L, N) == \A n \in 1 .. N : RecordOk(L, L[n], n)
IsLog(L, N) == L \in Seq(Record) /\ N = Len(L) /\ N <= MaxLog /\ GoodLog(L, N)

LogInv ==
    /\ IsLog(log, End) /\ stable \in 2 .. End
    /\ anchor \in [begin : 1 .. stable, end : 1 .. stable] /\ anchor.end = anchor.begin + 1
    /\ log[anchor.begin].type = "BEGIN_CHKPT" /\ log[anchor.end].type = "END_CHKPT"
    /\ deleted \in Nat /\ deleted < File(anchor.begin)
    /\ unsettled \in 0 .. stable

\* No image on disk is ahead of the flushed log, and no value in memory ahead
\* of its log record.
DiskInv ==
    /\ mem \in [Items -> 0 .. End]
    /\ dirty \subseteq Items /\ dirty0 \in BOOLEAN /\ gDirty \in 0 .. 2
    /\ db \in [Items -> (SUBSET (0 .. stable)) \ {{}}]
    /\ anchorLSN \in (SUBSET (1 .. stable)) \ {{}}

\* A slot t, number s, names records of its transaction.  The save point of the
\* transaction is on its chain, unless the work w is to abort it.
Ending(w, s) == w.op = "commit" /\ w.slot = s
Aborting(w, s) == w.op = "abort" /\ w.slot = s
RunsAt(L, n, id) == OfTrans(L[n]) /\ L[n].trans = id /\ L[n].type \notin Ends
SlotOk(L, N, t, s, w) ==
    /\ t.last \in 0 .. N /\ t.first \in 0 .. t.last
    /\ t.first = 0 <=> t.last = 0
    /\ t.id # 0 => t.id % MaxTrans = s
    /\ t.id = 0 => t = NoTrans
    /\ t.last # 0 => OfTrans(L[t.last]) /\ L[t.last].trans = t.id
    /\ t.last # 0 /\ L[t.last].type \in Ends => Ending(w, s)
    /\ t.save \in {NoSave, 0} \cup ChainIn(L, N, t.last) \/ Aborting(w, s)
SlotInv ==
    /\ trans \in [Slot -> Trans]
    /\ \A s \in Slot : SlotOk(log, End, trans[s], s, work)
    /\ nextId \in Id /\ owner \in [Items -> Slot \cup {0}]

\* What work w undoes is a record of the transaction with slot t, and a partial
\* rollback reaches its save point.
WorkOk(L, N, t, w) ==
    /\ w.op \in {"partial", "abort", "commit"} => t.id # 0
    /\ w.op \in {"partial", "abort"} =>
         /\ w.next \in 0 .. t.last
         /\ w.next # 0 => RunsAt(L, w.next, t.id)
    /\ w.op = "partial" => t.save \in {0} \cup ChainIn(L, N, w.next)
WorkInv ==
    /\ work \in [op : {"idle", "partial", "abort", "commit", "restart"},
                 slot : Slot \cup {0}, next : LSN]
    /\ work.op \in {"partial", "abort", "commit"} =>
         work.slot \in Slot /\ WorkOk(log, End, trans[work.slot], work)

StageInv ==
    /\ stage \in {"none", "pages", "page0", "end", "anchor", "delete"}
    /\ stage \in {"pages", "page0", "end"} => log[End].type = "BEGIN_CHKPT"
    /\ stage = "anchor" => log[End].type = "END_CHKPT" /\ log[End - 1].type = "BEGIN_CHKPT"
    /\ stage \in {"pages", "page0", "end", "anchor"} => stable = End /\ gDirty > 0
    /\ stage # "none" => work.op # "commit"
    /\ up \in BOOLEAN /\ crashes \in 0 .. MaxCrash
    /\ ~up => /\ stage = "none" /\ work = Idle /\ stable = End
              /\ \A s \in Slot : ~Used(s)

Inv == LogInv /\ DiskInv /\ SlotInv /\ WorkInv /\ StageInv

-----------------------------------------------------------------------------
(* Records and logs *)

\* The fields that the records of each type have.
LEMMA RecordFields ==
    ASSUME NEW r \in Record
    PROVE  /\ OfTrans(r) => r.trans \in Id /\ r.prev \in LSN
           /\ OfTrans(r) <=> r.type \in {"TRANS_BEGIN", "UPDATE", "COMPENSATION"} \cup Ends
           /\ r.type = "UPDATE" => r.item \in Items /\ r.before \in LSN
           /\ r.type = "COMPENSATION" => r.undone \in LSN
           /\ r.type = "END_CHKPT" => r.active \in Table
BY DEF Record, OfTrans, Ends

\* A record that is right after a log is right after every log that is the
\* same before it.
LEMMA RecordOkSame ==
    ASSUME NEW L, NEW M, NEW n \in Nat \ {0}, NEW r,
           Agree(L, M, n - 1), RecordOk(L, r, n)
    PROVE  RecordOk(M, r, n)
<1>1. \A m \in 1 .. n - 1 : L[m] = M[m]
  BY DEF Agree
<1>2. ASSUME OfTrans(r) PROVE LinkOk(M, r, n)
  <2>1. LinkOk(L, r, n) /\ r \in Record
    BY <1>2 DEF RecordOk
  <2>2. r.prev \in 0 .. n - 1 /\ (r.prev # 0 => M[r.prev] = L[r.prev])
    BY <2>1, <1>1 DEF LinkOk
  <2>3. r.type = "COMPENSATION" => M[r.undone] = L[r.undone]
    BY <2>1, <1>1 DEF LinkOk
  <2> QED
    BY <2>1, <2>2, <2>3, Zenon DEF LinkOk
<1>3. ASSUME r.type = "END_CHKPT" PROVE TableOk(M, r.active, n)
  <2>1. TableOk(L, r.active, n)
    BY <1>3 DEF RecordOk
  <2> QED
    BY <2>1, <1>1 DEF TableOk
<1> QED
  BY <1>2, <1>3 DEF RecordOk

LEMMA GoodLogSame ==
    ASSUME NEW L, NEW M, NEW N \in Nat, NEW K \in 0 .. N, Agree(L, M, K), GoodLog(L, N)
    PROVE  GoodLog(M, K)
<1> SUFFICES ASSUME NEW n \in 1 .. K PROVE RecordOk(M, M[n], n)
  BY DEF GoodLog
<1>1. RecordOk(L, L[n], n) /\ L[n] = M[n] /\ Agree(L, M, n - 1) /\ n \in Nat \ {0}
  BY DEF GoodLog, Agree
<1> QED
  BY <1>1, RecordOkSame

LEMMA GoodLogAdd ==
    ASSUME NEW L, NEW N \in Nat, GoodLog(L, N), RecordOk(L, L[N + 1], N + 1)
    PROVE  GoodLog(L, N + 1)
BY DEF GoodLog

LEMMA GoodLogLinked ==
    ASSUME NEW L, NEW N \in Nat, GoodLog(L, N)
    PROVE  Linked(L, N)
BY DEF GoodLog, RecordOk, LinkOk, Linked

\* What WriteLog of one record leaves, for a record that continues the log.
LEMMA WriteOne ==
    ASSUME IsLog(log, End), NEW r, RecordOk(log, r, End + 1), WriteLog(<<r>>)
    PROVE  /\ IsLog(log', End') /\ End' = End + 1
           /\ Agree(log, log', End) /\ log'[End + 1] = r
<1>. log \in Seq(Record) /\ GoodLog(log, End)
  BY DEF IsLog
<1>1. r \in Record /\ <<r>> \in Seq(Record) /\ Len(<<r>>) = 1 /\ <<r>>[1] = r
  BY DEF RecordOk
<1>2. log' = log \o <<r>> /\ Len(log') <= MaxLog
  BY DEF WriteLog
<1>3. /\ log' \in Seq(Record) /\ Len(log') = Len(log) + 1
      /\ \A i \in 1 .. Len(log) + 1 : log'[i] = IF i <= Len(log) THEN log[i] ELSE r
  BY <1>1, <1>2, ConcatProperties
<1>4. Len(log) \in Nat /\ End = Len(log) /\ End' = Len(log')
  BY <1>3, LenProperties DEF End
<1>5. /\ End \in Nat /\ End' = End + 1 /\ End' <= MaxLog
      /\ \A i \in 1 .. End : log'[i] = log[i]
      /\ log'[End + 1] = r
  BY <1>2, <1>3, <1>4
<1>6. Agree(log, log', End)
  BY <1>5 DEF Agree
<1>7. GoodLog(log', End)
  BY <1>5, <1>6, GoodLogSame
<1>8. RecordOk(log', log'[End + 1], End + 1)
  <2>1. End + 1 \in Nat \ {0} /\ (End + 1) - 1 = End
    BY <1>5
  <2>2. Agree(log, log', (End + 1) - 1)
    BY <1>6, <2>1, Zenon
  <2>3. RecordOk(log', r, End + 1)
    BY <2>1, <2>2, RecordOkSame
  <2> QED
    BY <1>5, <2>3, Zenon
<1>9. GoodLog(log', End + 1)
  BY <1>5, <1>7, <1>8, GoodLogAdd
<1> QED
  BY <1>3, <1>4, <1>5, <1>6, <1>9 DEF IsLog

\* The same for two records.
LEMMA WriteTwo ==
    ASSUME IsLog(log, End), NEW q, NEW r, RecordOk(log, q, End + 1),
           \A L : Agree(log, L, End) /\ L[End + 1] = q => RecordOk(L, r, End + 2),
           WriteLog(<<q, r>>)
    PROVE  /\ IsLog(log', End') /\ End' = End + 2
           /\ Agree(log, log', End) /\ log'[End + 1] = q /\ log'[End + 2] = r
<1>. log \in Seq(Record) /\ GoodLog(log, End)
  BY DEF IsLog
<1>0. \E L : Agree(log, L, End) /\ L[End + 1] = q
  <2>1. End \in Nat
    BY LenProperties DEF End
  <2> DEFINE L == [i \in 1 .. End + 1 |-> IF i = End + 1 THEN q ELSE log[i]]
  <2>2. Agree(log, L, End) /\ L[End + 1] = q
    BY <2>1 DEF Agree
  <2> QED
    BY <2>2
<1>1. /\ q \in Record /\ r \in Record /\ <<q, r>> \in Seq(Record) /\ Len(<<q, r>>) = 2
      /\ <<q, r>>[1] = q /\ <<q, r>>[2] = r
  BY <1>0 DEF RecordOk
<1>2. log' = log \o <<q, r>> /\ Len(log') <= MaxLog
  BY DEF WriteLog
<1>3. /\ log' \in Seq(Record) /\ Len(log') = Len(log) + 2
      /\ \A i \in 1 .. Len(log) + 2 :
            log'[i] = IF i <= Len(log) THEN log[i] ELSE <<q, r>>[i - Len(log)]
  BY <1>1, <1>2, ConcatProperties
<1>4. Len(log) \in Nat /\ End = Len(log) /\ End' = Len(log')
  BY <1>3, LenProperties DEF End
<1>5. /\ End \in Nat /\ End' = End + 2 /\ End' <= MaxLog
      /\ \A i \in 1 .. End : log'[i] = log[i]
      /\ log'[End + 1] = q /\ log'[End + 2] = r
  BY <1>1, <1>2, <1>3, <1>4
<1>6. Agree(log, log', End)
  BY <1>5 DEF Agree
<1>7. GoodLog(log', End)
  BY <1>5, <1>6, GoodLogSame
<1>8. RecordOk(log', log'[End + 1], End + 1)
  <2>1. End + 1 \in Nat \ {0} /\ (End + 1) - 1 = End
    BY <1>5
  <2>2. Agree(log, log', (End + 1) - 1)
    BY <1>6, <2>1, Zenon
  <2>3. RecordOk(log', q, End + 1)
    BY <2>1, <2>2, RecordOkSame
  <2> QED
    BY <1>5, <2>3, Zenon
<1>9. GoodLog(log', End + 1)
  BY <1>5, <1>7, <1>8, GoodLogAdd
<1>10. RecordOk(log', log'[End + 2], End + 2)
  BY <1>5, <1>6
<1>11. GoodLog(log', End + 2)
  BY <1>5, <1>9, <1>10, GoodLogAdd
<1> QED
  BY <1>3, <1>4, <1>5, <1>6, <1>11 DEF IsLog

\* What is known of every log.
LEMMA LogFacts ==
    ASSUME NEW L, NEW N, IsLog(L, N)
    PROVE  /\ N \in Nat /\ N <= MaxLog /\ GoodLog(L, N) /\ Linked(L, N)
           /\ ChainIn(L, N, 0) = {}
           /\ \A n \in 1 .. N :
                 /\ RecordOk(L, L[n], n) /\ L[n] \in Record
                 /\ OfTrans(L[n]) => /\ LinkOk(L, L[n], n)
                                     /\ ChainIn(L, N, n) = {n} \cup ChainIn(L, N, L[n].prev)
<1>1. N \in Nat /\ N <= MaxLog /\ GoodLog(L, N)
  BY LenProperties DEF IsLog
<1>2. Linked(L, N)
  BY <1>1, GoodLogLinked
<1>3. \A n \in 1 .. N : RecordOk(L, L[n], n)
  BY <1>1 DEF GoodLog
<1>4. \A n \in 0 .. N : ChainIn(L, N, n) = IF n = 0 \/ ~OfTrans(L[n]) THEN {}
                                           ELSE {n} \cup ChainIn(L, N, L[n].prev)
  BY <1>2, ChainUnfolds
<1> QED
  BY <1>1, <1>2, <1>3, <1>4 DEF RecordOk

\* A log that becomes longer keeps chains, slots and work as they are.
LEMMA ChainGrown ==
    ASSUME NEW L, NEW N, IsLog(L, N), NEW M, NEW K, IsLog(M, K), N <= K, Agree(L, M, N),
           NEW n \in 0 .. N
    PROVE  ChainIn(M, K, n) = ChainIn(L, N, n)
<1>1. Linked(L, N) /\ Linked(M, K) /\ N \in Nat /\ K \in Nat /\ n <= K /\ Agree(L, M, n)
  BY LogFacts DEF Agree
<1> QED
  BY <1>1, ChainSame

LEMMA SlotGrown ==
    ASSUME NEW L, NEW N, IsLog(L, N), NEW M, NEW K, IsLog(M, K), N <= K, Agree(L, M, N),
           NEW t, NEW s, NEW w, SlotOk(L, N, t, s, w),
           NEW v, Ending(w, s) => Ending(v, s), Aborting(w, s) => Aborting(v, s)
    PROVE  SlotOk(M, K, t, s, v)
<1>1. t.last \in 0 .. N /\ N \in Nat /\ K \in Nat
  BY LogFacts DEF SlotOk
<1>2. ChainIn(M, K, t.last) = ChainIn(L, N, t.last)
  BY <1>1, ChainGrown
<1>3. t.last # 0 => M[t.last] = L[t.last]
  BY <1>1 DEF Agree
<1> QED
  BY <1>1, <1>2, <1>3 DEF SlotOk

LEMMA WorkGrown ==
    ASSUME NEW L, NEW N, IsLog(L, N), NEW M, NEW K, IsLog(M, K), N <= K, Agree(L, M, N),
           NEW t, t.last \in 0 .. N, NEW w, WorkOk(L, N, t, w)
    PROVE  WorkOk(M, K, t, w)
<1> USE DEF WorkOk
<1>1. N \in Nat /\ K \in Nat
  BY LogFacts
<1>2. CASE w.op \in {"partial", "abort"}
  <2>1. w.next \in 0 .. N
    BY <1>1, <1>2
  <2>2. ChainIn(M, K, w.next) = ChainIn(L, N, w.next)
    BY <2>1, ChainGrown
  <2>3. w.next # 0 => M[w.next] = L[w.next]
    BY <2>1, <1>1 DEF Agree
  <2> QED
    BY <1>2, <2>2, <2>3 DEF RunsAt
<1> QED
  BY <1>2

\* An unchanged log.
LEMMA SameLog ==
    ASSUME UNCHANGED log, IsLog(log, End)
    PROVE  End' = End /\ IsLog(log', End') /\ End <= End' /\ Agree(log, log', End)
<1>1. End' = End
  BY Zenon DEF End
<1>2. End \in Nat
  BY LogFacts
<1> QED
  BY <1>1, <1>2 DEF Agree

\* The files of log records.
LEMMA Files ==
    ASSUME NEW m \in Nat \ {0}, NEW n \in Nat, m <= n
    PROVE  /\ File(m) \in Nat \ {0} /\ File(n) \in Nat \ {0}
           /\ File(m) <= File(n)
BY RecoveryAssumption DEF File

\* The slot of an id.
LEMMA SlotOfId ==
    ASSUME NEW n \in Nat, n % MaxTrans # 0
    PROVE  n % MaxTrans \in Slot
BY RecoveryAssumption DEF Slot

\* Changing one slot.
LEMMA OneSlot ==
    ASSUME trans \in [Slot -> Trans], NEW s \in Slot, NEW t \in Trans,
           trans' = [trans EXCEPT ![s] = t],
           \A u \in Slot \ {s} : SlotOk(log', End', trans[u], u, work'),
           SlotOk(log', End', t, s, work')
    PROVE  /\ trans' \in [Slot -> Trans]
           /\ \A u \in Slot : SlotOk(log', End', trans'[u], u, work')
OBVIOUS

-----------------------------------------------------------------------------
(* Parts of the invariant that a step leaves alone *)

\* The log of the next state is this one, possibly longer.
Grows == IsLog(log', End') /\ End <= End' /\ Agree(log, log', End)

LEMMA Sizes ==
    ASSUME LogInv
    PROVE  /\ End \in Nat /\ End <= MaxLog /\ stable \in 2 .. End
           /\ anchor.begin \in 1 .. stable /\ anchor.end \in 1 .. stable
           /\ 0 .. End \subseteq LSN /\ 0 .. stable \subseteq 0 .. End
<1>1. IsLog(log, End) /\ stable \in 2 .. End
      /\ anchor.begin \in 1 .. stable /\ anchor.end \in 1 .. stable
  BY DEF LogInv
<1>2. End \in Nat /\ End <= MaxLog /\ MaxLog \in Nat
  BY <1>1, LogFacts, RecoveryAssumption
<1> QED
  BY <1>1, <1>2 DEF LSN

LEMMA GrowsFacts ==
    ASSUME Grows
    PROVE  /\ End' \in Nat /\ End' <= MaxLog /\ End <= End'
           /\ \A n \in 1 .. End : log'[n] = log[n]
BY LogFacts DEF Grows, Agree

LEMMA LogInvKept ==
    ASSUME LogInv, Grows, stable' \in stable .. End', UNCHANGED <<anchor, deleted, unsettled>>
    PROVE  LogInv'
<1>1. /\ End \in Nat /\ End' \in Nat /\ End <= End' /\ stable \in 2 .. End
      /\ anchor.begin \in 1 .. End /\ anchor.end \in 1 .. End
  BY Sizes, GrowsFacts
<1>2. log'[anchor.begin] = log[anchor.begin] /\ log'[anchor.end] = log[anchor.end]
  BY <1>1, GrowsFacts
<1>3. stable' \in 2 .. End' /\ 1 .. stable \subseteq 1 .. stable' /\ 0 .. stable \subseteq 0 .. stable'
  BY <1>1
<1>4. IsLog(log', End')
  BY DEF Grows
<1> QED
  BY <1>2, <1>3, <1>4 DEF LogInv, File

LEMMA DiskInvKept ==
    ASSUME LogInv, DiskInv, End' \in Nat, End <= End', stable' \in stable .. End',
           UNCHANGED <<mem, pages>>
    PROVE  DiskInv'
<1>1. 0 .. End \subseteq 0 .. End' /\ 0 .. stable \subseteq 0 .. stable'
      /\ 1 .. stable \subseteq 1 .. stable'
  BY Sizes
<1> QED
  BY <1>1 DEF DiskInv, pages

\* Slots are unchanged, and no transaction ends its commit or its abort.
LEMMA SlotInvKept ==
    ASSUME LogInv, SlotInv, Grows, UNCHANGED <<trans, nextId, owner>>,
           \A s \in Slot : /\ Ending(work, s) => Ending(work', s)
                           /\ Aborting(work, s) => Aborting(work', s)
    PROVE  SlotInv'
<1>1. IsLog(log, End) /\ IsLog(log', End') /\ End <= End' /\ Agree(log, log', End)
  BY DEF LogInv, Grows
<1>2. \A s \in Slot : SlotOk(log', End', trans[s], s, work')
  BY <1>1, SlotGrown DEF SlotInv
<1> QED
  BY <1>2 DEF SlotInv

\* The work is unchanged, and so is the slot it is about.
LEMMA WorkInvKept ==
    ASSUME LogInv, SlotInv, WorkInv, Grows, UNCHANGED work,
           work.op \in {"partial", "abort", "commit"} => trans'[work.slot] = trans[work.slot]
    PROVE  WorkInv'
<1>1. IsLog(log, End) /\ IsLog(log', End') /\ End <= End' /\ Agree(log, log', End)
  BY DEF LogInv, Grows
<1>2. ASSUME work.op \in {"partial", "abort", "commit"}
      PROVE  WorkOk(log', End', trans[work.slot], work)
  <2>1. work.slot \in Slot /\ WorkOk(log, End, trans[work.slot], work)
    BY <1>2 DEF WorkInv
  <2>2. trans[work.slot].last \in 0 .. End
    BY <2>1 DEF SlotInv, SlotOk
  <2> QED
    BY <1>1, <2>1, <2>2, WorkGrown
<1> QED
  BY <1>2 DEF WorkInv

\* The log is unchanged.
LEMMA GrowsSame ==
    ASSUME LogInv, UNCHANGED log
    PROVE  Grows /\ End' = End
BY SameLog DEF LogInv, Grows

\* A new database.
LEMMA Starts ==
    ASSUME Init
    PROVE  Inv
<1> USE RecoveryAssumption DEF Init
<1>1. log = <<BeginChkpt, EndChkpt([s \in Slot |-> NoEntry])>>
  OBVIOUS
<1>2. log \in Seq(Record) /\ Len(log) = 2 /\ log[1] = BeginChkpt
      /\ log[2] = EndChkpt([s \in Slot |-> NoEntry])
  <2>1. BeginChkpt \in Record /\ EndChkpt([s \in Slot |-> NoEntry]) \in Record
    BY DEF BeginChkpt, EndChkpt, Record, Table, Entry, NoEntry, LSN
  <2> HIDE DEF Init, Record, BeginChkpt, EndChkpt
  <2>2. log = <<BeginChkpt, EndChkpt([s \in Slot |-> NoEntry])>>
    BY <1>1
  <2> QED
    BY <2>1, <2>2
<1>3. End = 2
  BY <1>2, Zenon DEF End
<1> HIDE DEF Init
<1>4. LogInv
  <2>1. ~OfTrans(log[1]) /\ ~OfTrans(log[2]) /\ log[1].type = "BEGIN_CHKPT"
        /\ log[2].type = "END_CHKPT" /\ log[2].active = [s \in Slot |-> NoEntry]
    BY <1>2 DEF OfTrans, BeginChkpt, EndChkpt
  <2>2. TableOk(log, log[2].active, 2)
    BY <2>1 DEF TableOk, NoEntry
  <2>3. log[1] \in Record /\ log[2] \in Record
    BY <1>2, <1>3, ElementOfSeq
  <2>4. RecordOk(log, log[1], 1) /\ RecordOk(log, log[2], 2)
    BY <2>1, <2>2, <2>3 DEF RecordOk
  <2>5. GoodLog(log, End)
    BY <1>3, <2>4 DEF GoodLog
  <2>6. IsLog(log, End)
    BY <1>2, <1>3, <2>5 DEF IsLog
  <2>7. anchor = [begin |-> 1, end |-> 2] /\ deleted = 0 /\ stable = 2 /\ unsettled = 0
    BY DEF Init
  <2>8. deleted < File(anchor.begin)
    BY <2>7, Files
  <2> QED
    BY <1>3, <2>1, <2>6, <2>7, <2>8 DEF LogInv
<1>5. DiskInv
  <2>1. /\ mem = [i \in Items |-> 0] /\ dirty = {} /\ dirty0 = FALSE /\ gDirty = 0
        /\ db = [i \in Items |-> {0}] /\ anchorLSN = {1} /\ stable = 2
    BY DEF Init
  <2>2. {0} \in (SUBSET (0 .. stable)) \ {{}} /\ {1} \in (SUBSET (1 .. stable)) \ {{}}
    BY <2>1
  <2> QED
    BY <1>3, <2>1, <2>2 DEF DiskInv
<1>6. SlotInv
  <2>1. trans = [s \in Slot |-> NoTrans] /\ nextId = 1 /\ owner = [i \in Items |-> 0]
    BY DEF Init
  <2>2. NoTrans \in Trans
    BY DEF NoTrans, Trans, LSN
  <2>3. \A s \in Slot : SlotOk(log, End, NoTrans, s, work)
    BY <1>3 DEF SlotOk, NoTrans
  <2> QED
    BY <2>1, <2>2, <2>3 DEF SlotInv, Id
<1>7. WorkInv
  BY DEF WorkInv, Init, Idle, LSN
<1>8. StageInv
  BY DEF StageInv, Init, Idle
<1> QED
  BY <1>4, <1>5, <1>6, <1>7, <1>8 DEF Inv

-----------------------------------------------------------------------------
(* Steps that leave the log as it is *)

LEMMA PartialRollbackKeeps ==
    ASSUME Inv, NEW s \in Slot, PartialRollback(s)
    PROVE  Inv'
<1> USE DEF Inv
<1>1. /\ up /\ work = Idle /\ stage = "none" /\ trans[s].id # 0 /\ trans[s].save # NoSave
      /\ work' = [op |-> "partial", slot |-> s, next |-> trans[s].last]
      /\ UNCHANGED <<mem, pages, log, stable, anchor, deleted, trans, nextId, owner, stage, up, unsettled, crashes>>
  BY DEF PartialRollback, Free, Used, logs, life
<1>2. Grows /\ End' = End /\ End \in Nat /\ stable \in 2 .. End
  BY <1>1, GrowsSame, Sizes
<1>3. LogInv'
  BY <1>1, <1>2, LogInvKept
<1>4. DiskInv'
  BY <1>1, <1>2, DiskInvKept
<1>5. SlotInv'
  BY <1>1, <1>2, SlotInvKept DEF Idle, Ending, Aborting
<1>6. WorkInv'
  <2>1. SlotOk(log, End, trans[s], s, work) /\ trans[s] \in Trans
    BY DEF SlotInv
  <2>2. WorkOk(log, End, trans[s], work')
    BY <1>1, <1>2, <2>1 DEF SlotOk, WorkOk, RunsAt, Idle, Ending, Aborting
  <2>3. trans[s].last \in LSN
    BY <2>1 DEF Trans
  <2> QED
    BY <1>1, <1>2, <2>2, <2>3 DEF WorkInv
<1>7. StageInv'
  BY <1>1, <1>2 DEF StageInv
<1> QED
  BY <1>3, <1>4, <1>5, <1>6, <1>7

\* A slot that is given back, or has just been taken.
LEMMA FreshSlot ==
    ASSUME IsLog(log', End'), NEW s \in Slot, NEW id \in 0 .. MaxId - 1,
           id # 0 => id % MaxTrans = s
    PROVE  /\ [NoTrans EXCEPT !.id = id] \in Trans
           /\ SlotOk(log', End', [NoTrans EXCEPT !.id = id], s, work')
<1>1. End' \in Nat /\ MaxLog \in Nat
  BY LogFacts, RecoveryAssumption
<1> DEFINE t == [NoTrans EXCEPT !.id = id]
<1>2. t = [id |-> id, first |-> 0, last |-> 0, save |-> NoSave]
  BY DEF NoTrans
<1> HIDE DEF t
<1>3. t \in Trans
  BY <1>1, <1>2 DEF Trans, LSN
<1>4. t.id = 0 => t = NoTrans
  BY <1>2 DEF NoTrans
<1>5. SlotOk(log', End', t, s, work')
  BY <1>1, <1>2, <1>4 DEF SlotOk
<1> QED
  BY <1>3, <1>5 DEF t

LEMMA NoTransFree ==
    ASSUME IsLog(log', End'), NEW s \in Slot
    PROVE  NoTrans \in Trans /\ SlotOk(log', End', NoTrans, s, work')
<1>1. NoTrans \in Trans
  BY RecoveryAssumption DEF NoTrans, Trans, LSN
<1>2. End' \in Nat
  BY LogFacts
<1>3. NoTrans.id = 0 /\ NoTrans.first = 0 /\ NoTrans.last = 0 /\ NoTrans.save = NoSave
  BY DEF NoTrans
<1> QED
  BY <1>1, <1>2, <1>3 DEF SlotOk

LEMMA AbortKeeps ==
    ASSUME Inv, NEW s \in Slot, Abort(s)
    PROVE  Inv'
<1> USE DEF Inv
<1>1. /\ up /\ work = Idle /\ stage = "none" /\ trans[s].id # 0
      /\ work' = [op |-> "abort", slot |-> s, next |-> trans[s].last]
      /\ UNCHANGED <<mem, pages, log, stable, anchor, deleted, trans, nextId, owner, stage, up, unsettled, crashes>>
  BY DEF Abort, Free, Used, logs, life
<1>2. Grows /\ End' = End /\ End \in Nat /\ stable \in 2 .. End
  BY <1>1, GrowsSame, Sizes
<1>3. LogInv'
  BY <1>1, <1>2, LogInvKept
<1>4. DiskInv'
  BY <1>1, <1>2, DiskInvKept
<1>5. SlotInv'
  BY <1>1, <1>2, SlotInvKept DEF Idle, Ending, Aborting
<1>6. WorkInv'
  <2>1. SlotOk(log, End, trans[s], s, work) /\ trans[s] \in Trans
    BY DEF SlotInv
  <2>2. WorkOk(log, End, trans[s], work')
    BY <1>1, <1>2, <2>1 DEF SlotOk, WorkOk, RunsAt, Idle, Ending, Aborting
  <2>3. trans[s].last \in LSN
    BY <2>1 DEF Trans
  <2> QED
    BY <1>1, <1>2, <2>2, <2>3 DEF WorkInv
<1>7. StageInv'
  BY <1>1, <1>2 DEF StageInv
<1> QED
  BY <1>3, <1>4, <1>5, <1>6, <1>7

LEMMA EndPartialRollbackKeeps ==
    ASSUME Inv, EndPartialRollback
    PROVE  Inv'
<1> USE DEF Inv
<1> DEFINE s == work.slot
           t == [trans[s] EXCEPT !.save = NoSave]
<1>1. /\ up /\ work.op = "partial" /\ stage = "none" /\ work' = Idle
      /\ trans' = [trans EXCEPT ![s] = t]
      /\ UNCHANGED <<mem, pages, log, stable, anchor, deleted, nextId, owner, stage, up, unsettled, crashes>>
  BY DEF EndPartialRollback, Undoing, logs, life
<1>2. Grows /\ End' = End /\ End \in Nat /\ stable \in 2 .. End
  BY <1>1, GrowsSame, Sizes
<1>3. LogInv'
  BY <1>1, <1>2, LogInvKept
<1>4. DiskInv'
  BY <1>1, <1>2, DiskInvKept
<1>5. SlotInv'
  <2>1. s \in Slot /\ trans \in [Slot -> Trans]
    BY <1>1 DEF WorkInv, SlotInv
  <2>2. t \in Trans
    BY <2>1 DEF Trans
  <2>3. \A u \in Slot : SlotOk(log', End', trans[u], u, work')
    BY <1>1, <1>2, SlotGrown DEF LogInv, SlotInv, Grows, Idle, Ending, Aborting
  <2>4. SlotOk(log', End', t, s, work')
    <3>1. SlotOk(log', End', trans[s], s, work') /\ trans[s] \in Trans
      BY <2>1, <2>3
    <3>2. t.last = trans[s].last /\ t.first = trans[s].first /\ t.id = trans[s].id
          /\ t.save = NoSave /\ trans[s].id # 0
      BY <1>1, <2>1, <3>1 DEF Trans, WorkInv, WorkOk
    <3> HIDE DEF t
    <3> QED
      BY <3>1, <3>2 DEF SlotOk
  <2>5. trans' \in [Slot -> Trans] /\ \A u \in Slot : SlotOk(log', End', trans'[u], u, work')
    <3> HIDE DEF t, s
    <3> QED BY <1>1, <2>1, <2>2, <2>3, <2>4, OneSlot
  <2> QED
    BY <1>1, <2>5 DEF SlotInv
<1>6. WorkInv'
  BY <1>1, RecoveryAssumption DEF WorkInv, Idle, LSN
<1>7. StageInv'
  BY <1>1, <1>2 DEF StageInv
<1> QED
  BY <1>3, <1>4, <1>5, <1>6, <1>7

LEMMA EndCommitKeeps ==
    ASSUME Inv, EndCommit
    PROVE  Inv'
<1> USE DEF Inv
<1> DEFINE s == work.slot
<1>1. /\ up /\ work.op = "commit" /\ stage = "none" /\ work' = Idle
      /\ trans' = [trans EXCEPT ![s] = NoTrans]
      /\ stable' = IF trans[s].first = 0 THEN stable ELSE End
      /\ UNCHANGED <<mem, pages, log, anchor, deleted, nextId, owner, stage, up, unsettled, crashes>>
  BY DEF EndCommit, DelTrans, life
<1>2. Grows /\ End' = End /\ End \in Nat /\ stable \in 2 .. End
  BY <1>1, GrowsSame, Sizes
<1>3. LogInv'
  BY <1>1, <1>2, LogInvKept
<1>4. DiskInv'
  BY <1>1, <1>2, DiskInvKept
<1>5. SlotInv'
  <2>1. s \in Slot /\ trans \in [Slot -> Trans]
    BY <1>1 DEF WorkInv, SlotInv
  <2>2. \A u \in Slot \ {s} : SlotOk(log', End', trans[u], u, work')
    BY <1>1, <1>2, SlotGrown DEF LogInv, SlotInv, Grows, Idle, Ending, Aborting
  <2>3. SlotOk(log', End', NoTrans, s, work') /\ NoTrans \in Trans
    BY <1>2, <2>1, NoTransFree DEF Grows
  <2>4. trans' \in [Slot -> Trans] /\ \A u \in Slot : SlotOk(log', End', trans'[u], u, work')
    <3> HIDE DEF s
    <3> QED BY <1>1, <2>1, <2>2, <2>3, OneSlot
  <2> QED
    BY <1>1, <2>4 DEF SlotInv
<1>6. WorkInv'
  BY <1>1, RecoveryAssumption DEF WorkInv, Idle, LSN
<1>7. StageInv'
  BY <1>1, <1>2 DEF StageInv
<1> QED
  BY <1>3, <1>4, <1>5, <1>6, <1>7

LEMMA CheckpointPagesKeeps ==
    ASSUME Inv, CheckpointPages \/ CheckpointFails
    PROVE  Inv'
<1> USE DEF Inv
<1>1. /\ stage \in {"pages", "page0", "end"} /\ db' \in {WritePages(dirty), db} /\ dirty' \subseteq dirty
      /\ stage' \in {"page0", "delete"} /\ (stage' = "page0" => stage = "pages")
      /\ UNCHANGED <<mem, dirty0, gDirty, anchorLSN, log, stable, anchor, deleted, trans, nextId, owner, work, up, unsettled, crashes>>
  BY DEF CheckpointPages, CheckpointFails, logs, life
<1>2. Grows /\ End' = End /\ End \in Nat /\ stable \in 2 .. End /\ stable = End
  BY <1>1, GrowsSame, Sizes DEF StageInv
<1>3. LogInv'
  BY <1>1, <1>2, LogInvKept
<1>4. DiskInv'
  <2>1. \A i \in Items : db[i] \in (SUBSET (0 .. stable)) \ {{}} /\ mem[i] \in 0 .. stable
    BY <1>2 DEF DiskInv
  <2>2. db' \in [Items -> (SUBSET (0 .. stable)) \ {{}}]
    <3> DEFINE V == (SUBSET (0 .. stable)) \ {{}}
    <3>1. \A i \in Items : db[i] \in V /\ db[i] \cup {mem[i]} \in V
      BY <2>1
    <3> HIDE DEF V
    <3>2. WritePages(dirty) \in [Items -> V] /\ db \in [Items -> V]
      BY <3>1 DEF WritePages, DiskInv
    <3> QED
      BY <1>1, <3>2 DEF V
  <2> QED
    BY <1>1, <1>2, <2>2 DEF DiskInv
<1>5. SlotInv'
  BY <1>1, <1>2, SlotInvKept
<1>6. WorkInv'
  BY <1>1, <1>2, WorkInvKept
<1>7. StageInv'
  BY <1>1, <1>2 DEF StageInv
<1> QED
  BY <1>3, <1>4, <1>5, <1>6, <1>7

\* DBFile_Sync: only the last images remain.
LEMMA SyncedIsFlushed ==
    ASSUME DiskInv, stable = End
    PROVE  Synced \in [Items -> (SUBSET (0 .. stable)) \ {{}}]
<1> DEFINE V == (SUBSET (0 .. stable)) \ {{}}
<1>1. \A i \in Items : {mem[i]} \in V
  BY DEF DiskInv
<1> HIDE DEF V
<1>2. Synced \in [Items -> V]
  BY <1>1 DEF Synced
<1> QED
  BY <1>2 DEF V

LEMMA CheckpointPage0Keeps ==
    ASSUME Inv, CheckpointPage0
    PROVE  Inv'
<1> USE DEF Inv
<1>1. /\ stage = "page0" /\ db' \in {db, Synced} /\ anchorLSN' \in {anchorLSN, anchorLSN \cup {End}}
      /\ stage' = "end" /\ dirty0' = FALSE
      /\ UNCHANGED <<mem, dirty, gDirty, log, stable, anchor, deleted, trans, nextId, owner, work, up, unsettled, crashes>>
  BY DEF CheckpointPage0, logs, life
<1>2. Grows /\ End' = End /\ End \in Nat /\ stable \in 2 .. End /\ stable = End
  BY <1>1, GrowsSame, Sizes DEF StageInv
<1>3. LogInv'
  BY <1>1, <1>2, LogInvKept
<1>4. DiskInv'
  <2>1. db' \in [Items -> (SUBSET (0 .. stable)) \ {{}}]
    BY <1>1, <1>2, SyncedIsFlushed DEF DiskInv
  <2>2. anchorLSN' \in (SUBSET (1 .. stable)) \ {{}}
    BY <1>1, <1>2 DEF DiskInv
  <2> QED
    BY <1>1, <1>2, <2>1, <2>2 DEF DiskInv
<1>5. SlotInv'
  BY <1>1, <1>2, SlotInvKept
<1>6. WorkInv'
  BY <1>1, <1>2, WorkInvKept
<1>7. StageInv'
  BY <1>1, <1>2 DEF StageInv
<1> QED
  BY <1>3, <1>4, <1>5, <1>6, <1>7

LEMMA CheckpointAnchorKeeps ==
    ASSUME Inv, CheckpointAnchor
    PROVE  Inv'
<1> USE DEF Inv
<1>1. /\ stage = "anchor" /\ anchor' = [begin |-> End - 1, end |-> End] /\ gDirty' = gDirty - 1
      /\ stage' = "delete"
      /\ UNCHANGED <<mem, dirty, dirty0, db, anchorLSN, log, stable, deleted, trans, nextId, owner, work, up, unsettled, crashes>>
  BY DEF CheckpointAnchor, logs, life
<1>2. /\ Grows /\ End' = End /\ End \in Nat /\ stable \in 2 .. End /\ stable = End /\ gDirty > 0
      /\ log[End].type = "END_CHKPT" /\ log[End - 1].type = "BEGIN_CHKPT"
  BY <1>1, GrowsSame, Sizes DEF StageInv
<1>3. LogInv'
  <2>1. anchor.begin \in Nat \ {0} /\ End - 1 \in Nat \ {0} /\ anchor.begin <= End - 1
    BY <1>2 DEF LogInv
  <2>2. File(anchor.begin) <= File(End - 1) /\ File(anchor.begin) \in Nat /\ File(End - 1) \in Nat
    BY <2>1, Files
  <2>3. anchor'.begin = End - 1 /\ anchor'.end = End
        /\ anchor' \in [begin : 1 .. stable, end : 1 .. stable]
    BY <1>1, <1>2, <2>1
  <2>4. deleted \in Nat /\ deleted < File(End - 1)
    BY <2>2 DEF LogInv
  <2>5. File(anchor.begin)' = File(End - 1)
    BY <2>3 DEF File
  <2> QED
    BY <1>1, <1>2, <2>1, <2>3, <2>4, <2>5 DEF LogInv, Grows
<1>4. DiskInv'
  BY <1>1, <1>2 DEF DiskInv
<1>5. SlotInv'
  BY <1>1, <1>2, SlotInvKept
<1>6. WorkInv'
  BY <1>1, <1>2, WorkInvKept
<1>7. StageInv'
  BY <1>1, <1>2 DEF StageInv
<1> QED
  BY <1>3, <1>4, <1>5, <1>6, <1>7

LEMMA ReplaceBufferKeeps ==
    ASSUME Inv, NEW i \in Items, ReplaceBuffer(i)
    PROVE  Inv'
<1> USE DEF Inv
<1>1. /\ up /\ stage = "none" /\ stable' = End /\ db' = WritePages({i}) /\ dirty' = dirty \ {i}
      /\ UNCHANGED <<mem, dirty0, gDirty, anchorLSN, log, anchor, deleted, trans, nextId, owner, work, stage, up, unsettled, crashes>>
  BY DEF ReplaceBuffer, life
<1>2. Grows /\ End' = End /\ End \in Nat /\ stable \in 2 .. End
  BY <1>1, GrowsSame, Sizes
<1>3. LogInv'
  BY <1>1, <1>2, LogInvKept
<1>4. DiskInv'
  <2> DEFINE V == (SUBSET (0 .. End)) \ {{}}
  <2>1. 0 .. stable \subseteq 0 .. End /\ 1 .. stable \subseteq 1 .. End
    BY <1>2
  <2>2. \A j \in Items : db[j] \in V /\ db[j] \cup {mem[j]} \in V
    BY <2>1 DEF DiskInv
  <2>3. WritePages({i}) \in [Items -> V]
    <3> HIDE DEF V
    <3> QED BY <2>2 DEF WritePages
  <2>4. anchorLSN \in (SUBSET (1 .. End)) \ {{}}
    BY <2>1 DEF DiskInv
  <2> QED
    BY <1>1, <1>2, <2>3, <2>4 DEF DiskInv
<1>5. SlotInv'
  BY <1>1, <1>2, SlotInvKept
<1>6. WorkInv'
  BY <1>1, <1>2, WorkInvKept
<1>7. StageInv'
  BY <1>1, <1>2 DEF StageInv
<1> QED
  BY <1>3, <1>4, <1>5, <1>6, <1>7

LEMMA FirstNeeded ==
    ASSUME Inv
    PROVE  FirstNeededFile \in Nat \ {0} /\ FirstNeededFile <= File(anchor.begin)
<1> DEFINE S == {File(stable), File(anchor.begin)}
                \cup {File(trans[s].first) : s \in {x \in Slot : trans[x].first # 0}}
<1>1. stable \in Nat \ {0} /\ anchor.begin \in Nat \ {0}
  BY Sizes DEF Inv
<1>2. \A s \in Slot : trans[s].first # 0 => trans[s].first \in Nat \ {0}
  BY DEF Inv, SlotInv, SlotOk
<1>3. \A n \in Nat \ {0} : File(n) \in Nat \ {0}
  BY Files
<1> HIDE DEF Slot
<1>4. S \subseteq Nat \ {0} /\ File(anchor.begin) \in S
  BY <1>1, <1>2, <1>3
<1>5. FirstNeededFile = Min(S)
  BY DEF FirstNeededFile
<1> HIDE DEF S
<1>6. Min(S) \in S /\ \A x \in S : Min(S) <= x
  BY <1>4, MinIs
<1> QED
  BY <1>4, <1>5, <1>6

LEMMA DeleteLogFilesKeeps ==
    ASSUME Inv, DeleteLogFiles
    PROVE  Inv'
<1> USE DEF Inv
<1>1. /\ stage = "delete" /\ deleted' = Max({deleted, FirstNeededFile - 1})
      /\ stage' = "none" /\ work' = IF work.op = "restart" THEN Idle ELSE work
      /\ UNCHANGED <<mem, pages, log, stable, anchor, trans, nextId, owner, up, unsettled, crashes>>
  BY DEF DeleteLogFiles, life
<1>2. Grows /\ End' = End /\ End \in Nat /\ stable \in 2 .. End
  BY <1>1, GrowsSame, Sizes
<1>3. LogInv'
  <2>1. FirstNeededFile - 1 \in Nat /\ FirstNeededFile - 1 < File(anchor.begin)
        /\ deleted \in Nat /\ deleted < File(anchor.begin) /\ File(anchor.begin) \in Nat
    BY FirstNeeded, Sizes, Files DEF LogInv
  <2>2. deleted' \in {deleted, FirstNeededFile - 1}
    <3> DEFINE S == {deleted, FirstNeededFile - 1}
    <3>1. S \subseteq Nat /\ S # {} /\ \A x \in S : x <= File(anchor.begin)
      BY <2>1
    <3> HIDE DEF S
    <3>2. Max(S) \in S
      BY <2>1, <3>1, MaxIs
    <3> QED
      BY <1>1, <3>2 DEF S
  <2>3. deleted' \in Nat /\ deleted' < File(anchor.begin)
    BY <2>1, <2>2
  <2>4. File(anchor.begin)' = File(anchor.begin)
    BY <1>1 DEF File
  <2> QED
    BY <1>1, <1>2, <2>3, <2>4 DEF LogInv, Grows
<1>4. DiskInv'
  BY <1>1, <1>2, DiskInvKept
<1>5. SlotInv'
  BY <1>1, <1>2, SlotInvKept DEF Ending, Aborting
<1>6. WorkInv'
  <2>1. CASE work.op = "restart"
    BY <1>1, <2>1, RecoveryAssumption DEF WorkInv, Idle, LSN
  <2>2. CASE work.op # "restart"
    BY <1>1, <1>2, <2>2, WorkInvKept
  <2> QED
    BY <2>1, <2>2
<1>7. StageInv'
  BY <1>1, <1>2 DEF StageInv, Idle
<1> QED
  BY <1>3, <1>4, <1>5, <1>6, <1>7

-----------------------------------------------------------------------------
(* A transaction begins *)

LEMMA NextIds ==
    ASSUME NEW n \in 0 .. MaxId - 1
    PROVE  SetNextTransID(n) \in Id
BY RecoveryAssumption DEF SetNextTransID, Id

\* The ids that Begin tries.
LEMMA IdsTried ==
    ASSUME nextId \in Id
    PROVE  \A j \in 0 .. MaxTrans : IdAt[j] \in Id
<1> DEFINE p == [j \in 0 .. MaxTrans |-> j - 1]
           G == [j \in 0 .. MaxTrans |-> [n \in Id |-> SetNextTransID(n)]]
           Solves(h) == h = [j \in 0 .. MaxTrans |->
                               IF j = 0 THEN nextId ELSE SetNextTransID(h[j - 1])]
<1>1. RecursionOn(0, MaxTrans, Id, nextId, p, G)
  BY RecoveryAssumption, NextIds DEF RecursionOn, Id
<1>2. PICK f \in [0 .. MaxTrans -> Id] :
        f[0] = nextId /\ \A j \in 0 .. MaxTrans : j # 0 => f[j] = G[j][f[p[j]]]
  <2> HIDE DEF p, G
  <2> QED
    BY <1>1, RecursiveFunction
<1>3. \A j \in 0 .. MaxTrans : f[j] = IF j = 0 THEN nextId ELSE SetNextTransID(f[j - 1])
  <2> TAKE j \in 0 .. MaxTrans
  <2>1. CASE j = 0
    BY <2>1, <1>2
  <2>2. CASE j # 0
    <3>1. j - 1 \in 0 .. MaxTrans /\ f[j - 1] \in Id
      BY <2>2, RecoveryAssumption
    <3>2. f[j] = G[j][f[p[j]]] /\ p[j] = j - 1
      BY <2>2, <1>2
    <3> QED
      BY <2>2, <3>1, <3>2
  <2> QED
    BY <2>1, <2>2
<1>4. Solves(f)
  BY <1>3
<1> DEFINE g == CHOOSE h : Solves(h)
<1>5. Solves(g)
  <2> HIDE DEF Solves
  <2> QED
    BY <1>4
<1>6. IdAt = g
  BY DEF IdAt
<1> DEFINE T == {j \in 0 .. MaxTrans : g[j] \in Id}
<1>7. \A j \in 0 .. MaxTrans : g[j] = IF j = 0 THEN nextId ELSE SetNextTransID(g[j - 1])
  <2> HIDE DEF g
  <2> QED BY <1>5
<1> HIDE DEF g
<1>8. ASSUME NEW j \in 0 .. MaxTrans, \A m \in 0 .. j - 1 : m \in T PROVE j \in T
  <2>1. CASE j = 0
    BY <2>1, <1>7
  <2>2. CASE j # 0
    <3>1. j - 1 \in 0 .. j - 1 /\ j - 1 \in 0 .. MaxTrans
      BY <2>2, RecoveryAssumption
    <3>2. g[j - 1] \in Id
      BY <3>1, <1>8
    <3>3. g[j] = SetNextTransID(g[j - 1]) /\ g[j - 1] \in 0 .. MaxId - 1
      BY <3>2, <2>2, <1>7 DEF Id
    <3> QED
      BY <3>3, NextIds
  <2> QED
    BY <2>1, <2>2
<1>9. 0 .. MaxTrans \subseteq T
  <2>1. MaxTrans \in Nat
    BY RecoveryAssumption
  <2> HIDE DEF T
  <2> QED BY <1>8, <2>1, Induction
<1> QED
  BY <1>6, <1>9

LEMMA BeginKeeps ==
    ASSUME Inv, Begin
    PROVE  Inv'
<1> USE DEF Inv
<1> DEFINE tries == {j \in 0 .. MaxTrans : FreeId(IdAt[j])}
           id == IdAt[Min(tries)]
           s == id % MaxTrans
           t == [NoTrans EXCEPT !.id = id]
<1>1. /\ up /\ work = Idle /\ stage = "none" /\ tries # {}
      /\ trans' = [trans EXCEPT ![s] = t] /\ nextId' = SetNextTransID(id)
      /\ UNCHANGED <<mem, pages, log, stable, anchor, deleted, owner, work, stage, up, unsettled, crashes>>
  BY DEF Begin, Free, logs, life
<1>2. Grows /\ End' = End /\ End \in Nat /\ stable \in 2 .. End
  BY <1>1, GrowsSame, Sizes
<1>3. LogInv'
  BY <1>1, <1>2, LogInvKept
<1>4. DiskInv'
  BY <1>1, <1>2, DiskInvKept
<1>5. id \in Id /\ s \in Slot /\ trans[s].id = 0
  <2>1. Min(tries) \in tries
    <3>1. tries \subseteq Nat
      OBVIOUS
    <3> HIDE DEF tries
    <3> QED
      BY <1>1, <3>1, MinIs
  <2>2. id \in Id
    BY <2>1, IdsTried DEF SlotInv
  <2>3. FreeId(id)
    BY <2>1
  <2> HIDE DEF tries, id
  <2> QED
    BY <2>2, <2>3, SlotOfId DEF Id, FreeId, Used
<1>6. SlotInv'
  <2> HIDE DEF tries, id
  <2>1. trans \in [Slot -> Trans]
    BY DEF SlotInv
  <2>2. \A u \in Slot : SlotOk(log', End', trans[u], u, work')
    BY <1>1, <1>2, SlotGrown DEF LogInv, SlotInv, Grows
  <2>3. t \in Trans /\ SlotOk(log', End', t, s, work')
    <3>1. id \in 0 .. MaxId - 1
      BY <1>5 DEF Id
    <3> QED
      BY <1>2, <1>5, <3>1, FreshSlot DEF Grows
  <2>4. trans' \in [Slot -> Trans] /\ \A u \in Slot : SlotOk(log', End', trans'[u], u, work')
    <3> HIDE DEF t, s
    <3> QED BY <1>1, <1>5, <2>1, <2>2, <2>3, OneSlot
  <2>5. nextId' \in Id
    BY <1>1, <1>5, NextIds DEF Id
  <2> QED
    BY <1>1, <2>4, <2>5 DEF SlotInv
<1>7. WorkInv'
  BY <1>1 DEF WorkInv, Idle
<1>8. StageInv'
  BY <1>1, <1>2 DEF StageInv
<1> QED
  BY <1>3, <1>4, <1>6, <1>7, <1>8

-----------------------------------------------------------------------------
(* Steps that write one record *)

LEMMA ChainOfNew ==
    ASSUME NEW L, NEW N, IsLog(L, N), NEW M, NEW K, IsLog(M, K), N < K, Agree(L, M, N),
           OfTrans(M[N + 1]), M[N + 1].prev \in 0 .. N
    PROVE  ChainIn(M, K, N + 1) = {N + 1} \cup ChainIn(L, N, M[N + 1].prev)
<1>1. N \in Nat /\ K \in Nat /\ N + 1 \in 1 .. K /\ N <= K
  BY LogFacts
<1>2. ChainIn(M, K, N + 1) = {N + 1} \cup ChainIn(M, K, M[N + 1].prev)
  BY <1>1, LogFacts
<1> QED
  BY <1>1, <1>2, ChainGrown

LEMMA LoggedFields ==
    ASSUME trans \in [Slot -> Trans], NEW s \in Slot, NEW recs, NEW n \in LSN, n = End + Len(recs),
           End + 1 \in LSN
    PROVE  LET t == Logged(s, recs) IN
           /\ t \in Trans /\ t.id = trans[s].id /\ t.last = n /\ t.save = trans[s].save
           /\ t.first = IF trans[s].first = 0 THEN End + 1 ELSE trans[s].first
<1>1. trans[s] \in Trans
  OBVIOUS
<1>2. Logged(s, recs) = [trans[s] EXCEPT !.last = n, !.first = IF @ = 0 THEN End + 1 ELSE @]
  BY Zenon DEF Logged
<1> QED
  BY <1>1, <1>2 DEF Trans

LEMMA OneIsOne == \A r : Len(<<r>>) = 1
OBVIOUS

LEMMA OnePlusOne ==
    ASSUME NEW q, NEW r
    PROVE  <<q>> \o <<r>> = <<q, r>>
<1> DEFINE S == {q, r}
<1>1. /\ <<q>> \in Seq(S) /\ <<r>> \in Seq(S) /\ <<q, r>> \in Seq(S)
      /\ Len(<<q>>) = 1 /\ Len(<<r>>) = 1 /\ Len(<<q, r>>) = 2
      /\ <<q>>[1] = q /\ <<r>>[1] = r /\ <<q, r>>[1] = q /\ <<q, r>>[2] = r
  OBVIOUS
<1> HIDE DEF S
<1>2. /\ <<q>> \o <<r>> \in Seq(S) /\ Len(<<q>> \o <<r>>) = Len(<<q>>) + Len(<<r>>)
      /\ \A i \in 1 .. Len(<<q>>) + Len(<<r>>) :
            (<<q>> \o <<r>>)[i] = IF i <= Len(<<q>>) THEN <<q>>[i] ELSE <<r>>[i - Len(<<q>>)]
  BY <1>1, ConcatProperties, Zenon
<1>3. Len(<<q>> \o <<r>>) = 2 /\ \A i \in 1 .. 2 : (<<q>> \o <<r>>)[i] = <<q, r>>[i]
  BY <1>1, <1>2
<1> QED
  BY <1>1, <1>2, <1>3, SeqEqual

LEMMA TwoIsTwo == \A q, r : Len(<<q, r>>) = 2
OBVIOUS

\* A slot after its transaction has written a record that goes on from record
\* p, which is its last record or an earlier one.
LEMMA SlotWrites ==
    ASSUME LogInv, Grows, End' = End + 1, NEW s \in Slot, NEW t, SlotOk(log, End, t, s, work),
           t.last # 0,
           OfTrans(log'[End']), log'[End'].trans = t.id, log'[End'].prev \in 0 .. t.last,
           log'[End'].type \in Ends => Ending(work', s),
           \/ t.save \in {NoSave, 0} \cup ChainIn(log, End, log'[End'].prev)
           \/ Aborting(work', s),
           NEW u, u.id = t.id, u.last = End', u.first = t.first, u.save = t.save
    PROVE  SlotOk(log', End', u, s, work')
<1>1. End \in Nat /\ t.last \in 0 .. End /\ IsLog(log, End) /\ IsLog(log', End') /\ Agree(log, log', End)
  BY Sizes DEF SlotOk, LogInv, Grows
<1>2. ChainIn(log', End', End') = {End'} \cup ChainIn(log, End, log'[End'].prev)
  <2>1. End < End' /\ log'[End'].prev \in 0 .. End
    BY <1>1
  <2> QED
    BY <1>1, <2>1, ChainOfNew
<1>3. t.first # 0 /\ t.id # 0
  BY DEF SlotOk, NoTrans
<1>4. u.save \in {NoSave, 0} \cup ChainIn(log', End', u.last) \/ Aborting(work', s)
  BY <1>2
<1> QED
  BY <1>1, <1>3, <1>4 DEF SlotOk

\* The records that end a transaction.
LEMMA EndRecordOk ==
    ASSUME Inv, NEW s \in Slot, trans[s].last # 0, ~Ending(work, s), NEW type \in Ends
    PROVE  LET r == TransRec(type, s, trans[s].last) IN
           /\ RecordOk(log, r, End + 1) /\ OfTrans(r)
           /\ r.type = type /\ r.trans = trans[s].id /\ r.prev = trans[s].last
<1> USE DEF Inv
<1> DEFINE t == trans[s]
           r == TransRec(type, s, t.last)
<1>1. SlotOk(log, End, t, s, work) /\ t \in Trans
  BY DEF SlotInv
<1>2. RunsAt(log, t.last, t.id) /\ t.last \in 1 .. End /\ t.id \in Id /\ t.id % MaxTrans # 0
  BY <1>1 DEF SlotOk, RunsAt, NoTrans, Trans, Id, Slot
<1>3. r = [type |-> type, trans |-> t.id, prev |-> t.last]
  BY DEF TransRec
<1>4. t.last \in LSN /\ End \in Nat
  BY <1>2, Sizes
<1>5. r \in Record
  BY <1>2, <1>3, <1>4 DEF Record
<1>6. OfTrans(r) /\ r.type # "END_CHKPT" /\ r.type # "TRANS_BEGIN" /\ r.type # "UPDATE"
      /\ r.type # "COMPENSATION"
  BY <1>3 DEF OfTrans, Ends
<1>7. r.type = type /\ r.trans = t.id /\ r.prev = t.last
  BY <1>3
<1> HIDE DEF r
<1>8. LinkOk(log, r, End + 1)
  BY <1>2, <1>4, <1>6, <1>7 DEF LinkOk, RunsAt
<1> QED
  BY <1>5, <1>6, <1>7, <1>8 DEF RecordOk, r

LEMMA CommitKeeps ==
    ASSUME Inv, NEW s \in Slot, Commit(s)
    PROVE  Inv'
<1> USE DEF Inv
<1> DEFINE r == TransRec("TRANS_COMMIT", s, trans[s].last)
<1>1. /\ up /\ work = Idle /\ stage = "none" /\ trans[s].id # 0
      /\ \/ trans[s].first = 0 /\ UNCHANGED <<log, trans>>
         \/ /\ trans[s].first # 0 /\ WriteLog(<<r>>)
            /\ trans' = [trans EXCEPT ![s] = Logged(s, <<r>>)]
      /\ owner' = [i \in Items |-> IF owner[i] = s THEN 0 ELSE owner[i]]
      /\ work' = [op |-> "commit", slot |-> s, next |-> 0]
      /\ UNCHANGED <<mem, pages, stable, anchor, deleted, nextId, stage, up, unsettled, crashes>>
  BY DEF Commit, Free, Used, Unlock, life
<1>2. trans \in [Slot -> Trans] /\ SlotOk(log, End, trans[s], s, work) /\ trans[s] \in Trans
      /\ owner \in [Items -> Slot \cup {0}] /\ nextId \in Id
  BY DEF SlotInv
<1>3. End \in Nat /\ stable \in 2 .. End
  BY Sizes
<1>4. /\ Grows /\ stable' \in stable .. End'
      /\ trans' \in [Slot -> Trans] /\ trans'[s].id = trans[s].id
      /\ \A u \in Slot : SlotOk(log', End', trans'[u], u, work')
  <2>1. CASE trans[s].first = 0
    <3>1. Grows /\ End' = End
      BY <1>1, <2>1, GrowsSame
    <3>2. \A u \in Slot : SlotOk(log', End', trans[u], u, work')
      BY <1>1, <3>1, SlotGrown DEF LogInv, SlotInv, Grows, Idle, Ending, Aborting
    <3> QED
      BY <1>1, <1>2, <1>3, <2>1, <3>1, <3>2
  <2>2. CASE trans[s].first # 0
    <3>1. trans[s].last # 0 /\ ~Ending(work, s) /\ "TRANS_COMMIT" \in Ends
      BY <1>1, <1>2, <2>2 DEF SlotOk, Ending, Idle, Ends
    <3>2. /\ RecordOk(log, r, End + 1) /\ OfTrans(r)
          /\ r.type = "TRANS_COMMIT" /\ r.trans = trans[s].id /\ r.prev = trans[s].last
      BY <3>1, EndRecordOk
    <3> HIDE DEF r
    <3>3. IsLog(log', End') /\ End' = End + 1 /\ Agree(log, log', End) /\ log'[End + 1] = r
      BY <1>1, <2>2, <3>2, WriteOne DEF LogInv
    <3>4. Grows /\ End' \in LSN
      <4>1. End' <= MaxLog
        BY <3>3, LogFacts
      <4> QED
        BY <1>3, <3>3, <4>1 DEF Grows, LSN
    <3> DEFINE t == Logged(s, <<r>>)
    <3>5. t \in Trans /\ t.id = trans[s].id /\ t.last = End' /\ t.save = trans[s].save
          /\ t.first = trans[s].first
      <4>1. End' = End + Len(<<r>>) /\ End + 1 \in LSN
        BY <3>3, <3>4, OneIsOne
      <4>2. /\ t \in Trans /\ t.id = trans[s].id /\ t.last = End' /\ t.save = trans[s].save
            /\ t.first = IF trans[s].first = 0 THEN End + 1 ELSE trans[s].first
        BY <1>2, <3>4, <4>1, LoggedFields, Zenon
      <4> HIDE DEF t
      <4> QED
        BY <2>2, <4>2
    <3> HIDE DEF t
    <3>6. \A u \in Slot \ {s} : SlotOk(log', End', trans[u], u, work')
      BY <1>1, <3>4, SlotGrown DEF LogInv, SlotInv, Grows, Idle, Ending, Aborting
    <3>7. SlotOk(log', End', t, s, work')
      <4>1. log'[End'] = r /\ trans[s].last \in 0 .. trans[s].last
        BY <1>2, <3>3 DEF SlotOk
      <4>2. Ending(work', s) /\ ~Aborting(work, s)
        BY <1>1 DEF Ending, Aborting, Idle
      <4>3. trans[s].save \in {NoSave, 0} \cup ChainIn(log, End, log'[End'].prev)
        BY <1>2, <3>2, <4>1, <4>2 DEF SlotOk
      <4> QED
        BY <1>2, <3>1, <3>2, <3>3, <3>4, <3>5, <4>1, <4>2, <4>3, SlotWrites
    <3>8. trans' \in [Slot -> Trans] /\ \A u \in Slot : SlotOk(log', End', trans'[u], u, work')
      BY <1>1, <1>2, <2>2, <3>5, <3>6, <3>7, OneSlot DEF t
    <3>9. trans'[s].id = trans[s].id
      BY <1>1, <1>2, <2>2, <3>5 DEF t
    <3>10. stable' \in stable .. End'
      BY <1>1, <1>3, <3>3
    <3> QED
      BY <3>4, <3>8, <3>9, <3>10
  <2> QED
    BY <2>1, <2>2
<1>5. LogInv'
  BY <1>1, <1>4, LogInvKept
<1>6. DiskInv'
  BY <1>1, <1>4, GrowsFacts, DiskInvKept
<1>7. SlotInv'
  BY <1>1, <1>2, <1>4 DEF SlotInv
<1>8. WorkInv'
  BY <1>1, <1>2, <1>4, RecoveryAssumption DEF WorkInv, WorkOk, LSN
<1>9. StageInv'
  BY <1>1 DEF StageInv
<1> QED
  BY <1>5, <1>6, <1>7, <1>8, <1>9

LEMMA EndAbortKeeps ==
    ASSUME Inv, EndAbort
    PROVE  Inv'
<1> USE DEF Inv
<1> DEFINE s == work.slot
           r == TransRec("TRANS_ABORT", s, trans[s].last)
<1>1. /\ up /\ work.op = "abort" /\ stage = "none" /\ work' = Idle
      /\ \/ trans[s].last = 0 /\ UNCHANGED log
         \/ trans[s].last # 0 /\ WriteLog(<<r>>)
      /\ trans' = [trans EXCEPT ![s] = NoTrans]
      /\ owner' = [i \in Items |-> IF owner[i] = s THEN 0 ELSE owner[i]]
      /\ UNCHANGED <<mem, pages, stable, anchor, deleted, nextId, stage, up, unsettled, crashes>>
  BY DEF EndAbort, Undoing, Unlock, DelTrans, life
<1>2. s \in Slot /\ trans \in [Slot -> Trans] /\ owner \in [Items -> Slot \cup {0}] /\ nextId \in Id
  BY <1>1 DEF WorkInv, SlotInv
<1>3. End \in Nat /\ stable \in 2 .. End
  BY Sizes
<1>4. Grows /\ stable' \in stable .. End'
  <2>1. CASE trans[s].last = 0
    BY <1>1, <1>3, <2>1, GrowsSame
  <2>2. CASE trans[s].last # 0
    <3>1. ~Ending(work, s) /\ "TRANS_ABORT" \in Ends
      BY <1>1 DEF Ending, Ends
    <3>2. RecordOk(log, r, End + 1)
      BY <1>2, <2>2, <3>1, EndRecordOk
    <3> HIDE DEF r
    <3>3. IsLog(log', End') /\ End' = End + 1 /\ Agree(log, log', End)
      BY <1>1, <2>2, <3>2, WriteOne DEF LogInv
    <3> QED
      BY <1>1, <1>3, <3>3 DEF Grows
  <2> QED
    BY <2>1, <2>2
<1>5. LogInv'
  BY <1>1, <1>4, LogInvKept
<1>6. DiskInv'
  BY <1>1, <1>4, GrowsFacts, DiskInvKept
<1>7. SlotInv'
  <2>1. \A u \in Slot \ {s} : SlotOk(log', End', trans[u], u, work')
    BY <1>1, <1>4, SlotGrown DEF LogInv, SlotInv, Grows, Idle, Ending, Aborting
  <2>2. SlotOk(log', End', NoTrans, s, work') /\ NoTrans \in Trans
    BY <1>2, <1>4, NoTransFree DEF Grows
  <2>3. trans' \in [Slot -> Trans] /\ \A u \in Slot : SlotOk(log', End', trans'[u], u, work')
    <3> HIDE DEF s
    <3> QED BY <1>1, <1>2, <2>1, <2>2, OneSlot
  <2> QED
    BY <1>1, <1>2, <2>3 DEF SlotInv
<1>8. WorkInv'
  BY <1>1, RecoveryAssumption DEF WorkInv, Idle, LSN
<1>9. StageInv'
  BY <1>1 DEF StageInv
<1> QED
  BY <1>5, <1>6, <1>7, <1>8, <1>9

\* A record of a checkpoint.
LEMMA BeginChkptOk ==
    ASSUME LogInv
    PROVE  RecordOk(log, BeginChkpt, End + 1) /\ BeginChkpt.type = "BEGIN_CHKPT"
BY DEF RecordOk, BeginChkpt, Record, OfTrans

LEMMA EndChkptOk ==
    ASSUME Inv, work.op # "commit"
    PROVE  RecordOk(log, EndChkpt(Active), End + 1) /\ EndChkpt(Active).type = "END_CHKPT"
<1> USE DEF Inv
<1>1. \A s \in Slot : /\ SlotOk(log, End, trans[s], s, work) /\ ~Ending(work, s)
                      /\ trans[s] \in Trans
  BY DEF SlotInv, Ending
<1>2. \A s \in Slot : Active[s].id = trans[s].id /\ Active[s].last = trans[s].last
  BY DEF Active
<1>3. Active \in Table
  BY <1>1 DEF Active, Table, Entry, Trans
<1>4. End \in Nat
  BY Sizes
<1>5. TableOk(log, Active, End + 1)
  <2> SUFFICES ASSUME NEW s \in Slot
               PROVE  LET e == Active[s] IN
                      /\ e.last \in 0 .. (End + 1) - 1
                      /\ e.id # 0 => e.id % MaxTrans = s
                      /\ e.id = 0 => e.last = 0
                      /\ e.last # 0 => /\ OfTrans(log[e.last]) /\ log[e.last].trans = e.id
                                       /\ log[e.last].type \notin Ends
    BY DEF TableOk
  <2>1. Active[s].id = trans[s].id /\ Active[s].last = trans[s].last
    BY <1>2
  <2> QED
    BY <1>1, <1>4, <2>1 DEF SlotOk, NoTrans
<1>6. EndChkpt(Active) = [type |-> "END_CHKPT", active |-> Active]
  BY DEF EndChkpt
<1>7. EndChkpt(Active) \in Record
  BY <1>3, <1>6 DEF Record
<1>8. ~OfTrans(EndChkpt(Active)) /\ EndChkpt(Active).active = Active
      /\ EndChkpt(Active).type = "END_CHKPT"
  BY <1>6 DEF OfTrans
<1> QED
  BY <1>5, <1>7, <1>8 DEF RecordOk

\* A checkpoint begins, or only deletes log files.
LEMMA CheckpointStarts ==
    ASSUME LogInv, StartCheckpoint \/ SkipCheckpoint
    PROVE  /\ Grows /\ stable' \in stable .. End' /\ stage' \in {"pages", "delete"}
           /\ stage' = "pages" => stable' = End' /\ log'[End'].type = "BEGIN_CHKPT" /\ gDirty > 0
<1>1. End \in Nat /\ stable \in 2 .. End
  BY Sizes
<1>2. CASE StartCheckpoint
  <2>1. /\ WriteLog(<<BeginChkpt>>) /\ stable' = End + 1 /\ stage' = "pages" /\ gDirty > 0
    BY <1>2 DEF StartCheckpoint
  <2>2. /\ IsLog(log', End') /\ End' = End + 1 /\ Agree(log, log', End)
        /\ log'[End + 1] = BeginChkpt /\ BeginChkpt.type = "BEGIN_CHKPT"
    BY <2>1, BeginChkptOk, WriteOne DEF LogInv
  <2> QED
    BY <1>1, <2>1, <2>2 DEF Grows
<1>3. CASE SkipCheckpoint
  <2>1. stage' = "delete" /\ UNCHANGED <<log, stable>>
    BY <1>3 DEF SkipCheckpoint
  <2> QED
    BY <1>1, <2>1, GrowsSame
<1> QED
  BY <1>2, <1>3

LEMMA CheckpointAtCommitKeeps ==
    ASSUME Inv, CheckpointAtCommit
    PROVE  Inv'
<1> USE DEF Inv
<1> DEFINE s == work.slot
<1>1. /\ up /\ work.op = "commit" /\ stage = "none" /\ work' = Idle
      /\ StartCheckpoint \/ SkipCheckpoint
      /\ trans' = [trans EXCEPT ![s] = NoTrans]
      /\ UNCHANGED <<mem, pages, anchor, deleted, nextId, owner, up, unsettled, crashes>>
  BY DEF CheckpointAtCommit, DelTrans, life
<1>2. /\ Grows /\ stable' \in stable .. End' /\ stage' \in {"pages", "delete"}
      /\ stage' = "pages" => stable' = End' /\ log'[End'].type = "BEGIN_CHKPT" /\ gDirty > 0
  BY <1>1, CheckpointStarts
<1>3. LogInv'
  BY <1>1, <1>2, LogInvKept
<1>4. DiskInv'
  BY <1>1, <1>2, GrowsFacts, DiskInvKept
<1>5. SlotInv'
  <2>1. s \in Slot /\ trans \in [Slot -> Trans]
    BY <1>1 DEF WorkInv, SlotInv
  <2>2. \A u \in Slot \ {s} : SlotOk(log', End', trans[u], u, work')
    BY <1>1, <1>2, SlotGrown DEF LogInv, SlotInv, Grows, Idle, Ending, Aborting
  <2>3. SlotOk(log', End', NoTrans, s, work') /\ NoTrans \in Trans
    BY <1>2, <2>1, NoTransFree DEF Grows
  <2>4. trans' \in [Slot -> Trans] /\ \A u \in Slot : SlotOk(log', End', trans'[u], u, work')
    <3> HIDE DEF s
    <3> QED BY <1>1, <2>1, <2>2, <2>3, OneSlot
  <2> QED
    BY <1>1, <2>4 DEF SlotInv
<1>6. WorkInv'
  BY <1>1, RecoveryAssumption DEF WorkInv, Idle, LSN
<1>7. StageInv'
  BY <1>1, <1>2 DEF StageInv, Idle, pages
<1> QED
  BY <1>3, <1>4, <1>5, <1>6, <1>7

LEMMA CheckpointKeeps ==
    ASSUME Inv, Checkpoint
    PROVE  Inv'
<1> USE DEF Inv
<1>1. /\ up /\ work.op # "commit" /\ stage = "none"
      /\ StartCheckpoint \/ SkipCheckpoint
      /\ UNCHANGED <<mem, pages, anchor, deleted, trans, nextId, owner, work, up, unsettled, crashes>>
  BY DEF Checkpoint, life
<1>2. /\ Grows /\ stable' \in stable .. End' /\ stage' \in {"pages", "delete"}
      /\ stage' = "pages" => stable' = End' /\ log'[End'].type = "BEGIN_CHKPT" /\ gDirty > 0
  BY <1>1, CheckpointStarts
<1>3. LogInv'
  BY <1>1, <1>2, LogInvKept
<1>4. DiskInv'
  BY <1>1, <1>2, GrowsFacts, DiskInvKept
<1>5. SlotInv'
  BY <1>1, <1>2, SlotInvKept
<1>6. WorkInv'
  BY <1>1, <1>2, WorkInvKept
<1>7. StageInv'
  BY <1>1, <1>2 DEF StageInv, pages
<1> QED
  BY <1>3, <1>4, <1>5, <1>6, <1>7

LEMMA CheckpointEndKeeps ==
    ASSUME Inv, CheckpointEnd
    PROVE  Inv'
<1> USE DEF Inv
<1>1. /\ stage = "end" /\ db' = Synced /\ anchorLSN' = {Max(anchorLSN)}
      /\ WriteLog(<<EndChkpt(Active)>>) /\ stable' = End + 1 /\ stage' = "anchor"
      /\ UNCHANGED <<mem, dirty, dirty0, gDirty, anchor, deleted, trans, nextId, owner, work, up, unsettled, crashes>>
  BY DEF CheckpointEnd, life
<1>2. End \in Nat /\ stable \in 2 .. End /\ stable = End /\ log[End].type = "BEGIN_CHKPT"
      /\ work.op # "commit" /\ gDirty > 0
  BY <1>1, Sizes DEF StageInv
<1>3. /\ Grows /\ End' = End + 1 /\ log'[End'].type = "END_CHKPT"
  <2>1. RecordOk(log, EndChkpt(Active), End + 1) /\ EndChkpt(Active).type = "END_CHKPT"
    BY <1>2, EndChkptOk
  <2>2. /\ IsLog(log', End') /\ End' = End + 1 /\ Agree(log, log', End)
        /\ log'[End + 1] = EndChkpt(Active)
    BY <1>1, <2>1, WriteOne DEF LogInv
  <2> QED
    BY <1>2, <2>1, <2>2 DEF Grows
<1>4. stable' \in stable .. End' /\ End' \in Nat /\ log'[End' - 1] = log[End]
  BY <1>1, <1>2, <1>3, GrowsFacts
<1>5. LogInv'
  BY <1>1, <1>3, <1>4, LogInvKept
<1>6. DiskInv'
  <2>1. 0 .. End \subseteq 0 .. End' /\ 0 .. stable \subseteq 0 .. stable'
        /\ 1 .. stable \subseteq 1 .. stable'
    BY <1>2, <1>3, <1>4
  <2>2. db' \in [Items -> (SUBSET (0 .. stable)) \ {{}}]
    BY <1>1, <1>2, SyncedIsFlushed
  <2>3. Max(anchorLSN) \in 1 .. stable
    <3>1. anchorLSN \subseteq 1 .. stable /\ anchorLSN # {} /\ stable \in Nat
      BY <1>2 DEF DiskInv
    <3>2. anchorLSN \subseteq Nat /\ \A x \in anchorLSN : x <= stable
      BY <3>1
    <3>3. Max(anchorLSN) \in anchorLSN
      BY <3>1, <3>2, MaxIs
    <3> QED
      BY <3>1, <3>3
  <2>4. anchorLSN' \in (SUBSET (1 .. stable')) \ {{}}
    BY <1>1, <2>1, <2>3
  <2>5. db' \in [Items -> (SUBSET (0 .. stable')) \ {{}}]
    <3> DEFINE V == (SUBSET (0 .. stable)) \ {{}}
               W == (SUBSET (0 .. stable')) \ {{}}
    <3>1. V \subseteq W
      BY <2>1
    <3>2. db' \in [Items -> V]
      BY <2>2
    <3> HIDE DEF V, W
    <3>3. db' \in [Items -> W]
      BY <3>1, <3>2
    <3> QED
      BY <3>3 DEF W
  <2> QED
    BY <1>1, <2>1, <2>4, <2>5 DEF DiskInv
<1>7. SlotInv'
  BY <1>1, <1>3, SlotInvKept
<1>8. WorkInv'
  BY <1>1, <1>3, WorkInvKept
<1>9. StageInv'
  <2>1. stable' = End'
    BY <1>1, <1>3
  <2>2. up'
    BY <1>1 DEF StageInv
  <2> QED
    BY <1>1, <1>2, <1>3, <1>4, <2>1, <2>2 DEF StageInv
<1> QED
  BY <1>5, <1>6, <1>7, <1>8, <1>9

\* What an undo goes on with.
LEMMA Undone ==
    ASSUME Inv, Undoing, ~UndoneEnough
    PROVE  LET s == work.slot
               n == work.next
           IN  /\ s \in Slot /\ trans[s] \in Trans /\ SlotOk(log, End, trans[s], s, work)
               /\ work.op \in {"partial", "abort"} /\ trans[s].id # 0
               /\ n \in 1 .. trans[s].last /\ n \in 1 .. End /\ trans[s].last \in 1 .. End
               /\ log[n] \in Record /\ LinkOk(log, log[n], n) /\ RunsAt(log, n, trans[s].id)
               /\ log[n].prev \in 0 .. n - 1
               /\ log[n].prev # 0 => RunsAt(log, log[n].prev, trans[s].id)
               /\ work.op = "partial" => trans[s].save \in {0} \cup ChainIn(log, End, log[n].prev)
<1> USE DEF Inv
<1> DEFINE s == work.slot
           n == work.next
<1>1. work.op \in {"partial", "abort"}
  BY DEF Undoing
<1>2. s \in Slot /\ WorkOk(log, End, trans[s], work)
  BY <1>1 DEF WorkInv
<1>3. trans[s] \in Trans /\ SlotOk(log, End, trans[s], s, work)
  BY <1>2 DEF SlotInv
<1>4. IsLog(log, End) /\ End \in Nat /\ ChainIn(log, End, 0) = {}
  BY LogFacts DEF LogInv
<1>5. n # 0
  BY <1>1, <1>2, <1>4 DEF UndoneEnough, WorkOk
<1>6. n \in 1 .. trans[s].last /\ n \in 1 .. End /\ trans[s].last \in 1 .. End
      /\ trans[s].id # 0 /\ RunsAt(log, n, trans[s].id)
  BY <1>1, <1>2, <1>3, <1>4, <1>5 DEF WorkOk, SlotOk
<1>7. log[n] \in Record /\ LinkOk(log, log[n], n)
      /\ ChainIn(log, End, n) = {n} \cup ChainIn(log, End, log[n].prev)
  BY <1>4, <1>6, LogFacts DEF RunsAt
<1>8. log[n].prev \in 0 .. n - 1 /\ (log[n].prev # 0 => RunsAt(log, log[n].prev, trans[s].id))
  BY <1>6, <1>7 DEF LinkOk, RunsAt
<1>9. work.op = "partial" => trans[s].save \in {0} \cup ChainIn(log, End, log[n].prev)
  BY <1>2, <1>7 DEF WorkOk, UndoneEnough
<1> QED
  BY <1>1, <1>2, <1>3, <1>6, <1>7, <1>8, <1>9

LEMMA CompensationOk ==
    ASSUME Inv, Undoing, ~UndoneEnough, log[work.next].type = "UPDATE"
    PROVE  LET s == work.slot
               n == work.next
               r == Compensation(s, n)
           IN  /\ RecordOk(log, r, End + 1) /\ OfTrans(r) /\ r.type = "COMPENSATION"
               /\ r.trans = trans[s].id /\ r.prev = log[n].prev /\ r.undone = n
<1> DEFINE s == work.slot
           n == work.next
           r == Compensation(s, n)
<1>1. /\ s \in Slot /\ trans[s] \in Trans /\ n \in 1 .. End
      /\ log[n] \in Record /\ LinkOk(log, log[n], n) /\ RunsAt(log, n, trans[s].id)
      /\ log[n].prev \in 0 .. n - 1 /\ trans[s].id # 0 /\ SlotOk(log, End, trans[s], s, work)
      /\ log[n].prev # 0 => RunsAt(log, log[n].prev, trans[s].id)
  BY Undone
<1>2. r = [type |-> "COMPENSATION", trans |-> trans[s].id, prev |-> log[n].prev, undone |-> n]
  BY DEF Compensation
<1>3. End \in Nat /\ End <= MaxLog
  BY Sizes DEF Inv
<1>4. log[n].prev \in LSN /\ n \in LSN /\ trans[s].id \in Id
  BY <1>1, <1>3, RecoveryAssumption DEF LSN, Trans, Id
<1> HIDE DEF s, n
<1>5. r \in Record
  BY <1>2, <1>4 DEF Record
<1>6. r.type = "COMPENSATION" /\ OfTrans(r) /\ r.type # "END_CHKPT"
  BY <1>2 DEF OfTrans
<1>7. r.trans = trans[s].id /\ r.prev = log[n].prev /\ r.undone = n
  BY <1>2
<1> HIDE DEF r
<1>8. log[n].type = "UPDATE" /\ log[n].trans = trans[s].id /\ log[n].prev # 0
      /\ log[n].trans % MaxTrans # 0
  BY <1>1 DEF n, LinkOk, RunsAt
<1>9. LinkOk(log, r, End + 1)
  BY <1>1, <1>3, <1>6, <1>7, <1>8 DEF LinkOk, RunsAt
<1> QED
  BY <1>5, <1>6, <1>7, <1>9 DEF RecordOk, r, s, n

\* SetDirtyFlag
LEMMA Dirtied ==
    ASSUME DiskInv, NEW i \in Items, SetDirty(i)
    PROVE  dirty' \subseteq Items /\ dirty0' \in BOOLEAN /\ gDirty' \in 0 .. 2
<1>1. dirty' = dirty \cup {i} /\ dirty0' \in {dirty0, TRUE} /\ gDirty' = 2
  BY DEF SetDirty
<1>2. dirty \subseteq Items /\ dirty0 \in BOOLEAN
  BY DEF DiskInv
<1>3. gDirty' \in 0 .. 2
  BY <1>1
<1>4. dirty' \subseteq Items
  BY <1>1, <1>2
<1>5. dirty0' \in BOOLEAN
  BY <1>1, <1>2
<1> QED
  BY <1>3, <1>4, <1>5

LEMMA UndoStepKeeps ==
    ASSUME Inv, UndoStep
    PROVE  Inv'
<1> USE DEF Inv
<1> DEFINE s == work.slot
           n == work.next
           r == Compensation(s, n)
<1>1. Undoing /\ ~UndoneEnough /\ up /\ stage = "none"
  BY DEF UndoStep, Undoing
<1>2. /\ s \in Slot /\ trans[s] \in Trans /\ SlotOk(log, End, trans[s], s, work)
      /\ work.op \in {"partial", "abort"} /\ trans[s].id # 0
      /\ n \in 1 .. trans[s].last /\ n \in 1 .. End /\ trans[s].last \in 1 .. End
      /\ log[n] \in Record /\ LinkOk(log, log[n], n) /\ RunsAt(log, n, trans[s].id)
      /\ log[n].prev \in 0 .. n - 1
      /\ log[n].prev # 0 => RunsAt(log, log[n].prev, trans[s].id)
      /\ work.op = "partial" => trans[s].save \in {0} \cup ChainIn(log, End, log[n].prev)
  BY <1>1, Undone
<1>3. End \in Nat /\ stable \in 2 .. End /\ trans \in [Slot -> Trans]
      /\ nextId \in Id /\ owner \in [Items -> Slot \cup {0}]
  BY Sizes DEF SlotInv
<1>4. work' = [work EXCEPT !.next = log[n].prev]
      /\ UNCHANGED <<db, anchorLSN, stable, anchor, deleted, nextId, owner, stage, up, unsettled, crashes>>
  BY DEF UndoStep, life
<1>5. /\ work'.op = work.op /\ work'.slot = work.slot /\ work'.slot = s /\ work'.next = log[n].prev
      /\ work' \in [op : {"idle", "partial", "abort", "commit", "restart"},
                    slot : Slot \cup {0}, next : LSN]
  <2>1. log[n].prev \in LSN
    BY <1>2, <1>3, Sizes DEF LSN
  <2> QED
    BY <1>4, <2>1 DEF WorkInv
<1>13. log[n].type = "UPDATE" =>
         /\ WriteLog(<<r>>) /\ trans' = [trans EXCEPT ![s] = Logged(s, <<r>>)]
         /\ mem' = [mem EXCEPT ![log[n].item] = log[n].before]
         /\ SetDirty(log[n].item)
         /\ RecordOk(log, r, End + 1) /\ OfTrans(r) /\ r.type = "COMPENSATION"
         /\ r.trans = trans[s].id /\ r.prev = log[n].prev
  BY <1>1, CompensationOk DEF UndoStep
<1>14. log[n].type # "UPDATE" => UNCHANGED <<log, trans, mem, dirty, dirty0, gDirty>>
  BY DEF UndoStep
<1>15. \A u \in Slot : /\ Ending(work, u) => Ending(work', u)
                       /\ Aborting(work, u) => Aborting(work', u)
  BY <1>5 DEF Ending, Aborting
<1> HIDE DEF s, n
<1>6. /\ Grows /\ trans' \in [Slot -> Trans]
      /\ \A u \in Slot : SlotOk(log', End', trans'[u], u, work')
      /\ trans'[s].id = trans[s].id /\ trans'[s].save = trans[s].save
      /\ trans[s].last <= trans'[s].last /\ trans'[s].last \in Nat
      /\ mem' \in [Items -> 0 .. End] /\ dirty' \subseteq Items /\ dirty0' \in BOOLEAN
      /\ gDirty' \in 0 .. 2
  <2>1. CASE log[n].type = "UPDATE"
    <3>1. /\ WriteLog(<<r>>) /\ trans' = [trans EXCEPT ![s] = Logged(s, <<r>>)]
          /\ mem' = [mem EXCEPT ![log[n].item] = log[n].before]
          /\ SetDirty(log[n].item)
      BY <1>13, <2>1
    <3>2. /\ RecordOk(log, r, End + 1) /\ OfTrans(r) /\ r.type = "COMPENSATION"
          /\ r.trans = trans[s].id /\ r.prev = log[n].prev
      BY <1>13, <2>1
    <3> HIDE DEF r
    <3>3. IsLog(log', End') /\ End' = End + 1 /\ Agree(log, log', End) /\ log'[End + 1] = r
      BY <3>1, <3>2, WriteOne DEF LogInv
    <3>4. Grows /\ End' \in LSN
      <4>1. End' <= MaxLog
        BY <3>3, LogFacts
      <4> QED
        BY <1>3, <3>3, <4>1 DEF Grows, LSN
    <3> DEFINE t == Logged(s, <<r>>)
    <3>5. t \in Trans /\ t.id = trans[s].id /\ t.last = End' /\ t.save = trans[s].save
          /\ t.first = trans[s].first
      <4>1. End' = End + Len(<<r>>)
        BY <3>3, OneIsOne
      <4>2. trans[s].first # 0
        BY <1>2 DEF SlotOk
      <4>3. s \in Slot /\ trans \in [Slot -> Trans] /\ End + 1 \in LSN /\ End' \in LSN
        BY <1>2, <1>3, <3>3, <3>4
      <4>4. t \in Trans /\ t.id = trans[s].id /\ t.last = End' /\ t.save = trans[s].save
            /\ t.first = IF trans[s].first = 0 THEN End + 1 ELSE trans[s].first
        BY <4>1, <4>3, LoggedFields
      <4> QED
        BY <4>2, <4>4
    <3> HIDE DEF t
    <3>6. \A u \in Slot \ {s} : SlotOk(log', End', trans[u], u, work')
      BY <1>15, <3>4, SlotGrown DEF LogInv, SlotInv, Grows
    <3>7. SlotOk(log', End', t, s, work')
      <4>1. log'[End'] = r /\ log[n].prev \in 0 .. trans[s].last
        BY <1>2, <1>3, <3>3
      <4>2. r.type \notin Ends
        BY <3>2 DEF Ends
      <4>3. \/ trans[s].save \in {NoSave, 0} \cup ChainIn(log, End, log'[End'].prev)
            \/ Aborting(work', s)
        BY <1>2, <1>5, <3>2, <4>1 DEF Aborting
      <4> QED
        BY <1>2, <3>2, <3>3, <3>4, <3>5, <4>1, <4>2, <4>3, SlotWrites
    <3>8. trans' \in [Slot -> Trans] /\ \A u \in Slot : SlotOk(log', End', trans'[u], u, work')
      BY <1>2, <1>3, <3>1, <3>5, <3>6, <3>7, OneSlot DEF t
    <3>9. trans'[s] = t
      BY <1>2, <1>3, <3>1 DEF t
    <3>10. log[n].item \in Items /\ log[n].before \in 0 .. End
      BY <1>2, <1>3, <2>1, RecordFields DEF LinkOk
    <3>11. mem' \in [Items -> 0 .. End]
      BY <3>1, <3>10 DEF DiskInv
    <3>12. dirty' \subseteq Items /\ dirty0' \in BOOLEAN /\ gDirty' \in 0 .. 2
      BY <3>10, <3>1, Dirtied
    <3>13. trans[s].last <= End' /\ End' \in Nat
      BY <1>2, <1>3, <3>3 DEF SlotOk
    <3> QED
      BY <3>4, <3>5, <3>8, <3>9, <3>11, <3>12, <3>13
  <2>2. CASE log[n].type # "UPDATE"
    <3>1. UNCHANGED <<log, trans, mem, dirty, dirty0, gDirty>>
      BY <1>14, <2>2
    <3>2. Grows
      BY <3>1, GrowsSame
    <3>3. \A u \in Slot : SlotOk(log', End', trans[u], u, work')
      BY <1>15, <3>1, <3>2, SlotGrown DEF LogInv, SlotInv, Grows
    <3> QED
      BY <1>2, <1>3, <3>1, <3>2, <3>3 DEF DiskInv
  <2> QED
    BY <2>1, <2>2
<1>7. stable' \in stable .. End' /\ End' \in Nat /\ End <= End'
  BY <1>3, <1>4, <1>6, GrowsFacts
<1>8. LogInv'
  BY <1>4, <1>6, <1>7, LogInvKept
<1>9. DiskInv'
  BY <1>3, <1>4, <1>6, <1>7 DEF DiskInv
<1>10. SlotInv'
  BY <1>3, <1>4, <1>6 DEF SlotInv
<1>11. WorkInv'
  <2> DEFINE p == log[n].prev
  <2>1. p \in 0 .. End /\ IsLog(log, End) /\ IsLog(log', End') /\ Agree(log, log', End)
    BY <1>2, <1>3, <1>6 DEF LogInv, Grows
  <2>2. ChainIn(log', End', p) = ChainIn(log, End, p)
    BY <1>7, <2>1, ChainGrown
  <2>3. p # 0 => log'[p] = log[p]
    BY <2>1 DEF Agree
  <2>4. p \in 0 .. trans'[s].last
    BY <1>2, <1>6
  <2> HIDE DEF p
  <2>5. WorkOk(log', End', trans'[s], work')
    BY <1>2, <1>5, <1>6, <2>2, <2>3, <2>4 DEF WorkOk, RunsAt, p
  <2> QED
    BY <1>2, <1>5, <2>5 DEF WorkInv
<1>12. StageInv'
  BY <1>1, <1>4 DEF StageInv
<1> QED
  BY <1>8, <1>9, <1>10, <1>11, <1>12

-----------------------------------------------------------------------------
(* An update *)

\* The record of an update that goes on from record p.
LEMMA UpdateOk ==
    ASSUME Inv, NEW s \in Slot, trans[s].id # 0, NEW i \in Items, NEW L, NEW p \in LSN, NEW n,
           n \in {End + 1, End + 2}, p \in 1 .. n - 1, RunsAt(L, p, trans[s].id)
    PROVE  LET r == Update(s, p, i) IN
           /\ RecordOk(L, r, n) /\ OfTrans(r) /\ r.type = "UPDATE"
           /\ r.trans = trans[s].id /\ r.prev = p /\ r.item = i /\ r.before = mem[i]
<1> DEFINE r == Update(s, p, i)
<1>1. r = [type |-> "UPDATE", trans |-> trans[s].id, prev |-> p, item |-> i, before |-> mem[i]]
  BY DEF Update
<1>2. trans[s] \in Trans /\ SlotOk(log, End, trans[s], s, work) /\ mem[i] \in 0 .. End
  BY DEF Inv, SlotInv, DiskInv
<1>3. End \in Nat /\ mem[i] \in LSN /\ mem[i] \in 0 .. n - 1
  BY <1>2, Sizes DEF Inv
<1>4. trans[s].id \in Id /\ trans[s].id % MaxTrans # 0
  BY <1>2 DEF Trans, Id, SlotOk, Slot
<1>5. r \in Record
  BY <1>1, <1>3, <1>4 DEF Record
<1>6. r.type = "UPDATE" /\ OfTrans(r) /\ r.type # "END_CHKPT"
  BY <1>1 DEF OfTrans
<1>7. r.trans = trans[s].id /\ r.prev = p /\ r.item = i /\ r.before = mem[i]
  BY <1>1
<1> HIDE DEF r
<1>8. LinkOk(L, r, n)
  BY <1>3, <1>4, <1>6, <1>7 DEF LinkOk, RunsAt
<1> QED
  BY <1>5, <1>6, <1>7, <1>8 DEF RecordOk, r

\* The first record of a transaction.
LEMMA BeginRecordOk ==
    ASSUME Inv, NEW s \in Slot, trans[s].id # 0
    PROVE  LET q == TransRec("TRANS_BEGIN", s, 0) IN
           /\ RecordOk(log, q, End + 1) /\ OfTrans(q) /\ q.type = "TRANS_BEGIN"
           /\ q.trans = trans[s].id /\ q.prev = 0
<1> DEFINE q == TransRec("TRANS_BEGIN", s, 0)
<1>1. q = [type |-> "TRANS_BEGIN", trans |-> trans[s].id, prev |-> 0]
  BY DEF TransRec
<1>2. trans[s] \in Trans /\ SlotOk(log, End, trans[s], s, work)
  BY DEF Inv, SlotInv
<1>3. trans[s].id \in Id /\ trans[s].id % MaxTrans # 0
  BY <1>2 DEF Trans, Id, SlotOk, Slot
<1>4. End \in Nat /\ 0 \in LSN
  BY Sizes DEF Inv
<1>5. q \in Record
  BY <1>1, <1>3, <1>4 DEF Record
<1>6. q.type = "TRANS_BEGIN" /\ OfTrans(q) /\ q.type # "END_CHKPT"
  BY <1>1 DEF OfTrans
<1>7. q.trans = trans[s].id /\ q.prev = 0
  BY <1>1
<1> HIDE DEF q
<1>8. LinkOk(log, q, End + 1)
  BY <1>3, <1>4, <1>6, <1>7 DEF LinkOk
<1> QED
  BY <1>5, <1>6, <1>7, <1>8 DEF RecordOk, q

LEMMA TwoFit ==
    ASSUME IsLog(log, End), NEW q, NEW r, WriteLog(<<q, r>>)
    PROVE  End + 2 <= MaxLog
<1>1. log \in Seq(Record) /\ End = Len(log)
  BY DEF IsLog
<1>2. Len(log \o <<q, r>>) <= MaxLog
  BY DEF WriteLog
<1>3. Len(log \o <<q, r>>) = Len(log) + 2
  BY <1>1
<1> QED
  BY <1>1, <1>2, <1>3

\* What an update leaves in the log and in the slot of its transaction.
LEMMA UpdateWrites ==
    ASSUME Inv, NEW s \in Slot, trans[s].id # 0, work = Idle, NEW i \in Items,
           WriteLog(BeginRecords(s) \o <<Update(s, PrevLSN(s), i)>>)
    PROVE  LET t == Logged(s, BeginRecords(s) \o <<Update(s, PrevLSN(s), i)>>) IN
           /\ Grows /\ End < End' /\ End' \in LSN
           /\ End' = IF trans[s].first = 0 THEN End + 2 ELSE End + 1
           /\ log'[End + 1].prev = trans[s].last
           /\ trans[s].first = 0 => log'[End'].prev = End + 1
           /\ OfTrans(log'[End']) /\ log'[End'].trans = trans[s].id
           /\ log'[End'].type = "UPDATE" /\ log'[End'].item = i /\ log'[End'].before = mem[i]
           /\ \A n \in End + 1 .. End' :
                 /\ OfTrans(log'[n]) /\ log'[n].trans = trans[s].id
                 /\ n # End' => log'[n].type = "TRANS_BEGIN"
           /\ trans[s].last \in {0} \cup ChainIn(log, End, trans[s].last)
           /\ ChainIn(log', End', End') = (End + 1 .. End') \cup ChainIn(log, End, trans[s].last)
           /\ t \in Trans /\ t.id = trans[s].id /\ t.last = End' /\ t.first \in 1 .. End'
           /\ t.first = IF trans[s].first = 0 THEN End + 1 ELSE trans[s].first
<1> USE DEF Inv
<1> DEFINE q == TransRec("TRANS_BEGIN", s, 0)
           r == Update(s, PrevLSN(s), i)
           recs == BeginRecords(s) \o <<r>>
           t == Logged(s, recs)
<1>0. WriteLog(recs)
  OBVIOUS
<1>1. IsLog(log, End) /\ SlotOk(log, End, trans[s], s, work) /\ trans \in [Slot -> Trans]
      /\ trans[s].last \in 0 .. End /\ trans[s].first \in 0 .. trans[s].last
      /\ (trans[s].first = 0 <=> trans[s].last = 0)
  BY DEF SlotInv, LogInv, SlotOk
<1>2. End \in Nat /\ End <= MaxLog /\ MaxLog \in Nat
  BY Sizes, RecoveryAssumption
<1>3. CASE trans[s].first = 0
  <2>1. recs = <<q, r>> /\ PrevLSN(s) = End + 1
    <3>1. BeginRecords(s) = <<q>> /\ PrevLSN(s) = End + 1
      BY <1>3 DEF BeginRecords, PrevLSN
    <3> HIDE DEF q, r
    <3>2. <<q>> \o <<r>> = <<q, r>>
      BY OnePlusOne
    <3> QED
      BY <3>1, <3>2, Zenon
  <2>2. RecordOk(log, q, End + 1) /\ OfTrans(q) /\ q.type = "TRANS_BEGIN"
        /\ q.trans = trans[s].id /\ q.prev = 0
    BY BeginRecordOk
  <2> HIDE DEF q
  <2>3. End + 2 <= MaxLog
    BY <1>1, <2>1, TwoFit
  <2>4. \A L : Agree(log, L, End) /\ L[End + 1] = q =>
                 /\ RecordOk(L, r, End + 2) /\ OfTrans(r) /\ r.type = "UPDATE"
                 /\ r.trans = trans[s].id /\ r.prev = End + 1
                 /\ r.item = i /\ r.before = mem[i]
    <3> TAKE L
    <3> HAVE L[End + 1] = q
    <3>1. RunsAt(L, End + 1, trans[s].id)
      BY <2>2 DEF RunsAt, Ends
    <3>2. End + 1 \in LSN /\ End + 1 \in 1 .. (End + 2) - 1 /\ End + 2 \in {End + 1, End + 2}
      BY <1>2, <2>3 DEF LSN
    <3>3. r = Update(s, End + 1, i)
      BY <2>1, Zenon
    <3> HIDE DEF r
    <3> QED
      BY <3>1, <3>2, <3>3, UpdateOk
  <2> HIDE DEF r, recs
  <2>5. /\ IsLog(log', End') /\ End' = End + 2 /\ Agree(log, log', End)
        /\ log'[End + 1] = q /\ log'[End + 2] = r
    BY <1>0, <1>1, <2>1, <2>2, <2>4, WriteTwo
  <2>6. OfTrans(r) /\ r.type = "UPDATE" /\ r.trans = trans[s].id /\ r.prev = End + 1
        /\ r.item = i /\ r.before = mem[i]
    BY <2>4, <2>5
  <2>7. Grows /\ End < End' /\ End' \in LSN /\ End + 1 \in LSN
    BY <1>2, <2>3, <2>5 DEF Grows, LSN
  <2>8. log'[End'] = r /\ \A n \in End + 1 .. End' : n # End' => log'[n] = q
    BY <1>2, <2>5
  <2>9. trans[s].last = 0 /\ ChainIn(log, End, trans[s].last) = {}
    BY <1>1, <1>3, LogFacts
  <2>12. ChainIn(log', End', End') = End + 1 .. End'
    <3>1. End' \in 1 .. End' /\ End + 1 \in 1 .. End' /\ ChainIn(log', End', 0) = {}
      BY <1>2, <2>5, LogFacts
    <3>2. ChainIn(log', End', End') = {End'} \cup ChainIn(log', End', End + 1)
      BY <2>5, <2>6, <2>8, <3>1, LogFacts
    <3>3. ChainIn(log', End', End + 1) = {End + 1} \cup ChainIn(log', End', 0)
      BY <2>2, <2>5, <3>1, LogFacts
    <3>4. End + 1 .. End' = {End'} \cup {End + 1}
      BY <1>2, <2>5
    <3> QED
      BY <3>1, <3>2, <3>3, <3>4, Zenon
  <2>10. t \in Trans /\ t.id = trans[s].id /\ t.last = End' /\ t.first = End + 1
    <3>1. End' = End + Len(recs)
      BY <2>1, <2>5, TwoIsTwo
    <3> HIDE DEF recs
    <3>2. s \in Slot /\ trans \in [Slot -> Trans] /\ End + 1 \in LSN /\ End' \in LSN
      BY <1>1, <2>7
    <3>3. t \in Trans /\ t.id = trans[s].id /\ t.last = End' /\ t.save = trans[s].save
          /\ t.first = IF trans[s].first = 0 THEN End + 1 ELSE trans[s].first
      BY <3>1, <3>2, LoggedFields
    <3> QED
      BY <1>3, <3>3
  <2> HIDE DEF t
  <2>11. t.first \in 1 .. End'
    BY <1>2, <2>5, <2>10
  <2>13. /\ End' = IF trans[s].first = 0 THEN End + 2 ELSE End + 1
         /\ log'[End + 1].prev = trans[s].last /\ log'[End'].prev = End + 1
    BY <1>1, <1>3, <2>2, <2>5, <2>6
  <2> QED
    BY <1>3, <2>2, <2>13, <2>6, <2>7, <2>8, <2>9, <2>10, <2>11, <2>12 DEF t, recs, r
<1>4. CASE trans[s].first # 0
  <2>1. recs = <<r>> /\ PrevLSN(s) = trans[s].last
    BY <1>4 DEF BeginRecords, PrevLSN
  <2>2. trans[s].last \in 1 .. End /\ RunsAt(log, trans[s].last, trans[s].id)
    BY <1>1, <1>2, <1>4 DEF SlotOk, RunsAt, Ending, Idle
  <2>3. RecordOk(log, r, End + 1) /\ OfTrans(r) /\ r.type = "UPDATE"
        /\ r.trans = trans[s].id /\ r.prev = trans[s].last /\ r.item = i /\ r.before = mem[i]
    <3>1. trans[s].last \in LSN /\ trans[s].last \in 1 .. (End + 1) - 1
      BY <1>2, <2>2 DEF LSN
    <3>2. r = Update(s, trans[s].last, i) /\ End + 1 \in {End + 1, End + 2}
      BY <2>1, Zenon
    <3> HIDE DEF r
    <3> QED
      BY <2>2, <3>1, <3>2, UpdateOk
  <2> HIDE DEF r, recs
  <2>4. IsLog(log', End') /\ End' = End + 1 /\ Agree(log, log', End) /\ log'[End + 1] = r
    BY <1>0, <1>1, <2>1, <2>3, WriteOne
  <2>5. Grows /\ End < End' /\ End' \in LSN /\ End + 1 \in LSN
    <3>1. End' <= MaxLog
      BY <2>4, LogFacts
    <3> QED
      BY <1>2, <2>4, <3>1 DEF Grows, LSN
  <2>6. log'[End'] = r /\ End + 1 .. End' = {End'}
    BY <1>2, <2>4
  <2>7. ChainIn(log', End', End') = {End'} \cup ChainIn(log, End, trans[s].last)
    <3>1. OfTrans(log'[End + 1]) /\ log'[End + 1].prev = trans[s].last
          /\ trans[s].last \in 0 .. End
      BY <1>1, <2>3, <2>4
    <3> QED
      BY <1>1, <2>4, <2>5, <3>1, ChainOfNew
  <2>8. trans[s].last \in ChainIn(log, End, trans[s].last)
    BY <1>1, <2>2, LogFacts DEF RunsAt
  <2>9. t \in Trans /\ t.id = trans[s].id /\ t.last = End' /\ t.first = trans[s].first
    <3>1. End' = End + Len(recs)
      BY <2>1, <2>4, OneIsOne
    <3> HIDE DEF recs
    <3>2. s \in Slot /\ trans \in [Slot -> Trans] /\ End + 1 \in LSN /\ End' \in LSN
      BY <1>1, <2>5
    <3>3. t \in Trans /\ t.id = trans[s].id /\ t.last = End' /\ t.save = trans[s].save
          /\ t.first = IF trans[s].first = 0 THEN End + 1 ELSE trans[s].first
      BY <3>1, <3>2, LoggedFields
    <3> QED
      BY <1>4, <3>3
  <2> HIDE DEF t
  <2>10. t.first \in 1 .. End'
    BY <1>1, <1>2, <1>4, <2>4, <2>9
  <2>11. /\ End' = IF trans[s].first = 0 THEN End + 2 ELSE End + 1
         /\ log'[End + 1].prev = trans[s].last
    BY <1>4, <2>3, <2>4
  <2> QED
    BY <1>4, <2>3, <2>11, <2>5, <2>6, <2>7, <2>8, <2>9, <2>10 DEF t, recs, r
<1> QED
  BY <1>3, <1>4

LEMMA DoUpdateKeeps ==
    ASSUME Inv, NEW s \in Slot, NEW i \in Items, NEW begins \in BOOLEAN, DoUpdate(s, i, begins)
    PROVE  Inv'
<1> USE DEF Inv
<1> DEFINE recs == BeginRecords(s) \o <<Update(s, PrevLSN(s), i)>>
           t == Logged(s, recs)
           save == IF begins THEN trans[s].last ELSE trans[s].save
           v == [t EXCEPT !.save = save]
<1>1. /\ up /\ work = Idle /\ stage = "none" /\ trans[s].id # 0
      /\ WriteLog(recs) /\ trans' = [trans EXCEPT ![s] = v]
      /\ mem' = [mem EXCEPT ![i] = Len(log')] /\ owner' = [owner EXCEPT ![i] = s]
      /\ SetDirty(i)
      /\ UNCHANGED <<db, anchorLSN, stable, anchor, deleted, nextId, work, stage, up, unsettled, crashes>>
  BY DEF DoUpdate, Free, Used, life
<1>2. /\ Grows /\ End < End' /\ End' \in LSN
      /\ OfTrans(log'[End']) /\ log'[End'].trans = trans[s].id /\ log'[End'].type = "UPDATE"
      /\ trans[s].last \in {0} \cup ChainIn(log, End, trans[s].last)
      /\ ChainIn(log', End', End') = (End + 1 .. End') \cup ChainIn(log, End, trans[s].last)
      /\ t \in Trans /\ t.id = trans[s].id /\ t.last = End' /\ t.first \in 1 .. End'
  BY <1>1, UpdateWrites
<1> HIDE DEF recs, t
<1>3. trans \in [Slot -> Trans] /\ SlotOk(log, End, trans[s], s, work) /\ trans[s] \in Trans
      /\ owner \in [Items -> Slot \cup {0}] /\ nextId \in Id
  BY DEF SlotInv
<1>4. End \in Nat /\ stable \in 2 .. End /\ End' \in Nat /\ stable' \in stable .. End'
  BY <1>1, <1>2, Sizes, GrowsFacts
<1>5. /\ v \in Trans /\ v.id = trans[s].id /\ v.last = End' /\ v.first \in 1 .. End'
      /\ v.save \in {NoSave, 0} \cup ChainIn(log', End', End')
  <2>1. v = [id |-> t.id, first |-> t.first, last |-> t.last, save |-> save]
    BY <1>2 DEF Trans
  <2>2. save \in LSN \cup {NoSave}
    BY <1>3 DEF Trans
  <2>3. v \in Trans
    BY <1>2, <2>1, <2>2 DEF Trans
  <2>4. trans[s].save \in {NoSave, 0} \cup ChainIn(log, End, trans[s].last)
    BY <1>1, <1>3 DEF SlotOk, Aborting, Idle
  <2>5. save \in {NoSave, 0} \cup ChainIn(log', End', End')
    BY <1>2, <2>4
  <2> HIDE DEF save
  <2> QED
    BY <1>2, <2>1, <2>3, <2>5
<1> HIDE DEF v
<1>6. LogInv'
  BY <1>1, <1>2, <1>4, LogInvKept
<1>7. DiskInv'
  <2>1. Len(log') = End'
    BY Zenon DEF End
  <2>2. mem' = [mem EXCEPT ![i] = End']
    BY <1>1, <2>1, Zenon
  <2>3. mem' \in [Items -> 0 .. End']
    BY <1>2, <1>4, <2>2 DEF DiskInv
  <2>4. dirty' \subseteq Items /\ dirty0' \in BOOLEAN /\ gDirty' \in 0 .. 2
    BY <1>1, Dirtied
  <2> QED
    BY <1>1, <2>3, <2>4 DEF DiskInv
<1>8. SlotInv'
  <2>1. \A u \in Slot \ {s} : SlotOk(log', End', trans[u], u, work')
    BY <1>1, <1>2, SlotGrown DEF LogInv, SlotInv, Grows
  <2>2. SlotOk(log', End', v, s, work')
    BY <1>1, <1>2, <1>3, <1>4, <1>5 DEF SlotOk, Ends
  <2>3. trans' \in [Slot -> Trans] /\ \A u \in Slot : SlotOk(log', End', trans'[u], u, work')
    BY <1>1, <1>3, <1>5, <2>1, <2>2, OneSlot
  <2> QED
    BY <1>1, <1>3, <2>3 DEF SlotInv
<1>9. WorkInv'
  BY <1>1 DEF WorkInv, Idle
<1>10. StageInv'
  BY <1>1 DEF StageInv
<1> QED
  BY <1>6, <1>7, <1>8, <1>9, <1>10

-----------------------------------------------------------------------------
(* Crash and restart *)

\* What a restart finds on disk.
OnDisk ==
    /\ LogInv
    /\ db \in [Items -> (SUBSET (0 .. stable)) \ {{}}]
    /\ anchorLSN \in (SUBSET (1 .. stable)) \ {{}}

\* The transaction table is made of records of the log.
Anchored(L, N, a) == IsLog(L, N) /\ a \in 1 .. N /\ L[a].type = "END_CHKPT"

LEMMA LogTabled ==
    ASSUME NEW L, NEW N, NEW a, Anchored(L, N, a)
    PROVE  Tabled(L, N, a) /\ TableOk(L, L[a].active, a)
<1>1. IsLog(L, N) /\ a \in 1 .. N /\ N \in Nat /\ L[a].type = "END_CHKPT"
  BY LogFacts DEF Anchored
<1>2. RecordOk(L, L[a], a)
  BY <1>1, LogFacts
<1>3. L[a].active \in Table /\ TableOk(L, L[a].active, a)
  BY <1>1, <1>2, RecordFields DEF RecordOk
<1>4. \A s \in Slot : L[a].active[s] \in Entries(N)
  <2> TAKE s \in Slot
  <2>1. L[a].active[s] \in Entry
    BY <1>3 DEF Table
  <2>2. L[a].active[s].last \in 0 .. N
    BY <1>1, <1>3 DEF TableOk
  <2> QED
    BY <2>1, <2>2 DEF Entry, Entries
<1>5. L[a].active \in [Slot -> Entries(N)]
  BY <1>3, <1>4 DEF Table
<1>6. ASSUME NEW m \in a .. N, OfTrans(L[m])
      PROVE  L[m].trans \in 1 .. MaxId - 1 /\ L[m].trans % MaxTrans \in Slot
  <2>1. m \in 1 .. N
    BY <1>1
  <2>2. L[m] \in Record /\ LinkOk(L, L[m], m)
    BY <1>1, <1>6, <2>1, LogFacts
  <2>3. L[m].trans \in 1 .. MaxId - 1
    BY <1>6, <2>2, RecordFields DEF Id
  <2> QED
    BY <2>2, <2>3, SlotOfId DEF LinkOk
<1> QED
  BY <1>1, <1>3, <1>5, <1>6 DEF Tabled

LEMMA LogAnchored ==
    ASSUME LogInv
    PROVE  Anchored(log, End, anchor.end) /\ Tabled(log, End, anchor.end)
<1>1. Anchored(log, End, anchor.end)
  BY Sizes DEF LogInv, Anchored
<1> QED
  BY <1>1, LogTabled

LEMMA LosersLogged ==
    ASSUME LogInv
    PROVE  Losers \subseteq 0 .. End
<1>1. Tabled(log, End, anchor.end)
  BY LogAnchored
<1>2. End \in anchor.end .. End
  BY <1>1 DEF Tabled
<1>3. TableAfterRedo \in [Slot -> Entries(End)]
  BY <1>1, <1>2, TableTyped, TableIsTableIn
<1>4. \A s \in Slot : TableAfterRedo[s].last \in 0 .. End
  BY <1>3 DEF Entries
<1> QED
  BY <1>4 DEF Losers

\* The log records that redo looks at.
LEMMA RedoneLogged ==
    ASSUME OnDisk, NEW i \in Items
    PROVE  /\ Redone(i) \subseteq 1 .. End
           /\ \A n \in Redone(i) : ValueAfter(n) \in 0 .. End
           /\ Image(i) \in 0 .. End
<1>1. LogInv /\ End \in Nat /\ stable \in 2 .. End /\ anchor.begin \in 1 .. stable
      /\ IsLog(log, End)
  BY Sizes DEF OnDisk, LogInv
<1>2. SkippedBefore \in 1 .. stable
  BY DEF OnDisk, SkippedBefore
<1>3. Max({anchor.begin, SkippedBefore}) \in 1 .. End
  <2> DEFINE S == {anchor.begin, SkippedBefore}
  <2>1. S \subseteq Nat /\ S # {} /\ \A x \in S : x <= End
    BY <1>1, <1>2
  <2>2. S \subseteq 1 .. End
    BY <1>1, <1>2
  <2> HIDE DEF S
  <2>3. Max(S) \in S
    BY <1>1, <2>1, MaxIs
  <2> QED
    BY <2>2, <2>3 DEF S
<1>4. \A n \in Redone(i) : n \in 1 .. End /\ Touches(n, i)
  BY <1>1, <1>3 DEF Redone
<1>5. ASSUME NEW n \in Redone(i)
      PROVE  ValueAfter(n) \in 0 .. End
  <2>1. n \in 1 .. End /\ log[n].type \in {"UPDATE", "COMPENSATION"}
    BY <1>4 DEF Touches
  <2>2. OfTrans(log[n])
    BY <2>1 DEF OfTrans
  <2>3. LinkOk(log, log[n], n)
    BY <1>1, <2>1, <2>2, LogFacts
  <2>4. CASE log[n].type = "UPDATE"
    BY <1>1, <2>1, <2>4 DEF ValueAfter
  <2>5. CASE log[n].type = "COMPENSATION"
    <3>1. log[n].undone \in 1 .. n - 1 /\ log[log[n].undone].type = "UPDATE"
      BY <2>3, <2>5 DEF LinkOk
    <3>2. log[n].undone \in 1 .. End /\ OfTrans(log[log[n].undone])
      BY <1>1, <2>1, <3>1 DEF OfTrans
    <3>3. LinkOk(log, log[log[n].undone], log[n].undone)
      BY <1>1, <3>2, LogFacts
    <3>4. log[log[n].undone].before \in 0 .. End
      BY <1>1, <3>1, <3>2, <3>3 DEF LinkOk
    <3>5. ValueAfter(n) = log[log[n].undone].before
      BY <2>5 DEF ValueAfter
    <3> QED
      BY <3>4, <3>5
  <2> QED
    BY <2>1, <2>4, <2>5
<1>6. Image(i) \in 0 .. End
  <2>1. db[i] \subseteq 0 .. stable /\ db[i] # {}
    BY DEF OnDisk
  <2>2. Image(i) \in db[i]
    BY <2>1 DEF Image
  <2> QED
    BY <1>1, <2>1, <2>2
<1> QED
  BY <1>4, <1>5, <1>6

LEMMA RedoTyped ==
    ASSUME OnDisk
    PROVE  Redo \in [Items -> 0 .. End]
<1>1. End \in Nat
  BY Sizes DEF OnDisk
<1>2. ASSUME NEW i \in Items
      PROVE  (IF Redone(i) = {} THEN Image(i) ELSE ValueAfter(Max(Redone(i)))) \in 0 .. End
  <2>1. Redone(i) \subseteq Nat /\ \A x \in Redone(i) : x <= End
    BY <1>1, RedoneLogged
  <2>2. Redone(i) # {} => Max(Redone(i)) \in Redone(i)
    BY <1>1, <2>1, MaxIs
  <2> QED
    BY <2>2, RedoneLogged
<1> QED
  BY <1>2 DEF Redo

LEMMA BackOutTyped ==
    ASSUME LogInv, NEW values \in [Items -> 0 .. End], NEW lasts, lasts \subseteq 0 .. End
    PROVE  BackOut(values, lasts) \in [Items -> 0 .. End]
<1> DEFINE undone == {n \in UNION {Chain(l) : l \in lasts} :
                        Readable(n) /\ log[n].type = "UPDATE"}
           on(i) == {n \in undone : log[n].item = i}
           value(i) == IF on(i) = {} THEN values[i] ELSE log[Min(on(i))].before
<1>1. End \in Nat /\ IsLog(log, End) /\ Linked(log, End)
  BY Sizes, LogFacts DEF LogInv
<1>2. \A l \in 0 .. End : Chain(l) \subseteq 1 .. End
  <2>1. \A l \in 0 .. End : ChainIn(log, End, l) \subseteq 1 .. l
    BY <1>1, ChainBelow
  <2> QED
    BY <1>1, <2>1, ChainIsChainIn
<1>3. undone \subseteq 1 .. End /\ undone \subseteq Nat
      /\ \A n \in undone : log[n].type = "UPDATE"
  BY <1>1, <1>2
<1>4. \A n \in undone : log[n].before \in 0 .. End
  <2> TAKE n \in undone
  <2>1. n \in 1 .. End /\ log[n].type = "UPDATE" /\ OfTrans(log[n])
    BY <1>3 DEF OfTrans
  <2>2. LinkOk(log, log[n], n)
    BY <1>1, <2>1, LogFacts
  <2> QED
    BY <1>1, <2>1, <2>2 DEF LinkOk
<1> HIDE DEF undone
<1>5. ASSUME NEW i \in Items PROVE value(i) \in 0 .. End
  <2>1. on(i) \subseteq undone
    OBVIOUS
  <2>3. on(i) \subseteq Nat
    BY <1>3, <2>1, Zenon
  <2> HIDE DEF on
  <2>2. on(i) # {} => Min(on(i)) \in undone
    BY <2>1, <2>3, MinIs
  <2> QED
    BY <1>4, <2>2
<1>6. BackOut(values, lasts) = [i \in Items |-> value(i)]
  BY DEF BackOut, undone
<1> HIDE DEF value
<1> QED
  BY <1>5, <1>6

LEMMA RecoveredTyped == OnDisk => Recovered \in [Items -> 0 .. End]
<1> SUFFICES ASSUME OnDisk PROVE Recovered \in [Items -> 0 .. End]
  OBVIOUS
<1>1. LogInv /\ Redo \in [Items -> 0 .. End] /\ Losers \subseteq 0 .. End
  BY RedoTyped, LosersLogged DEF OnDisk
<1> QED
  BY <1>1, BackOutTyped DEF Recovered

LEMMA RecoveredTypedNext == OnDisk' => (Recovered \in [Items -> 0 .. End])'
BY RecoveredTyped, PTL

\* A crash keeps a prefix of the log.
LEMMA LogPrefix ==
    ASSUME IsLog(log, End), NEW k \in 0 .. End, log' = SubSeq(log, 1, k)
    PROVE  IsLog(log', End') /\ End' = k /\ Agree(log', log, k)
<1>1. End \in Nat /\ End <= MaxLog /\ GoodLog(log, End) /\ MaxLog \in Nat
  BY LogFacts, RecoveryAssumption
<1>2. \A n \in 1 .. k : log[n] \in Record
  BY <1>1, LogFacts
<1>3. /\ log' \in Seq(Record) /\ Len(log') = k
      /\ \A n \in 1 .. k : log'[n] = log[n]
  <2>1. /\ log' \in Seq(Record) /\ Len(log') = IF 1 <= k THEN k - 1 + 1 ELSE 0
        /\ \A n \in 1 .. k - 1 + 1 : log'[n] = log[1 + n - 1]
    BY <1>2, SubSeqProperties
  <2>2. (IF 1 <= k THEN k - 1 + 1 ELSE 0) = k /\ k - 1 + 1 = k
    BY <1>1
  <2>3. \A n \in 1 .. k : 1 + n - 1 = n
    BY <1>1
  <2>4. Len(log') = k
    BY <2>1, <2>2, Zenon
  <2> HIDE DEF End
  <2>5. \A n \in 1 .. k : log'[n] = log[n]
    BY <2>1, <2>2, <2>3
  <2> QED
    BY <2>1, <2>4, <2>5, Zenon
<1>4. End' = k
  BY <1>3, Zenon DEF End
<1>5. Agree(log', log, k) /\ Agree(log, log', k)
  BY <1>3 DEF Agree
<1>6. GoodLog(log', k)
  BY <1>1, <1>5, GoodLogSame
<1> QED
  BY <1>1, <1>3, <1>4, <1>5, <1>6 DEF IsLog

LEMMA CrashKeeps ==
    ASSUME Inv, Crash
    PROVE  Inv'
<1> USE DEF Inv
<1>1. PICK k \in stable .. End, a \in anchorLSN,
           image \in {f \in [Items -> UNION {db[i] : i \in Items}] : \A i \in Items : f[i] \in db[i]} :
        /\ log' = SubSeq(log, 1, k) /\ stable' = k
        /\ db' = [i \in Items |-> {image[i]}] /\ anchorLSN' = {a}
  BY DEF Crash
<1>2. /\ up' = FALSE /\ crashes < MaxCrash /\ crashes' = crashes + 1
      /\ UNCHANGED <<anchor, deleted, unsettled>>
      /\ mem' = Recovered'
      /\ dirty' = {} /\ dirty0' = FALSE /\ gDirty' = 0
      /\ trans' = [s \in Slot |-> NoTrans] /\ owner' = [i \in Items |-> 0] /\ nextId' = 1
      /\ work' = Idle /\ stage' = "none"
  BY DEF Crash
<1>3. IsLog(log, End) /\ End \in Nat /\ stable \in 2 .. End /\ k \in 0 .. End
      /\ anchor.begin \in 1 .. stable /\ anchor.end \in 1 .. stable
  BY Sizes DEF LogInv
<1>4. IsLog(log', End') /\ End' = k /\ \A n \in 1 .. k : log'[n] = log[n]
  BY <1>1, <1>3, LogPrefix DEF Agree
<1>5. stable' \in 2 .. End' /\ 1 .. stable \subseteq 1 .. stable' /\ 0 .. stable \subseteq 0 .. stable'
  BY <1>1, <1>3, <1>4
<1>6. LogInv'
  <2>1. log'[anchor.begin] = log[anchor.begin] /\ log'[anchor.end] = log[anchor.end]
    BY <1>1, <1>3, <1>4
  <2> QED
    BY <1>2, <1>4, <1>5, <2>1 DEF LogInv, File
<1>7. db' \in [Items -> (SUBSET (0 .. stable')) \ {{}}]
  <2>1. \A i \in Items : image[i] \in 0 .. stable'
    BY <1>5 DEF DiskInv
  <2> DEFINE V == (SUBSET (0 .. stable')) \ {{}}
  <2>2. \A i \in Items : {image[i]} \in V
    BY <2>1
  <2> HIDE DEF V
  <2>3. db' \in [Items -> V]
    BY <1>1, <2>2
  <2> QED
    BY <2>3 DEF V
<1>8. anchorLSN' \in (SUBSET (1 .. stable')) \ {{}}
  BY <1>1, <1>5 DEF DiskInv
<1>9. mem' \in [Items -> 0 .. End']
  <2>1. OnDisk'
    BY <1>6, <1>7, <1>8 DEF OnDisk
  <2>2. (Recovered \in [Items -> 0 .. End])'
    BY <2>1, RecoveredTypedNext
  <2> QED
    BY <1>2, <2>2
<1>10. DiskInv'
  <2>1. dirty' \subseteq Items /\ dirty0' \in BOOLEAN
    BY <1>2
  <2>2. gDirty' \in 0 .. 2
    BY <1>2
  <2> QED
    BY <1>7, <1>8, <1>9, <2>1, <2>2 DEF DiskInv
<1>11. SlotInv'
  <2>1. NoTrans \in Trans
    BY RecoveryAssumption DEF NoTrans, Trans, LSN
  <2>2. \A s \in Slot : SlotOk(log', End', NoTrans, s, work')
    BY <1>4, NoTransFree
  <2>3. 1 \in Id
    BY RecoveryAssumption DEF Id
  <2> QED
    BY <1>2, <2>1, <2>2, <2>3 DEF SlotInv
<1>12. WorkInv'
  BY <1>2, RecoveryAssumption DEF WorkInv, Idle, LSN
<1>13. StageInv'
  <2>1. \A s \in Slot : ~Used(s)'
    BY <1>2 DEF Used, NoTrans
  <2>2. crashes' \in 0 .. MaxCrash
    BY <1>2, RecoveryAssumption DEF StageInv
  <2>3. stable' = End'
    BY <1>1, <1>4
  <2> QED
    BY <1>2, <2>1, <2>2, <2>3 DEF StageInv
<1> QED
  BY <1>6, <1>10, <1>11, <1>12, <1>13

LEMMA OpenKeeps ==
    ASSUME Inv, Open
    PROVE  Inv'
<1> USE DEF Inv
<1>1. /\ ~up /\ up' = TRUE /\ dirty' \subseteq Items
      /\ dirty0' \in {~Complete, ~Complete \/ dirty' # {}}
      /\ gDirty' \in {0, 2}
      /\ work' \in {Idle, [Idle EXCEPT !.op = "restart"]}
      /\ unsettled' \in {End, 0} /\ nextId' = SetNextTransID(0)
      /\ UNCHANGED <<mem, db, anchorLSN, log, stable, anchor, deleted, trans, owner, stage, crashes>>
  BY DEF Open, logs
<1>2. Grows /\ End' = End /\ End \in Nat /\ stable \in 2 .. End /\ stable = End
      /\ work = Idle /\ stage = "none" /\ \A s \in Slot : ~Used(s)
  BY <1>1, GrowsSame, Sizes DEF StageInv
<1>3. LogInv'
  <2>1. unsettled' \in 0 .. stable
    BY <1>1, <1>2
  <2> QED
    BY <1>1, <1>2, <2>1 DEF LogInv, Grows, File
<1>4. DiskInv'
  <2>1. dirty0' \in BOOLEAN
    BY <1>1, Zenon
  <2>2. gDirty' \in 0 .. 2
    BY <1>1
  <2> QED
    BY <1>1, <1>2, <2>1, <2>2 DEF DiskInv
<1>5. SlotInv'
  <2>1. \A s \in Slot : SlotOk(log', End', trans[s], s, work')
    BY <1>1, <1>2, SlotGrown DEF LogInv, SlotInv, Grows, Idle, Ending, Aborting
  <2>2. nextId' \in Id
    BY <1>1, NextIds, RecoveryAssumption
  <2> QED
    BY <1>1, <2>1, <2>2 DEF SlotInv
<1>6. WorkInv'
  BY <1>1, RecoveryAssumption DEF WorkInv, Idle, LSN
<1>7. StageInv'
  BY <1>1, <1>2 DEF StageInv
<1> QED
  BY <1>3, <1>4, <1>5, <1>6, <1>7

-----------------------------------------------------------------------------

LEMMA StepKeeps ==
    ASSUME Inv, [Next]_vars
    PROVE  Inv'
<1>1. CASE TransNext
  BY <1>1, BeginKeeps, UndoStepKeeps, EndPartialRollbackKeeps, EndAbortKeeps, EndCommitKeeps,
     PartialRollbackKeeps, AbortKeeps, CommitKeeps, DoUpdateKeeps DEF TransNext
<1>2. CASE CheckpointNext
  BY <1>2, CheckpointAtCommitKeeps, CheckpointKeeps, CheckpointPagesKeeps,
     CheckpointPage0Keeps, CheckpointEndKeeps, CheckpointAnchorKeeps, DeleteLogFilesKeeps,
     ReplaceBufferKeeps DEF CheckpointNext
<1>3. CASE Crash
  BY <1>3, CrashKeeps
<1>4. CASE Open
  BY <1>4, OpenKeeps
<1>5. CASE UNCHANGED vars
  <2> USE DEF Inv
  <2>1. UNCHANGED <<mem, pages, log, stable, anchor, deleted, trans, nextId, owner, work, stage, up, unsettled, crashes>>
    BY <1>5 DEF vars, logs, life
  <2>2. Grows /\ End' = End /\ End \in Nat /\ stable \in 2 .. End
    BY <2>1, GrowsSame, Sizes
  <2>3. LogInv' /\ DiskInv'
    BY <2>1, <2>2, LogInvKept, DiskInvKept
  <2>4. SlotInv'
    BY <2>1, <2>2, SlotInvKept
  <2>5. WorkInv'
    BY <2>1, <2>2, WorkInvKept
  <2>6. StageInv'
    BY <2>1, <2>2 DEF StageInv, Used, pages
  <2> QED
    BY <2>3, <2>4, <2>5, <2>6
<1> QED
  BY <1>1, <1>2, <1>3, <1>4, <1>5 DEF Next

\* In every reachable state the records of a transaction are linked back to its
\* TRANS_BEGIN_LOG, the slots and END_CHKPT records name such records, what is
\* undone is among them, and disk and log anchor fit the flushed log
\* (LogMgr_WriteLogRecord, TransMgr_Implicit_Savepoint, LogRec_Undo_Trans,
\* _Checkpointing, LogMgr_Restart).
THEOREM InvHolds == Spec => []Inv
<1>1. Init => Inv
  BY Starts
<1>2. Inv /\ [Next]_vars => Inv'
  BY StepKeeps
<1> QED
  BY <1>1, <1>2, PTL DEF Spec

\* The type invariant, whatever circumstances Faults allows.
THEOREM TypeCorrect == Spec => []TypeOK
<1>1. Inv => TypeOK
  <2> SUFFICES ASSUME Inv PROVE TypeOK
    OBVIOUS
  <2> USE DEF Inv
  <2>1. End \in Nat /\ End <= MaxLog /\ stable \in 2 .. End /\ MaxLog \in Nat
        /\ anchor.begin \in 1 .. stable /\ anchor.end \in 1 .. stable
        /\ 0 .. End \subseteq LSN /\ 0 .. stable \subseteq LSN /\ 1 .. stable \subseteq LSN
    BY Sizes, RecoveryAssumption DEF LSN
  <2>2. mem \in [Items -> LSN]
    BY <2>1 DEF DiskInv
  <2>3. db \in [Items -> (SUBSET LSN) \ {{}}]
    <3> DEFINE V == (SUBSET (0 .. stable)) \ {{}}
               W == (SUBSET LSN) \ {{}}
    <3>1. V \subseteq W
      BY <2>1
    <3>2. db \in [Items -> V]
      BY DEF DiskInv
    <3> HIDE DEF V, W
    <3>3. db \in [Items -> W]
      BY <3>1, <3>2
    <3> QED
      BY <3>3 DEF W
  <2>4. anchorLSN \in (SUBSET LSN) \ {{}}
    BY <2>1 DEF DiskInv
  <2>5. deleted \in 0 .. File(stable)
    <3>1. File(anchor.begin) <= File(stable) /\ File(anchor.begin) \in Nat /\ File(stable) \in Nat
      BY <2>1, Files
    <3> QED
      BY <3>1 DEF LogInv
  <2>6. dirty \subseteq Items /\ dirty0 \in BOOLEAN /\ gDirty \in 0 .. 2
    BY DEF DiskInv
  <2>7. trans \in [Slot -> Trans] /\ nextId \in 1 .. MaxId - 1 /\ owner \in [Items -> Slot \cup {0}]
    BY DEF SlotInv, Id
  <2>8. work.op \in {"idle", "partial", "abort", "commit", "restart"} /\ work.next \in LSN
    BY DEF WorkInv
  <2>9. stage \in {"none", "pages", "page0", "end", "anchor", "delete"}
        /\ up \in BOOLEAN /\ crashes \in 0 .. MaxCrash
    BY DEF StageInv
  <2>10. unsettled \in LSN
    BY <2>1 DEF LogInv
  <2>11. log[anchor.begin].type = "BEGIN_CHKPT" /\ log[anchor.end].type = "END_CHKPT"
    BY DEF LogInv
  <2> QED
    BY <2>1, <2>2, <2>3, <2>4, <2>5, <2>6, <2>7, <2>8, <2>9, <2>10, <2>11 DEF TypeOK
<1> QED
  BY <1>1, InvHolds, PTL

\* No image that a crash may leave on disk holds an update whose log record is
\* lost with it: every page write follows a flush of the log
\* (CheckPoint_Segment, _Checkpointing).
THEOREM PagesBehindLog == Spec => []WriteAhead
<1>1. Inv => WriteAhead
  BY Sizes DEF Inv, DiskInv, WriteAhead
<1> QED
  BY <1>1, InvHolds, PTL
=============================================================================
