------------------------------- MODULE TTree -------------------------------
(***************************************************************************)
(* The T-tree of an index: a binary tree balanced by height whose nodes    *)
(* hold up to TNODE_MAX_ITEM records in key order (mdb_TTree.c,            *)
(* mdb_TTreeNode.c, mdb_TTree_Insert.c, mdb_TTree_Remove.c).  The module   *)
(* has no state of its own: every function of the source is an operator    *)
(* from a tree to a tree or to a position in it.                           *)
(*                                                                         *)
(* A tree t is a record                                                    *)
(*   root   root_[0]                                                       *)
(*   node   the slots of the index segment, each the struct TTreeNode      *)
(*   free   the slots no node occupies                                     *)
(* A slot that is freed keeps what it held: Index_Collect_FreeSlot         *)
(* overwrites its first word only.  `key' gives the key of a record, the   *)
(* fields of the record itself that the index is on.                       *)
(*                                                                         *)
(* A function of the source that exists for the left and for the right     *)
(* side is written once, with the side as a parameter, where the two are   *)
(* mirror images.                                                          *)
(***************************************************************************)
EXTENDS Integers, FiniteSets

CONSTANTS
    Record,     \* records of the table
    Node,       \* slots of the index segment
    MaxItem,    \* TNODE_MAX_ITEM
    MinItem     \* TNODE_MIN_ITEM

ASSUME TTreeAssumption ==
    /\ Record \subseteq Nat \ {0} /\ Node \subseteq Nat \ {0}
    /\ MaxItem \in Nat /\ MinItem \in 2 .. MaxItem

Nil == 0        \* NULL_OID
Slot == 0 .. MaxItem - 1
NoPos == [node |-> Nil, idx |-> 0]

Opp(s) == IF s = "left" THEN "right" ELSE "left"
Higher(a, b) == IF a > b THEN a ELSE b
Lower(a, b) == IF a < b THEN a ELSE b

Blank == [parent |-> Nil, left |-> Nil, right |-> Nil, height |-> 0,
          type |-> "root", count |-> 0, item |-> [i \in Slot |-> Nil]]
EmptyTree == [root |-> Nil, node |-> [n \in Node |-> Blank], free |-> Node]

-----------------------------------------------------------------------------
(* The nodes a node is linked to.                                          *)

\* Rightmost node of the left subtree and leftmost node of the right subtree.
RECURSIVE Outmost(_, _, _)
Outmost(t, n, s) == IF t.node[n][s] = Nil THEN n ELSE Outmost(t, t.node[n][s], s)

TTree_GlbChild(t, n) ==
    IF t.node[n].left = Nil THEN Nil ELSE Outmost(t, t.node[n].left, "right")
TTree_LubChild(t, n) ==
    IF t.node[n].right = Nil THEN Nil ELSE Outmost(t, t.node[n].right, "left")
TTree_SmallestChild(t) == IF t.root = Nil THEN Nil ELSE Outmost(t, t.root, "left")
TTree_GreatestChild(t) == IF t.root = Nil THEN Nil ELSE Outmost(t, t.root, "right")

\* Climbs while the node is a child on side s; type_ says which side that is.
RECURSIVE Climb(_, _, _)
Climb(t, n, s) ==
    CASE t.node[n].type = s -> Climb(t, t.node[n].parent, s)
      [] t.node[n].type = Opp(s) -> t.node[n].parent
      [] OTHER -> Nil

TTree_NextNode(t, n) ==
    IF t.node[n].right # Nil THEN TTree_LubChild(t, n) ELSE Climb(t, n, "right")
TTree_PrevNode(t, n) ==
    IF t.node[n].left # Nil THEN TTree_GlbChild(t, n) ELSE Climb(t, n, "left")

-----------------------------------------------------------------------------
(* The items of a node.                                                    *)

TTreeNode_Create(parent, type, r) ==
    [Blank EXCEPT !.parent = parent, !.type = type, !.count = 1, !.item[0] = r]

Greatest(N) == N.item[N.count - 1]

TTreeNode_InsertKey(N, i, r) ==
    [N EXCEPT !.count = @ + 1,
              !.item = [j \in Slot |-> CASE j = i -> r
                                         [] j > i /\ j <= N.count -> @[j - 1]
                                         [] OTHER -> @[j]]]

\* Mutant: the record takes the place of its successor.
InsertKey_DeleteNext(N, i, r) ==
    [N EXCEPT !.item = [j \in Slot |-> CASE j < i -> @[j + 1]
                                         [] j = i + 1 -> r
                                         [] OTHER -> @[j]]]

TTreeNode_InsertKey_DeleteFirst(N, i, r) ==
    [N EXCEPT !.item = [j \in Slot |-> CASE j < i -> @[j + 1]
                                         [] j = i -> r
                                         [] OTHER -> @[j]]]

TTreeNode_DeleteKey(N, i) ==
    [N EXCEPT !.count = @ - 1,
              !.item = [j \in Slot |-> CASE j = N.count - 1 -> Nil
                                         [] j >= i /\ j < N.count - 1 -> @[j + 1]
                                         [] OTHER -> @[j]]]

\* A node that is emptied keeps its items.
Cut(N, rest, item) ==
    [N EXCEPT !.count = rest,
              !.item = IF rest > 0
                       THEN [j \in Slot |-> IF j < rest THEN item[j] ELSE Nil]
                       ELSE @]

\* The last k items of l to the front of r.
TTreeNode_MoveLeftToRight(t, l, r, k) ==
    LET L == t.node[l]  R == t.node[r]  rest == L.count - k
    IN  [t EXCEPT
           !.node[r].count = @ + k,
           !.node[r].item =
               [j \in Slot |-> CASE j < k -> L.item[rest + j]
                                 [] j >= k /\ j < k + R.count -> @[j - k]
                                 [] OTHER -> @[j]],
           !.node[l] = Cut(L, rest, L.item)]

\* The first k items of r to the end of l.
TTreeNode_MoveRightToLeft(t, l, r, k) ==
    LET L == t.node[l]  R == t.node[r]  rest == R.count - k
    IN  [t EXCEPT
           !.node[l].count = @ + k,
           !.node[l].item =
               [j \in Slot |-> IF j >= L.count /\ j < L.count + k
                               THEN R.item[j - L.count] ELSE @[j]],
           !.node[r] = Cut(R, rest, [j \in 0 .. rest - 1 |-> R.item[j + k]])]

-----------------------------------------------------------------------------
(* Heights and rotations.                                                  *)

\* What the subtree below a link adds to the height of the node it is in.
Branch(t, n) == IF n = Nil THEN 0 ELSE t.node[n].height + 1

SetHeight(t, n) ==
    [t EXCEPT !.node[n].height =
        Higher(Branch(t, t.node[n].left), Branch(t, t.node[n].right))]

\* Node c, if there is one, becomes the child of p on side s.
Adopt(t, c, p, s) ==
    IF c = Nil THEN t ELSE [t EXCEPT !.node[c].parent = p, !.node[c].type = s]

\* Node n takes the place of old below np, whose height is computed again.
Replace(t, np, old, n) ==
    IF np = Nil THEN [t EXCEPT !.root = n]
    ELSE LET side == IF t.node[np].left = old THEN "left" ELSE "right"
         IN  SetHeight([t EXCEPT !.node[np][side] = n], np)

\* N2, the child of N1 on side s, takes the place of N1.
Rotate(t, N1, s) ==
    LET NP == t.node[N1].parent
        N2 == t.node[N1][s]
        N5 == t.node[N2][Opp(s)]
        linked == Adopt([t EXCEPT
                    !.node[N1] = [@ EXCEPT !.parent = N2, ![s] = N5, !.type = Opp(s)],
                    !.node[N2] = [@ EXCEPT !.parent = NP, ![Opp(s)] = N1,
                                           !.type = t.node[N1].type]], N5, N1, s)
    IN  Replace(SetHeight(SetHeight(linked, N1), N2), NP, N1, N2)

TTree_LL_Rotate(t, N1) == Rotate(t, N1, "left")
TTree_RR_Rotate(t, N1) == Rotate(t, N1, "right")

Move(t, n, to, k, s) ==
    IF s = "left" THEN TTreeNode_MoveLeftToRight(t, n, to, k)
                  ELSE TTreeNode_MoveRightToLeft(t, to, n, k)

\* N5, the inner child of the child N2 of N1 on side s, takes the place of N1.
\* When it was a leaf it may hold less than an inner node should: it is filled
\* from N2, which keeps one item.
RotateTwice(t, N1, s) ==
    LET NP == t.node[N1].parent
        N2 == t.node[N1][s]
        N5 == t.node[N2][Opp(s)]
        N6 == t.node[N5][s]
        N7 == t.node[N5][Opp(s)]
        linked == Adopt(Adopt([t EXCEPT
                    !.node[N1] = [@ EXCEPT !.parent = N5, ![s] = N7, !.type = Opp(s)],
                    !.node[N2] = [@ EXCEPT !.parent = N5, ![Opp(s)] = N6, !.type = s],
                    !.node[N5] = [@ EXCEPT !.parent = NP, ![s] = N2, ![Opp(s)] = N1,
                                           !.type = t.node[N1].type]],
                        N6, N2, Opp(s)), N7, N1, s)
        high == SetHeight(SetHeight(SetHeight(linked, N1), N2), N5)
        lack == MinItem - t.node[N5].count
        full == IF lack > 0 /\ N6 = Nil
                THEN Move(high, N2, N5, Lower(lack, t.node[N2].count - 1), s)
                ELSE high
    IN  Replace(full, NP, N1, N5)

TTree_LR_Rotate(t, N1) == RotateTwice(t, N1, "left")
TTree_RL_Rotate(t, N1) == RotateTwice(t, N1, "right")

\* The rotation that suits a node one of whose subtrees is two levels higher.
RotateAt(t, n) ==
    LET N == t.node[n]
    IN  IF Branch(t, N.left) > Branch(t, N.right)
        THEN LET L == t.node[N.left]
             IN  IF Branch(t, L.left) >= Branch(t, L.right)
                 THEN TTree_LL_Rotate(t, n) ELSE TTree_LR_Rotate(t, n)
        ELSE LET R == t.node[N.right]
             IN  IF Branch(t, R.right) >= Branch(t, R.left)
                 THEN TTree_RR_Rotate(t, n) ELSE TTree_RL_Rotate(t, n)

Unbalanced(t, n) ==
    LET delta == Branch(t, t.node[n].left) - Branch(t, t.node[n].right)
    IN  delta > 1 \/ delta < -1

\* After an insertion one rotation is enough.
RECURSIVE TTree_Rebalance_For_Insert(_, _)
TTree_Rebalance_For_Insert(t, n) ==
    LET high == SetHeight(t, n)
        p == t.node[n].parent
    IN  CASE Unbalanced(t, n) -> RotateAt(high, n)
          [] ~Unbalanced(t, n) /\ p # Nil -> TTree_Rebalance_For_Insert(high, p)
          [] OTHER -> high

\* Mutant: only the node that lost a child is looked at.
Rebalance_Here(t, n) ==
    LET high == SetHeight(t, n)
    IN  IF Unbalanced(t, n) THEN RotateAt(high, n) ELSE high

\* After a removal every node on the way to the root may need one.
RECURSIVE TTree_Rebalance_For_Delete(_, _)
TTree_Rebalance_For_Delete(t, n) ==
    LET high == SetHeight(t, n)
        done == IF Unbalanced(t, n) THEN RotateAt(high, n) ELSE high
        p == done.node[n].parent
    IN  IF p = Nil THEN done ELSE TTree_Rebalance_For_Delete(done, p)

-----------------------------------------------------------------------------
(* Insertion.                                                              *)

MinKey(t, key, n) == key[t.node[n].item[0]]
MaxKey(t, key, n) == key[Greatest(t.node[n])]

\* The node the search for the place of key k ends at: it bounds k, or has no
\* child on the side k is on.
RECURSIVE Bounding(_, _, _, _)
Bounding(t, key, n, k) ==
    LET N == t.node[n]
    IN  CASE k < MinKey(t, key, n) /\ N.left # Nil -> Bounding(t, key, N.left, k)
          [] k > MaxKey(t, key, n) /\ N.right # Nil -> Bounding(t, key, N.right, k)
          [] OTHER -> n

MakeChild(t, n, s, r, slot) ==
    TTree_Rebalance_For_Insert(
        [t EXCEPT !.free = @ \ {slot},
                  !.node[slot] = TTreeNode_Create(n, s, r),
                  !.node[n] = [@ EXCEPT ![s] = slot, !.height = 1]], slot)

TTree_MakeLeftChild(t, n, r, slot) == MakeChild(t, n, "left", r, slot)
TTree_MakeRightChild(t, n, r, slot) == MakeChild(t, n, "right", r, slot)

\* Mutant: the test for room is off by one.
AppendItem_OneMore(t, n, r, slot) ==
    LET N == t.node[n]
    IN  IF N.count <= MaxItem
        THEN [t EXCEPT !.node[n] = TTreeNode_InsertKey(N, N.count, r)]
        ELSE TTree_MakeRightChild(t, n, r, slot)

\* Record r next to the last item of n, or in a new node to its right.
AppendItem(t, n, r, slot) ==
    LET N == t.node[n]
    IN  IF N.count < MaxItem
        THEN [t EXCEPT !.node[n] = TTreeNode_InsertKey(N, N.count, r)]
        ELSE TTree_MakeRightChild(t, n, r, slot)

\* A node that is full gives its first item to the greatest node below it.
InsertBounded(t, key, n, r, slot) ==
    LET N == t.node[n]
        last == CHOOSE i \in 0 .. N.count - 1 :
                    /\ key[N.item[i]] <= key[r]
                    /\ \A j \in i + 1 .. N.count - 1 : key[N.item[j]] > key[r]
        kept == [t EXCEPT !.node[n] = TTreeNode_InsertKey_DeleteFirst(N, last, r)]
    IN  CASE N.count < MaxItem ->
               [t EXCEPT !.node[n] = TTreeNode_InsertKey(N, last + 1, r)]
          [] N.count = MaxItem /\ N.left = Nil ->
               TTree_MakeLeftChild(kept, n, N.item[0], slot)
          [] OTHER -> AppendItem(kept, TTree_GlbChild(t, n), N.item[0], slot)

\* The free slot `slot' is used if a node is needed.
TTree_InsertRecord(t, key, r, slot) ==
    IF t.root = Nil
    THEN [t EXCEPT !.root = slot, !.free = @ \ {slot},
                   !.node[slot] = TTreeNode_Create(Nil, "root", r)]
    ELSE LET n == Bounding(t, key, t.root, key[r])
             N == t.node[n]
         IN  CASE key[r] < MinKey(t, key, n) ->
                    IF N.count < MaxItem
                    THEN [t EXCEPT !.node[n] = TTreeNode_InsertKey(N, 0, r)]
                    ELSE TTree_MakeLeftChild(t, n, r, slot)
               [] key[r] > MaxKey(t, key, n) -> AppendItem(t, n, r, slot)
               [] OTHER -> InsertBounded(t, key, n, r, slot)

-----------------------------------------------------------------------------
(* Removal.                                                                *)

Free(t, n) == [t EXCEPT !.free = @ \cup {n}]

\* A node with one child, a leaf, takes all its items and the child is freed, or
\* as many as it has room for.
TTree_Merge_With_Left_Child(t, n) ==
    LET l == t.node[n].left
        all == t.node[l].count
        room == MaxItem - t.node[n].count
    IN  IF all > room THEN TTreeNode_MoveLeftToRight(t, l, n, room)
        ELSE TTree_Rebalance_For_Delete(
                Free([TTreeNode_MoveLeftToRight(t, l, n, all) EXCEPT
                        !.node[n].left = Nil, !.node[n].height = 0], l), n)

TTree_Merge_With_Right_Child(t, n) ==
    LET r == t.node[n].right
        all == t.node[r].count
        room == MaxItem - t.node[n].count
    IN  IF all > room THEN TTreeNode_MoveRightToLeft(t, n, r, room)
        ELSE TTree_Rebalance_For_Delete(
                Free([TTreeNode_MoveRightToLeft(t, n, r, all) EXCEPT
                        !.node[n].right = Nil, !.node[n].height = 0], r), n)

RemoveLeaf(t, n) ==
    LET p == t.node[n].parent
        freed == Free(t, n)
    IN  IF p = Nil THEN [freed EXCEPT !.root = Nil]
        ELSE TTree_Rebalance_For_Delete(Replace(freed, p, n, Nil), p)

\* What becomes of a node that lost an item and holds too few.
Shrink(t, n) ==
    LET N == t.node[n]
    IN  CASE N.left # Nil /\ N.right = Nil -> TTree_Merge_With_Left_Child(t, n)
          [] N.left = Nil /\ N.right # Nil -> TTree_Merge_With_Right_Child(t, n)
          [] OTHER -> IF N.count > 0 THEN t ELSE RemoveLeaf(t, n)

\* Removes item i of node n.  A node with two children that is less than half
\* full takes the greatest item of its left subtree.
TTree_Remove(t, n, i) ==
    LET cut == [t EXCEPT !.node[n] = TTreeNode_DeleteKey(@, i)]
        N == cut.node[n]
        g == TTree_GlbChild(cut, n)
        G == t.node[g]
        taken == [cut EXCEPT !.node[n] = TTreeNode_InsertKey(N, 0, Greatest(G)),
                             !.node[g] = TTreeNode_DeleteKey(G, G.count - 1)]
        enough == taken.node[g].count >= IF G.left = Nil THEN 1 ELSE MinItem
    IN  CASE N.count >= MinItem \div 2 -> cut
          [] N.count < MinItem \div 2 /\ N.left # Nil /\ N.right # Nil ->
               IF enough THEN taken ELSE Shrink(taken, g)
          [] OTHER -> Shrink(cut, n)

-----------------------------------------------------------------------------
(* Positions and searches.                                                 *)

Item(t, p) == t.node[p.node].item[p.idx]

TTree_Increment(t, p) ==
    IF p.idx < t.node[p.node].count - 1 THEN [p EXCEPT !.idx = @ + 1]
    ELSE [node |-> TTree_NextNode(t, p.node), idx |-> 0]

TTree_Decrement(t, p) ==
    LET prev == TTree_PrevNode(t, p.node)
    IN  CASE p.idx > 0 -> [p EXCEPT !.idx = @ - 1]
          [] p.idx = 0 /\ prev # Nil ->
               [node |-> prev, idx |-> t.node[prev].count - 1]
          [] OTHER -> NoPos

\* The positions of node n that hold key k: the binary search ends at the first.
Equals(t, key, n, k) == {i \in 0 .. t.node[n].count - 1 : key[t.node[n].item[i]] = k}

FirstOf(S) == CHOOSE i \in S : \A j \in S : i <= j
LastOf(S) == CHOOSE i \in S : \A j \in S : i >= j

\* Mutant: equal keys in the greatest node of the left subtree are passed over.
RECURSIVE FirstInNode(_, _, _, _)
FirstInNode(t, key, n, k) ==
    CASE n = Nil -> NoPos
      [] n # Nil /\ k < MinKey(t, key, n) -> FirstInNode(t, key, t.node[n].left, k)
      [] n # Nil /\ k > MaxKey(t, key, n) -> FirstInNode(t, key, t.node[n].right, k)
      [] OTHER -> LET S == Equals(t, key, n, k)
                  IN  IF S = {} THEN NoPos ELSE [node |-> n, idx |-> FirstOf(S)]

RECURSIVE FirstFrom(_, _, _, _)
FirstFrom(t, key, n, k) ==
    IF n = Nil THEN NoPos
    ELSE LET N == t.node[n]
             g == TTree_GlbChild(t, n)
             S == Equals(t, key, n, k)
         IN  CASE k < MinKey(t, key, n) -> FirstFrom(t, key, N.left, k)
               [] k = MinKey(t, key, n) ->
                    IF g # Nil /\ MaxKey(t, key, g) = k
                    THEN FirstFrom(t, key, N.left, k) ELSE [node |-> n, idx |-> 0]
               [] k > MaxKey(t, key, n) -> FirstFrom(t, key, N.right, k)
               [] OTHER -> IF S = {} THEN NoPos ELSE [node |-> n, idx |-> FirstOf(S)]

TTree_Get_First_Eq(t, key, k) == FirstFrom(t, key, t.root, k)

RECURSIVE LastFrom(_, _, _, _)
LastFrom(t, key, n, k) ==
    IF n = Nil THEN NoPos
    ELSE LET N == t.node[n]
             g == TTree_LubChild(t, n)
             S == Equals(t, key, n, k)
         IN  CASE k < MinKey(t, key, n) -> LastFrom(t, key, N.left, k)
               [] k > MaxKey(t, key, n) -> LastFrom(t, key, N.right, k)
               [] k = MaxKey(t, key, n) ->
                    IF g # Nil /\ MinKey(t, key, g) = k
                    THEN LastFrom(t, key, N.right, k)
                    ELSE [node |-> n, idx |-> N.count - 1]
               [] OTHER -> IF S = {} THEN NoPos ELSE [node |-> n, idx |-> LastOf(S)]

TTree_Get_Last_Eq(t, key, k) == LastFrom(t, key, t.root, k)

\* Mutant: the greatest node of the left subtree is not looked at.
RECURSIVE GeHere(_, _, _, _)
GeHere(t, key, n, k) ==
    CASE n = Nil -> NoPos
      [] n # Nil /\ k < MinKey(t, key, n) /\ t.node[n].left # Nil ->
           GeHere(t, key, t.node[n].left, k)
      [] n # Nil /\ k > MaxKey(t, key, n) -> GeHere(t, key, t.node[n].right, k)
      [] OTHER -> [node |-> n, idx |-> FirstOf({i \in 0 .. t.node[n].count - 1 :
                                                  k <= key[t.node[n].item[i]]})]

RECURSIVE GeFrom(_, _, _, _)
GeFrom(t, key, n, k) ==
    IF n = Nil THEN NoPos
    ELSE LET N == t.node[n]
             g == TTree_GlbChild(t, n)
             S == {i \in 0 .. N.count - 1 : k <= key[N.item[i]]}
         IN  CASE k <= MinKey(t, key, n) ->
                    IF g # Nil /\ k <= MaxKey(t, key, g)
                    THEN GeFrom(t, key, N.left, k) ELSE [node |-> n, idx |-> 0]
               [] k > MaxKey(t, key, n) -> GeFrom(t, key, N.right, k)
               [] OTHER -> [node |-> n, idx |-> FirstOf(S)]

TTree_Get_First_Ge(t, key, k) == GeFrom(t, key, t.root, k)

RECURSIVE LeFrom(_, _, _, _)
LeFrom(t, key, n, k) ==
    IF n = Nil THEN NoPos
    ELSE LET N == t.node[n]
             g == TTree_LubChild(t, n)
             S == {i \in 0 .. N.count - 1 : k >= key[N.item[i]]}
         IN  CASE k >= MaxKey(t, key, n) ->
                    IF g # Nil /\ k >= MinKey(t, key, g)
                    THEN LeFrom(t, key, N.right, k)
                    ELSE [node |-> n, idx |-> N.count - 1]
               [] k < MinKey(t, key, n) -> LeFrom(t, key, N.left, k)
               [] OTHER -> [node |-> n, idx |-> LastOf(S)]

TTree_Get_Last_Le(t, key, k) == LeFrom(t, key, t.root, k)

\* The number of records before position p.
RECURSIVE OffsetFrom(_, _, _)
OffsetFrom(t, n, p) ==
    IF n = p.node THEN p.idx
    ELSE t.node[n].count + OffsetFrom(t, TTree_NextNode(t, n), p)

TTree_Get_Offset(t, p) == OffsetFrom(t, TTree_SmallestChild(t), p)

\* The position that has `offset' records before it.
RECURSIVE SeekFrom(_, _, _)
SeekFrom(t, n, offset) ==
    CASE n = Nil -> NoPos
      [] n # Nil /\ offset < t.node[n].count -> [node |-> n, idx |-> offset]
      [] OTHER -> SeekFrom(t, TTree_NextNode(t, n), offset - t.node[n].count)

TTree_Seek_Offset(t, offset) == SeekFrom(t, TTree_SmallestChild(t), offset)

\* The records from `first' to `last', counted a node at a time.
RECURSIVE TTree_Get_ItemCount_Interval(_, _, _)
TTree_Get_ItemCount_Interval(t, first, last) ==
    CASE first.node = Nil -> 0
      [] first.node # Nil /\ first.node = last.node -> last.idx - first.idx + 1
      [] OTHER -> t.node[first.node].count - first.idx
                  + TTree_Get_ItemCount_Interval(
                        t, [node |-> TTree_NextNode(t, first.node), idx |-> 0], last)

\* The position of record r from p on, at or before `last'.
RECURSIVE Between(_, _, _, _)
Between(t, p, last, r) ==
    CASE p # NoPos /\ Item(t, p) = r -> p
      [] p # NoPos /\ Item(t, p) # r /\ p # last ->
           Between(t, TTree_Increment(t, p), last, r)
      [] OTHER -> NoPos

TTree_FindPositionWithValueAndID(t, key, r) ==
    LET last == TTree_Get_Last_Eq(t, key, key[r])
    IN  IF last # NoPos /\ Item(t, last) = r THEN last
        ELSE Between(t, TTree_Get_First_Eq(t, key, key[r]), last, r)

TTree_FindPositionWithID_Exaustive(t, r) ==
    LET n == TTree_SmallestChild(t)
    IN  IF n = Nil THEN NoPos
        ELSE Between(t, [node |-> n, idx |-> 0], NoPos, r)
=============================================================================
