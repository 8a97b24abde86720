----------------------------- MODULE IndexScan -----------------------------
(***************************************************************************)
(* A cursor that goes through an index forward and changes the records it  *)
(* visits, and so the index it goes through (mdb_TTreeIter.c,              *)
(* mdb_Iterator.c, mdb_Read.c, mdb_Update.c, mdb_Remove.c, driven by the   *)
(* loops of sql_update.c and sql_delete.c).                                *)
(*                                                                         *)
(* Other statements first insert and remove records; then one statement    *)
(* opens a cursor over the whole table, without filter, and holds the      *)
(* table in exclusive mode until it closes it.  The cursor keeps the       *)
(* position of the record it will read next (curr_) and of the last record *)
(* (last_), and the identity of the record it will read next (real_next):  *)
(* a change of the index moves records, and a cursor that finds another    *)
(* record than real_next at curr_ looks for real_next again.               *)
(***************************************************************************)
EXTENDS TTree, Sequences

CONSTANTS
    Key,            \* values of the indexed field, none of them 0
    KeyOf,          \* KeyOf[r]: the value record r is inserted with
    SmallTable,     \* 3 * TNODE_MAX_ITEM: with more records than this an entry is
                    \* removed by a search for its key, else by a search for its id
    ScanOn,         \* bound: the sets of records a cursor is opened on
    MaxMoves,       \* bound on the updates of one scan that change the key
    Faults          \* circumstances that are not excluded, see `Excused'

ASSUME IndexScanAssumption ==
    /\ Key \subseteq Nat \ {0}
    /\ KeyOf \in [Record -> Key]
    /\ SmallTable \in Nat /\ MaxMoves \in Nat /\ ScanOn \subseteq SUBSET Record
    /\ Faults \subseteq {"stale", "freed"}

VARIABLES
    tree,       \* the index
    key,        \* the indexed field of every record
    live,       \* the records of the table
    cursor,     \* the cursor (struct TTreeIterator)
    visited,    \* how often the statement changed or passed over each record
    moves       \* updates of the scan that changed the key

vars == <<tree, key, live, cursor, visited, moves>>

(* state     "none", "open", "closed", or "broken": the position is in no    *)
(*           node, reading there is undefined                                *)
(* kind      the statement: "update" and "delete" read before they change a  *)
(*           record, "field" changes fields without reading                  *)
(* to        "field": the constant the indexed field is set to, or 0         *)
(* stamped   the records that carry open_time_ and qsid_ of the cursor       *)
(* atOpen    the records of the table when the cursor was opened             *)
NoCursor == [state |-> "none", kind |-> "none", curr |-> NoPos, last |-> NoPos,
             real_next |-> Nil, to |-> 0, stamped |-> {}, atOpen |-> {}]

Init ==
    /\ tree = EmptyTree
    /\ key = KeyOf
    /\ live = {}
    /\ cursor = NoCursor
    /\ visited = [r \in Record |-> 0]
    /\ moves = 0

-----------------------------------------------------------------------------
(* The index entries of a record.                                          *)

\* Index_Collect_AllocateSlot may return any free slot: the segment is shared with
\* other indexes.  Slots without contents are interchangeable.
IsSlot(t, s) ==
    /\ s \in t.free
    /\ t.node[s] = Blank => \A f \in t.free : t.node[f] = Blank => s <= f

\* While no cursor is open the contents of a free slot make no difference.
Tidy(t) == [t EXCEPT !.node = [n \in Node |-> IF n \in t.free THEN Blank ELSE @[n]]]

TTree_RemoveRecord(t, r) ==
    LET p == IF Cardinality(live) > SmallTable
             THEN TTree_FindPositionWithValueAndID(t, key, r)
             ELSE TTree_FindPositionWithID_Exaustive(t, r)
    IN  IF p = NoPos THEN t ELSE TTree_Remove(t, p.node, p.idx)

Insert(r) ==
    /\ cursor.state = "none" /\ r \notin live
    /\ \E s \in Node : /\ IsSlot(tree, s)
                       /\ tree' = TTree_InsertRecord(tree, key, r, s)
    /\ live' = live \cup {r}
    /\ UNCHANGED <<key, cursor, visited, moves>>

Delete(r) ==
    /\ cursor.state = "none" /\ r \in live
    /\ tree' = Tidy(TTree_RemoveRecord(tree, r))
    /\ live' = live \ {r}
    /\ UNCHANGED <<key, cursor, visited, moves>>

-----------------------------------------------------------------------------
(* The cursor.                                                             *)

Iter_Current(t, c) ==
    IF c.curr.node = Nil THEN Nil ELSE Item(t, c.curr)

Broken(c) == [c EXCEPT !.state = "broken"]
AtEnd(c) == [c EXCEPT !.curr = NoPos]

\* TTree_NextNode may find no node: the caller reads the position all the same.
TTree_Find_Next_Without_Filter(t, c) ==
    LET N == t.node[c.curr.node]
        last == N.count - 1
        next == IF c.curr.node = c.last.node \/ c.curr.idx < last
                THEN [c.curr EXCEPT !.idx = @ + 1]
                ELSE [node |-> TTree_NextNode(t, c.curr.node), idx |-> 0]
    IN  CASE c.curr.node = c.last.node /\ c.curr.idx \in {c.last.idx, last} -> AtEnd(c)
          [] next.node = Nil \/ next.idx \notin Slot -> Broken(c)
          [] OTHER -> [c EXCEPT !.curr = next]

\* Records the cursor has changed are passed over.
RECURSIVE Iter_FindNext(_, _)
Iter_FindNext(t, c) ==
    LET next == TTree_Find_Next_Without_Filter(t, c)
        r == Iter_Current(t, next)
    IN  CASE next.state = "broken" \/ next.curr = NoPos -> next
          [] next.state # "broken" /\ next.curr # NoPos /\ r \in c.stamped ->
               Iter_FindNext(t, next)
          [] OTHER -> [next EXCEPT !.real_next = r]

\* First and last position of a record the cursor has not changed.
RECURSIVE TTree_Set_First(_, _, _)
TTree_Set_First(t, c, p) ==
    IF p = NoPos \/ Item(t, p) \notin c.stamped THEN p
    ELSE TTree_Set_First(t, c, TTree_Increment(t, p))

RECURSIVE TTree_Set_Last(_, _, _)
TTree_Set_Last(t, c, p) ==
    IF p = NoPos \/ Item(t, p) \notin c.stamped THEN p
    ELSE TTree_Set_Last(t, c, TTree_Decrement(t, p))

\* The ends of the range of keys min .. max, none when no record is in it.
TTreeIter_Create(t, min, max) ==
    LET first == TTree_Get_First_Ge(t, key, min)
        last == TTree_Get_Last_Le(t, key, max)
    IN  IF first = NoPos \/ last = NoPos \/ min > key[Item(t, last)]
        THEN [first |-> NoPos, last |-> NoPos]
        ELSE [first |-> first, last |-> last]

\* The n records from position p on.
RECURSIVE Following(_, _, _)
Following(t, p, n) ==
    IF n = 0 THEN << >>
    ELSE <<Item(t, p)>> \o
         Following(t, IF n = 1 THEN p ELSE TTree_Increment(t, p), n - 1)

TTree_GetOidSet(t, range) ==
    Following(t, range.first,
              TTree_Get_Offset(t, range.last) - TTree_Get_Offset(t, range.first) + 1)

FirstPos(t) == IF t.root = Nil THEN NoPos ELSE [node |-> TTree_SmallestChild(t), idx |-> 0]
LastPos(t) ==
    LET n == TTree_GreatestChild(t)
    IN  IF n = Nil THEN NoPos ELSE [node |-> n, idx |-> t.node[n].count - 1]

TTree_Restart(t, c) ==
    [c EXCEPT !.curr = TTree_Set_First(t, c, FirstPos(t)),
              !.last = TTree_Set_Last(t, c, LastPos(t))]

\* From the first record with the key of real_next on to real_next itself.
RECURSIVE Seek(_, _)
Seek(t, c) ==
    IF \/ c.state = "broken" \/ c.curr = NoPos
       \/ Item(t, c.curr) = c.real_next
    THEN c
    ELSE Seek(t, TTree_Find_Next_Without_Filter(t, c))

TTree_RealNext(t, c) ==
    LET p == TTree_Get_First_Eq(t, key, key[c.real_next])
    IN  Seek(t, IF p = NoPos THEN c ELSE [c EXCEPT !.curr = p])

Found(c) == [c EXCEPT !.real_next = Nil]

\* Mutant: the last position is not looked up again.
Read_NoRestart(t, c) ==
    Found(IF c.real_next # Nil /\ c.real_next # Iter_Current(t, c)
          THEN TTree_RealNext(t, c) ELSE c)

\* The head of __Read: the cursor is placed again if the index moved its record.
Read(t, c) ==
    Found(IF c.real_next # Nil /\ c.real_next # Iter_Current(t, c)
          THEN TTree_RealNext(t, TTree_Restart(t, c)) ELSE c)

\* The head of __Update, Update_Field and __Remove.
Position(t, c) ==
    Found(IF c.real_next # Nil THEN TTree_RealNext(t, TTree_Restart(t, c)) ELSE c)

-----------------------------------------------------------------------------
(* The statement.                                                          *)

\* No restart will follow, and the cursor goes on from a node that the index no
\* longer has, or to a last position that is not the last any more.  Nothing in
\* the code excludes either; see README.
Unnoticed(t, c) == c.real_next # Nil /\ c.real_next = Iter_Current(t, c)
Excused(t, c) ==
    \/ ~Unnoticed(t, c)
    \/ /\ "freed" \in Faults \/ c.curr.node \notin t.free
       /\ "stale" \in Faults \/ c.kind # "update"
            \/ c.last = TTree_Set_Last(t, c, LastPos(t))

Open(kind) ==
    /\ cursor.state = "none" /\ live \in ScanOn
    /\ \E to \in IF kind = "field" THEN Key \cup {0} ELSE {0} :
         cursor' = TTree_Restart(tree, [cursor EXCEPT !.state = "open", !.kind = kind,
                                                      !.to = to, !.atOpen = live])
    /\ UNCHANGED <<tree, key, live, visited, moves>>

\* The cursor where the statement reads or changes the next record.
Here == IF cursor.kind = "field" THEN Position(tree, cursor) ELSE Read(tree, cursor)

OnRecord == cursor.state = "open" /\ Here.state = "open" /\ Here.curr # NoPos

Visit(r) == visited' = [visited EXCEPT ![r] = @ + 1]

\* The condition of the statement does not hold of the record.
Skip ==
    /\ OnRecord /\ cursor.kind \in {"update", "delete"}
    /\ cursor' = Iter_FindNext(tree, Here)
    /\ Visit(Item(tree, Here.curr))
    /\ UNCHANGED <<tree, key, live, moves>>

\* The record is overwritten between the removal of its entry and the insertion
\* of the new one.
Update(k) ==
    /\ OnRecord /\ cursor.kind \in {"update", "field"}
    /\ LET r == Item(tree, Here.curr)
           moved == k # key[r]
           removed == IF moved THEN TTree_RemoveRecord(tree, r) ELSE tree
       IN  /\ cursor.kind = "field" => k = IF cursor.to = 0 THEN key[r] ELSE cursor.to
           /\ moved /\ cursor.kind = "update" => moves < MaxMoves
           /\ moves' = IF moved /\ cursor.kind = "update" THEN moves + 1 ELSE moves
           /\ key' = [key EXCEPT ![r] = k]
           /\ cursor' = [Iter_FindNext(tree, Here) EXCEPT !.stamped = @ \cup {r}]
           /\ IF moved
              THEN \E s \in Node : /\ IsSlot(removed, s)
                                   /\ tree' = TTree_InsertRecord(removed, key', r, s)
              ELSE tree' = tree
           /\ Excused(tree', cursor')
           /\ Visit(r)
    /\ UNCHANGED live

Remove ==
    /\ OnRecord /\ cursor.kind = "delete"
    /\ LET r == Item(tree, Here.curr)
       IN  /\ cursor' = Iter_FindNext(tree, Here)
           /\ tree' = TTree_RemoveRecord(tree, r)
           /\ live' = live \ {r}
           /\ Excused(tree', cursor')
           /\ Visit(r)
    /\ UNCHANGED <<key, moves>>

Close ==
    /\ cursor.state = "open" /\ ~OnRecord
    /\ cursor' = [Here EXCEPT !.state = IF @ = "open" THEN "closed" ELSE @]
    /\ UNCHANGED <<tree, key, live, visited, moves>>

Next ==
    \/ \E r \in Record : Insert(r) \/ Delete(r)
    \/ \E kind \in {"update", "field", "delete"} : Open(kind)
    \/ Skip
    \/ \E k \in Key : Update(k)
    \/ Remove
    \/ Close

Spec == Init /\ [][Next]_vars

-----------------------------------------------------------------------------
(* Properties.                                                             *)

NodeType == [parent : Node \cup {Nil}, left : Node \cup {Nil}, right : Node \cup {Nil},
             height : Nat, type : {"root", "left", "right"}, count : 0 .. MaxItem,
             item : [Slot -> Record \cup {Nil}]]
Pos == [node : Node \cup {Nil}, idx : Slot]

\* Every variable holds a value of its type.
TypeOK ==
    /\ tree.root \in Node \cup {Nil} /\ tree.free \subseteq Node
    /\ \A n \in Node : tree.node[n] \in NodeType
    /\ key \in [Record -> Key]
    /\ live \subseteq Record
    /\ cursor \in [state : {"none", "open", "closed", "broken"},
                   kind : {"none", "update", "field", "delete"},
                   curr : Pos, last : Pos, real_next : Record \cup {Nil},
                   to : Key \cup {0}, stamped : SUBSET Record, atOpen : SUBSET Record]
    /\ visited \in [Record -> Nat]
    /\ moves \in 0 .. MaxMoves

Used == Node \ tree.free

\* The tree is linked both ways, is balanced, every height is exact, no node is
\* empty and no slot is lost: what the rotations and merges of
\* mdb_TTree_Insert.c and mdb_TTree_Remove.c have to keep.
Balanced ==
    /\ (tree.root = Nil) <=> (Used = {})
    /\ \A n \in Used :
         LET N == tree.node[n]
         IN  /\ N.count > 0
             /\ N.height = Higher(Branch(tree, N.left), Branch(tree, N.right))
             /\ ~Unbalanced(tree, n)
             /\ \A s \in {"left", "right"} : N[s] # Nil =>
                  /\ N[s] \in Used
                  /\ tree.node[N[s]].parent = n /\ tree.node[N[s]].type = s
             /\ IF n = tree.root THEN N.parent = Nil /\ N.type = "root"
                ELSE N.parent \in Used /\ tree.node[N.parent][N.type] = n

\* The records from position p on, in the order of TTree_Increment.
RECURSIVE From(_)
From(p) == IF p = NoPos THEN << >> ELSE <<Item(tree, p)>> \o From(TTree_Increment(tree, p))

\* Going through the index from its first position visits every record of the
\* table once, in the order of the keys, whatever was inserted and removed.
Ordered ==
    LET all == From(FirstPos(tree))
    IN  /\ {all[i] : i \in 1 .. Len(all)} = live
        /\ Len(all) = Cardinality(live)
        /\ \A i \in 1 .. Len(all) - 1 : key[all[i]] <= key[all[i + 1]]

\* The search for a key and an id, which removals from large tables rely on,
\* finds every record of the table, in whichever node records with the same key
\* are.
Findable ==
    \A r \in live :
        LET p == TTree_FindPositionWithValueAndID(tree, key, r)
        IN  p # NoPos /\ Item(tree, p) = r

\* A range of keys, whatever node its ends are in, holds exactly the records of
\* the table with a key in it, however many have the same: the list a direct
\* deletion works from and the count of a cursor agree with the table, and a
\* range no key of which is in the table is found empty.  A cursor that seeks to
\* the offset of a position is there.
RangeExact ==
    cursor.state = "none" =>
        \A min \in Key, max \in Key :
            LET range == TTreeIter_Create(tree, min, max)
                within == {r \in live : min <= key[r] /\ key[r] <= max}
                all == TTree_GetOidSet(tree, range)
            IN  IF range.first = NoPos THEN within = {}
                ELSE /\ {all[i] : i \in 1 .. Len(all)} = within
                     /\ Len(all) = Cardinality(within)
                     /\ TTree_Get_ItemCount_Interval(tree, range.first, range.last)
                          = Len(all)
                     /\ TTree_Seek_Offset(tree, TTree_Get_Offset(tree, range.last))
                          = range.last

\* A statement that goes through the index it changes visits every record the
\* table had when it started, once, and ends without leaving the index
\* (the comments at mdb_Iterator.c:486 and mdb_TTreeIter.c:349).
ScanExact ==
    /\ \A r \in Record : visited[r] <= 1
    /\ cursor.state = "closed" =>
         {r \in Record : visited[r] = 1} = cursor.atOpen
    /\ cursor.state # "broken"
=============================================================================
