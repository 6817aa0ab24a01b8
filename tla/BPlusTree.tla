------------------------------ MODULE BPlusTree ------------------------------
(* The B+ tree on a file (BTree/bpt.h, bpt.cc).  Nodes live at offsets of    *)
(* the file; a child's key separates it from the next child, and the last    *)
(* child keeps the key that separates its parent from the parent's sibling.  *)
(* A call works on copies of nodes and goes up the tree level by level:      *)
(* one action for the leaf, one for each level of the index.                 *)
EXTENDS Integers, FiniteSets, SequencesExt, TLC

CONSTANTS
  Keys,       \* the keys, positive numbers: 0 is the empty string, below all
  Values,
  order,      \* BP_ORDER
  Scripts,    \* calls a program starts with: sequences of <<name, key>>
  FreeCalls,  \* names of the calls it may go on with
  MaxCalls,   \* how many of them
  First       \* the value that is inserted

\* order is even and at least 4, as the class needs for its halves, and First
\* is one of the Values.

VARIABLES
  file,       \* the nodes on the file, by offset
  meta,       \* the object's meta
  metaOnFile, \* what a new object would read
  call,       \* the index level to be worked on, or Idle
  done,       \* whether the call does something
  script,     \* the calls to come
  free        \* the calls made after them

vars == <<file, meta, metaOnFile, call, done, script, free>>

EmptyKey == 0
None == 0
Idle == [fn |-> "idle"]

\* ---------------------------------------------------------------- searching
\* upper_bound and lower_bound over the first n entries of a sorted array: the
\* place of the first entry above k, of the first one not below it.
upper_bound(s, n, k) == 1 + Cardinality({i \in 1 .. n : s[i].key <= k})
lower_bound(s, n, k) == 1 + Cardinality({i \in 1 .. n : s[i].key < k})

\* find(internal_node_t): the child that covers k.
find(s, k) ==
  IF k # EmptyKey THEN upper_bound(s, Len(s) - 1, k)
  ELSE IF Len(s) > 1 THEN Len(s) - 1 ELSE 1

\* find(leaf_node_t)
BugFindNext(s, k) == upper_bound(s, Len(s), k)
findRecord(s, k) == lower_bound(s, Len(s), k)
Holds(s, k) == \E i \in DOMAIN s : s[i].key = k

\* One step down the index.
Below(offset, k) ==
  LET s == file[offset].children IN s[upper_bound(s, Len(s) - 1, k)].child

\* The node of the index whose children are leaves.
search_index(k) ==
  LET at[h \in 1 .. meta.height] ==
        IF h = meta.height THEN meta.root_offset ELSE Below(at[h + 1], k)
  IN  at[1]

search_leaf(k) == Below(search_index(k), k)

\* search: the record found, none for a return value other than 0.
search(k) ==
  LET s == file[search_leaf(k)].children
      i == findRecord(s, k)
  IN  IF i <= Len(s) /\ s[i].key = k THEN {s[i]} ELSE {}

\* The first n elements of s, or all of them.
Prefix(s, n) == IF n < Len(s) THEN SubSeq(s, 1, n) ELSE s

\* search_range, from the leaf at offset on: the records returned, at most max,
\* and whether there are more.  The first and the last leaf are searched for
\* left, the last one for right.
RECURSIVE Scan(_, _, _, _, _)
Scan(offset, isFirst, left, right, max) ==
  LET s == file[offset].children
      isLast == offset = search_leaf(right)
      part == SubSeq(s, IF isFirst \/ isLast THEN findRecord(s, left) ELSE 1,
                        IF isLast THEN upper_bound(s, Len(s), right) - 1 ELSE Len(s))
      rest == Scan(file[offset].next, FALSE, left, right, max - Len(part))
  IN  IF isLast \/ Len(part) >= max
      THEN [values |-> Prefix(part, max), next |-> Len(part) > max]
      ELSE [values |-> part \o rest.values, next |-> rest.next]

search_range(left, right, max) == Scan(search_leaf(left), TRUE, left, right, max)

\* ---------------------------------------------------------------- the calls
Entry(k, child) == [key |-> k, child |-> child]
Node(parent, next, prev, children) ==
  [parent |-> parent, next |-> next, prev |-> prev, children |-> children]

\* reset_index_children_parent: a file in which the children of s name parent.
Adopted(f, s, parent) ==
  LET kids == {s[i].child : i \in DOMAIN s}
  IN  [o \in DOMAIN f |-> IF o \in kids THEN [f[o] EXCEPT !.parent = parent] ELSE f[o]]

\* node_create and node_remove keep the next node's prev.
BugPrevKept(f, offset, prev) == f
WithPrev(f, offset, prev) == IF offset = None THEN f ELSE [f EXCEPT ![offset].prev = prev]

\* Every change of meta is written to the file with it.
BugMetaKept(m) == meta' = m /\ UNCHANGED metaOnFile
SaveMeta(m) == meta' = m /\ metaOnFile' = m

Return(d) == call' = Idle /\ done' = d

\* The program may make this call.
Calls(name, k) ==
  /\ call = Idle
  /\ \/ script # <<>> /\ Head(script) = <<name, k>> /\ script' = Tail(script) /\ UNCHANGED free
     \/ script = <<>> /\ name \in FreeCalls /\ free < MaxCalls /\ free' = free + 1 /\ UNCHANGED script

BugOverwrites(s, record) ==
  LET w == upper_bound(s, Len(s), record.key)
  IN  IF w <= Len(s) THEN [s EXCEPT ![w] = record] ELSE Append(s, record)
Inserted(s, record) ==
  LET w == upper_bound(s, Len(s), record.key) IN InsertAt(s, w, record)

\* Where a full node is split: how many entries stay in it.
SplitPoint(s, k) ==
  LET half == Len(s) \div 2 IN IF k > s[half + 1].key THEN half + 1 ELSE half

\* insert, up to the new index key.
Insert(k, v) ==
  LET parent == search_index(k)
      offset == Below(parent, k)
      leaf   == file[offset]
      s      == leaf.children
      record == [key |-> k, value |-> v]
      new    == meta.slot
      point  == SplitPoint(s, k)
      right  == k > s[Len(s) \div 2 + 1].key
      front  == SubSeq(s, 1, point)
      back   == SubSeq(s, point + 1, Len(s))
      sibling == Node(leaf.parent, leaf.next, offset, IF right THEN Inserted(back, record) ELSE back)
  IN  /\ Calls("insert", k)
      /\ \/ /\ Holds(s, k)
            /\ Return(FALSE) /\ UNCHANGED <<file, meta, metaOnFile>>
         \/ /\ ~Holds(s, k) /\ Len(s) < order
            /\ file' = [file EXCEPT ![offset].children = Inserted(s, record)]
            /\ Return(TRUE) /\ UNCHANGED <<meta, metaOnFile>>
         \/ /\ ~Holds(s, k) /\ Len(s) = order
            /\ file' = (new :> sibling) @@
                 [WithPrev(file, leaf.next, new) EXCEPT
                    ![offset].children = IF right THEN front ELSE Inserted(front, record),
                    ![offset].next = new]
            /\ SaveMeta([meta EXCEPT !.slot = new + 1, !.leaf_node_num = @ + 1])
            /\ call' = [fn |-> "insert_key_to_index", offset |-> parent,
                        key |-> sibling.children[1].key, old |-> offset, after |-> new]
            /\ done' = TRUE

\* insert_key_to_index_no_split: after follows the child that covers k.
KeyInserted(s, k, after) ==
  LET w == upper_bound(s, Len(s) - 1, k)
  IN  SubSeq(s, 1, w - 1) \o <<Entry(k, s[w].child), Entry(s[w].key, after)>> \o SubSeq(s, w + 1, Len(s))

\* How many children stay in a full node of the index.
IndexSplitPoint(s, k) ==
  LET half == (Len(s) - 1) \div 2 + 1
  IN  IF k > s[half].key /\ ~(k < s[half + 1].key) THEN half + 1 ELSE half

\* insert_key_to_index, one level: a new root, room, or a split.
InsertKeyToIndex ==
  LET offset == call.offset
      node   == file[offset]
      s      == node.children
      new    == meta.slot
      point  == IndexSplitPoint(s, call.key)
      right  == call.key > s[(Len(s) - 1) \div 2 + 1].key
      front  == SubSeq(s, 1, point)
      back   == SubSeq(s, point + 1, Len(s))
      sibling == Node(node.parent, node.next, offset,
                      IF right THEN KeyInserted(back, call.key, call.after) ELSE back)
      root   == Node(None, None, None, <<Entry(call.key, call.old), Entry(EmptyKey, call.after)>>)
  IN  /\ call.fn = "insert_key_to_index"
      /\ \/ /\ offset = None
            /\ SaveMeta([meta EXCEPT !.slot = new + 1, !.internal_node_num = @ + 1,
                                     !.height = @ + 1, !.root_offset = new])
            /\ file' = Adopted((new :> root) @@ file, root.children, new)
            /\ Return(done)
         \/ /\ offset # None /\ Len(s) < order
            /\ file' = [file EXCEPT ![offset].children = KeyInserted(s, call.key, call.after)]
            /\ Return(done) /\ UNCHANGED <<meta, metaOnFile>>
         \/ /\ offset # None /\ Len(s) = order
            /\ SaveMeta([meta EXCEPT !.slot = new + 1, !.internal_node_num = @ + 1])
            /\ file' = Adopted(
                 (new :> sibling) @@
                   [WithPrev(file, node.next, new) EXCEPT
                      ![offset].children = IF right THEN front ELSE KeyInserted(front, call.key, call.after),
                      ![offset].next = new],
                 sibling.children, new)
            /\ call' = [fn |-> "insert_key_to_index", offset |-> node.parent,
                        key |-> s[point].key, old |-> offset, after |-> new]
            /\ UNCHANGED done
      /\ UNCHANGED <<script, free>>

\* update
Update(k, v) ==
  LET offset == search_leaf(k)
      s == file[offset].children
  IN  /\ Calls("update", k)
      /\ \/ /\ Holds(s, k)
            /\ file' = [file EXCEPT ![offset].children[findRecord(s, k)].value = v]
            /\ Return(TRUE)
         \/ ~Holds(s, k) /\ Return(FALSE) /\ UNCHANGED file
      /\ UNCHANGED <<meta, metaOnFile>>

\* ------------------------------------------------------------------ removal
Least == order \div 2

\* change_parent_child: the separator o is set to k in a node of the index and,
\* while it is the last there, in the nodes above.
ChangedParents(f, parent, o, k) ==
  LET at[h \in 0 .. meta.height] ==
        IF h = 0 THEN <<parent>>
        ELSE LET up == at[h - 1]
                 s == f[Last(up)].children
             IN  IF find(s, o) = Len(s) THEN Append(up, f[Last(up)].parent) ELSE up
      path == at[meta.height]
  IN  [x \in DOMAIN f |->
         IF \E i \in DOMAIN path : path[i] = x
         THEN [f[x] EXCEPT !.children[find(f[x].children, o)].key = k] ELSE f[x]]

BugLendsAlways(offset) == offset # None
Lends(offset) == offset # None /\ Len(file[offset].children) # Least

\* borrow_key for a leaf whose records are s by now.
BorrowLeft(offset, leaf, s) ==
  LET t == file[leaf.prev].children
  IN  [ChangedParents(file, file[leaf.prev].parent, t[1].key, Last(t).key) EXCEPT
         ![leaf.prev].children = Front(t),
         ![offset].children = <<Last(t)>> \o s]
BugKeepsSeparator(offset, leaf, s) ==
  LET t == file[leaf.next].children
  IN  [file EXCEPT ![leaf.next].children = Tail(t), ![offset].children = Append(s, t[1])]
BorrowRight(offset, leaf, s) ==
  LET t == file[leaf.next].children
  IN  [ChangedParents(file, leaf.parent, s[1].key, t[2].key) EXCEPT
         ![leaf.next].children = Tail(t),
         ![offset].children = Append(s, t[1])]

\* node_remove: f without links to right, which follows left.
Unlinked(f, left, right) ==
  [WithPrev(f, f[right].next, f[right].prev) EXCEPT ![left].next = f[right].next]

\* merge_leafs of left and right with their records, and the key by which the
\* parent's entry is then found.
MergeLeafs(left, right, ls, rs, parent, key) ==
  /\ file' = [Unlinked(file, left, right) EXCEPT ![left].children = ls \o rs]
  /\ SaveMeta([meta EXCEPT !.leaf_node_num = @ - 1])
  /\ call' = [fn |-> "remove_from_index", offset |-> parent, node |-> file[parent], key |-> key]
  /\ done' = TRUE

\* remove, up to the index.
RemoveKey(k) ==
  LET parent  == search_index(k)
      p       == file[parent].children
      where   == find(p, k)
      offset  == p[where].child
      leaf    == file[offset]
      s       == RemoveAt(leaf.children, findRecord(leaf.children, k))
      min_n   == IF meta.leaf_node_num = 1 THEN 0 ELSE Least
      enough  == Len(s) >= min_n
      prev    == leaf.prev
      next    == leaf.next
  IN  /\ Calls("remove", k)
      /\ \/ /\ ~Holds(leaf.children, k)
            /\ Return(FALSE) /\ UNCHANGED <<file, meta, metaOnFile>>
         \/ /\ Holds(leaf.children, k) /\ enough
            /\ file' = [file EXCEPT ![offset].children = s]
            /\ Return(TRUE) /\ UNCHANGED <<meta, metaOnFile>>
         \/ /\ Holds(leaf.children, k) /\ ~enough /\ Lends(prev)
            /\ file' = BorrowLeft(offset, leaf, s)
            /\ Return(TRUE) /\ UNCHANGED <<meta, metaOnFile>>
         \/ /\ Holds(leaf.children, k) /\ ~enough /\ ~Lends(prev) /\ Lends(next)
            /\ file' = BorrowRight(offset, leaf, s)
            /\ Return(TRUE) /\ UNCHANGED <<meta, metaOnFile>>
         \/ /\ Holds(leaf.children, k) /\ ~enough /\ ~Lends(prev) /\ ~Lends(next)
            /\ IF where = Len(p)
               THEN MergeLeafs(prev, offset, file[prev].children, s, parent, file[prev].children[1].key)
               ELSE MergeLeafs(offset, next, s, file[next].children, parent, s[1].key)

\* The children of a node without the one that covers k: the next child takes
\* its key's place.
KeyRemoved(s, k) ==
  LET d == find(s, k)
  IN  IF d = Len(s) THEN Front(s)
      ELSE RemoveAt([s EXCEPT ![d + 1].child = s[d].child], d)

\* borrow_key for a node of the index, whose children are s by now.
BorrowKeyLeft(offset, node, s) ==
  LET t == file[node.prev].children
      up == file[node.prev].parent
      where == find(file[up].children, t[1].key)
  IN  Adopted([file EXCEPT ![up].children[where].key = t[Len(t) - 1].key,
                           ![node.prev].children = Front(t),
                           ![offset] = [node EXCEPT !.children = <<Last(t)>> \o s]],
              <<Last(t)>>, offset)
BorrowKeyRight(offset, node, s) ==
  LET t == file[node.next].children
      up == file[node.parent].children
      where == lower_bound(up, Len(up) - 1, Last(s).key)
  IN  Adopted([file EXCEPT ![node.parent].children[where].key = t[1].key,
                           ![node.next].children = Tail(t),
                           ![offset] = [node EXCEPT !.children = Append(s, t[1])]],
              <<t[1]>>, offset)

\* The two nodes are merged into left; the parent, a copy of which up is, is
\* next.
MergeKeys(left, right, leftNode, rightNode, up, parent, key) ==
  /\ file' = Adopted([Unlinked([file EXCEPT ![left] = leftNode, ![right] = rightNode], left, right)
                        EXCEPT ![left].children = leftNode.children \o rightNode.children],
                     rightNode.children, left)
  /\ SaveMeta([meta EXCEPT !.internal_node_num = @ - 1])
  /\ call' = [fn |-> "remove_from_index", offset |-> parent, node |-> up, key |-> key]

\* remove_from_index, one level: call.node is a copy not yet on the file.
RemoveFromIndex ==
  LET offset  == call.offset
      node    == [call.node EXCEPT !.children = KeyRemoved(@, call.key)]
      s       == node.children
      isRoot  == meta.root_offset = offset
      key     == call.node.children[1].key
      up      == file[node.parent]
      kids    == up.children
      first   == kids[1].child
      last    == Last(kids).child
      small   == ~isRoot /\ Len(s) < Least
      collapse == isRoot /\ Len(s) = 1 /\ meta.internal_node_num # 1
      left    == offset # first /\ Lends(node.prev)
      right   == offset # last /\ Lends(node.next)
  IN  /\ call.fn = "remove_from_index"
      /\ \/ /\ collapse
            /\ SaveMeta([meta EXCEPT !.internal_node_num = @ - 1, !.height = @ - 1, !.root_offset = s[1].child])
            /\ Return(done) /\ UNCHANGED file
         \/ /\ ~collapse /\ ~small
            /\ file' = [file EXCEPT ![offset] = node]
            /\ Return(done) /\ UNCHANGED <<meta, metaOnFile>>
         \/ /\ small /\ left
            /\ file' = BorrowKeyLeft(offset, node, s)
            /\ Return(done) /\ UNCHANGED <<meta, metaOnFile>>
         \/ /\ small /\ ~left /\ right
            /\ file' = BorrowKeyRight(offset, node, s)
            /\ Return(done) /\ UNCHANGED <<meta, metaOnFile>>
         \/ /\ small /\ ~left /\ ~right /\ UNCHANGED done
            /\ IF offset = last
               THEN LET prev == file[node.prev]
                        where == find(kids, prev.children[1].key)
                    IN  MergeKeys(node.prev, offset, prev, node,
                                  [up EXCEPT !.children[where].key = Last(s).key], node.parent, key)
               ELSE MergeKeys(offset, node.next, node, file[node.next], up, node.parent, key)
      /\ UNCHANGED <<script, free>>

\* The file is opened by a new object.
Reopen ==
  /\ call = Idle /\ meta' = metaOnFile
  /\ UNCHANGED <<file, metaOnFile, call, done, script, free>>

\* init_from_empty
EmptyMeta ==
  [internal_node_num |-> 1, leaf_node_num |-> 1, height |-> 1, slot |-> 3,
   root_offset |-> 1, leaf_offset |-> 2]
Empty ==
  /\ file = (1 :> Node(None, None, None, <<Entry(EmptyKey, 2)>>)) @@ (2 :> Node(1, None, None, <<>>))
  /\ meta = EmptyMeta /\ metaOnFile = EmptyMeta
  /\ call = Idle /\ done = TRUE /\ free = 0

Init == Empty /\ script \in Scripts

Next ==
  \/ \E k \in Keys : Insert(k, First) \/ RemoveKey(k)
  \/ \E k \in Keys, v \in Values : Update(k, v)
  \/ InsertKeyToIndex \/ RemoveFromIndex \/ Reopen

Spec == Init /\ [][Next]_vars

\* --------------------------------------------------------------- properties
Finished == call = Idle

\* The records, in the order of the leaves.
RECURSIVE RecordsFrom(_)
RecordsFrom(offset) ==
  LET leaf == file[offset]
  IN  leaf.children \o (IF leaf.next = None THEN <<>> ELSE RecordsFrom(leaf.next))
Records == RecordsFrom(meta.leaf_offset)

Contents == ToSet(Records)

\* The nodes of a level, from the left; level 0 is the root.
ChildrenOf(offset) == LET s == file[offset].children IN [i \in DOMAIN s |-> s[i].child]
RECURSIVE AllChildren(_)
AllChildren(s) == IF s = <<>> THEN <<>> ELSE ChildrenOf(Head(s)) \o AllChildren(Tail(s))
RECURSIVE Level(_)
Level(h) == IF h = 0 THEN <<meta.root_offset>> ELSE AllChildren(Level(h - 1))

\* Types: nodes at the offsets given out so far, and a pending call at one.
TypeOK ==
  /\ DOMAIN file = 1 .. meta.slot - 1
  /\ \A o \in DOMAIN file :
       /\ {file[o].parent, file[o].next, file[o].prev} \subseteq 0 .. meta.slot - 1
       /\ Len(file[o].children) <= order
  /\ call = Idle \/ call.fn \in {"insert_key_to_index", "remove_from_index"}
  /\ done \in BOOLEAN /\ free \in 0 .. MaxCalls

\* When a call has returned, search finds exactly the records on the leaves:
\* the separators of the index lead to the leaf that has the key (bpt.cc:65).
SearchFinds ==
  Finished => LET c == Contents IN
    \A k \in Keys : search(k) = {e \in c : e.key = k}

\* search_range returns the first records of the range, in order (bpt.cc:81).
RangeScanned ==
  Finished => LET r == Records IN
    \A lo, hi \in Keys : lo <= hi =>
      search_range(lo, hi, order + 1).values = Prefix(SelectSeq(r, LAMBDA e : e.key \in lo .. hi), order + 1)

\* The sizes that remove and remove_from_index assert (bpt.cc:146, 285): each
\* node but the root is at least half full.
HalfFull ==
  Finished =>
    \A h \in 1 .. meta.height : \A o \in ToSet(Level(h)) :
      h < meta.height \/ meta.leaf_node_num > 1 => Len(file[o].children) >= Least

\* The links a call uses to go sideways and up agree with the tree: next and
\* prev join the nodes of a level, parent names the node above (bpt.h:49).
\* The root's own parent is left out: only an insertion reads it.
LinksAgree ==
  Finished =>
    \A h \in 0 .. meta.height :
      LET level == Level(h)
      IN  \A i \in DOMAIN level :
            /\ file[level[i]].next = IF i = Len(level) THEN None ELSE level[i + 1]
            /\ file[level[i]].prev = IF i = 1 THEN None ELSE level[i - 1]
            /\ h < meta.height => \A o \in ToSet(ChildrenOf(level[i])) : file[o].parent = level[i]

\* A new object on the file goes on where this one is, and its counts are those
\* of the tree (bpt.h:25-33).
MetaOnFile ==
  Finished => LET leaves == Level(meta.height) IN
    /\ metaOnFile = meta
    /\ meta.leaf_offset = leaves[1] /\ meta.leaf_node_num = Len(leaves)
    /\ meta.internal_node_num = Cardinality(UNION {ToSet(Level(h)) : h \in 0 .. meta.height - 1})

\* The tree implements a dictionary: each call changes it at once, when it
\* changes a leaf; the work on the index is not seen.
Abstract == INSTANCE Dictionary WITH dict <- Contents
ActsAsDictionary == Abstract!Spec

==============================================================================
