------------------------------ MODULE SegmentTree ------------------------------
(***************************************************************************)
(* cpputil::data_structure::SegmentTree (src/data_structure/segment_tree): *)
(* sums over ranges of an array of Length numbers, with lazy marks for     *)
(* what was added to a whole range.  Node n has the children 2n and 2n+1.  *)
(*                                                                         *)
(* The member functions recur from a node to its children.  Here they are  *)
(* functions for every height h of a node, given those for the height      *)
(* below, from the tree, the node and the first element that it covers.    *)
(*                                                                         *)
(* The point update does not push marks down.  Below a node with a mark it *)
(* gives wrong sums, which the history variable damaged records; the tree  *)
(* is not followed further.                                                *)
(***************************************************************************)
EXTENDS Integers

CONSTANTS Height,      \* of the root
          Increments,  \* what is added
          MaxOps       \* bound: updates and queries

ASSUME SegmentTreeAssumption ==
  Height \in Nat /\ Increments \subseteq Int /\ MaxOps \in Nat

VARIABLES tree,     \* tree.sum and tree.lazy: sum_ and lazy_add_
          arr,      \* history: the array the tree stands for
          damaged,  \* history: a point update has gone below a mark
          ops

treeVars == <<tree, arr, damaged, ops>>

\* How many elements a node of height h covers; the length is a power of two.
Size[h \in 0..Height] == IF h = 0 THEN 1 ELSE 2 * Size[h - 1]
Length == Size[Height]

Elements == 1..Length
Slots == 1..(2 * Length - 1)
Trees == [sum : [Slots -> Int], lazy : [Slots -> Int]]

Right(a, h) == a + Size[h] - 1
Middle(a, b) == (a + b) \div 2

\* Build: all values are zero, and so are all sums.
TreeInit == /\ tree = [sum |-> [n \in Slots |-> 0], lazy |-> [n \in Slots |-> 0]]
            /\ arr = [i \in Elements |-> 0]
            /\ damaged = FALSE
            /\ ops = 0

PushUp(t, n) == [sum  |-> [t.sum EXCEPT ![n] = t.sum[2 * n] + t.sum[2 * n + 1]],
                 lazy |-> t.lazy]

\* MUTANT: the mark is handed to the children and kept.
PushDown_KeepMark(t, n, a, b) ==
  LET m == Middle(a, b)
      add == t.lazy[n]
  IN [sum  |-> [t.sum EXCEPT ![2 * n] = @ + add * (m - a + 1),
                             ![2 * n + 1] = @ + add * (b - m)],
      lazy |-> [t.lazy EXCEPT ![2 * n] = @ + add, ![2 * n + 1] = @ + add]]

\* The mark of node n, which covers a..b, goes to its children.
PushDown(t, n, a, b) ==
  LET m == Middle(a, b)
      add == t.lazy[n]
  IN [sum  |-> [t.sum EXCEPT ![2 * n] = @ + add * (m - a + 1),
                             ![2 * n + 1] = @ + add * (b - m)],
      lazy |-> [t.lazy EXCEPT ![2 * n] = @ + add, ![2 * n + 1] = @ + add,
                              ![n] = 0]]
-----------------------------------------------------------------------------
\* Update of a range that holds all of node n.
AddToNode(t, n, inc, h) == [sum  |-> [t.sum EXCEPT ![n] = @ + inc * Size[h]],
                            lazy |-> [t.lazy EXCEPT ![n] = @ + inc]]

\* Update(k_range, increment, current, current_range).
AddAt(below, h, l, r, inc) ==
  [t \in Trees |-> [n \in Slots |-> [a \in Elements |->
     LET b == Right(a, h)
         m == Middle(a, b)
         t1 == PushDown(t, n, a, b)
         t2 == IF l <= m THEN below[t1][2 * n][a] ELSE t1
         t3 == IF m + 1 <= r THEN below[t2][2 * n + 1][m + 1] ELSE t2
     IN IF l <= a /\ b <= r THEN AddToNode(t, n, inc, h) ELSE PushUp(t3, n)]]]

\* The range holds every leaf that is reached.
AddToRange(l, r, inc) ==
  LET add[h \in 0..Height] ==
        IF h = 0
        THEN [t \in Trees |-> [n \in Slots |-> [a \in Elements |->
                AddToNode(t, n, inc, 0)]]]
        ELSE AddAt(add[h - 1], h, l, r, inc)
  IN add[Height]

\* Update(k, increment, current, current_range).
AddPointAt(below, h, k) ==
  [t \in Trees |-> [n \in Slots |-> [a \in Elements |->
     LET m == Middle(a, Right(a, h))
     IN PushUp(IF k <= m THEN below[t][2 * n][a]
               ELSE below[t][2 * n + 1][m + 1], n)]]]

AddToPoint(k, inc) ==
  LET add[h \in 0..Height] ==
        IF h = 0
        THEN [t \in Trees |-> [n \in Slots |-> [a \in Elements |->
                [sum |-> [t.sum EXCEPT ![n] = @ + inc], lazy |-> t.lazy]]]]
        ELSE AddPointAt(add[h - 1], h, k)
  IN add[Height]

\* Query: the result, and the tree with the marks it has pushed down.
AskAt(below, h, l, r) ==
  [t \in Trees |-> [n \in Slots |-> [a \in Elements |->
     LET b == Right(a, h)
         m == Middle(a, b)
         t1 == PushDown(t, n, a, b)
         left == IF l <= m THEN below[t1][2 * n][a] ELSE [tree |-> t1, res |-> 0]
         right == IF m + 1 <= r THEN below[left.tree][2 * n + 1][m + 1]
                  ELSE [tree |-> left.tree, res |-> 0]
     IN IF l <= a /\ b <= r THEN [tree |-> t, res |-> t.sum[n]]
        ELSE [tree |-> right.tree, res |-> left.res + right.res]]]]

Ask(l, r) ==
  LET ask[h \in 0..Height] ==
        IF h = 0
        THEN [t \in Trees |-> [n \in Slots |-> [a \in Elements |->
                [tree |-> t, res |-> t.sum[n]]]]]
        ELSE AskAt(ask[h - 1], h, l, r)
  IN ask[Height]

\* The nodes above the leaf of element k.
Above(k) == LET leaf == Length - 1 + k
            IN {n \in Slots : \E h \in 1..Height :
                  n * Size[h] <= leaf /\ leaf < (n + 1) * Size[h]}
-----------------------------------------------------------------------------
Bound == ~damaged /\ ops < MaxOps /\ ops' = ops + 1

UpdateRange(l, r, inc) ==
  /\ Bound
  /\ tree' = AddToRange(l, r, inc)[tree][1][1]
  /\ arr' = [i \in Elements |-> IF i \in l..r THEN arr[i] + inc ELSE arr[i]]
  /\ UNCHANGED damaged

UpdatePoint(k, inc) ==
  /\ Bound
  /\ tree' = AddToPoint(k, inc)[tree][1][1]
  /\ arr' = [arr EXCEPT ![k] = @ + inc]
  /\ damaged' = (\E n \in Above(k) : tree.lazy[n] # 0)

\* A query rearranges the marks.
Query(l, r) ==
  /\ Bound
  /\ tree' = Ask(l, r)[tree][1][1].tree
  /\ UNCHANGED <<arr, damaged>>

TreeNext == \/ \E l \in Elements : \E r \in l..Length :
                 Query(l, r) \/ \E inc \in Increments : UpdateRange(l, r, inc)
            \/ \E k \in Elements, inc \in Increments : UpdatePoint(k, inc)

TreeSpec == TreeInit /\ [][TreeNext]_treeVars
-----------------------------------------------------------------------------
\* A[l] + ... + A[r], for an array A.
RangeSum(A, l, r) ==
  LET upTo[i \in 0..Length] == IF i = 0 THEN 0 ELSE upTo[i - 1] + A[i]
  IN upTo[r] - upTo[l - 1]

\* Whatever updates and queries came before, each range query yields the sum of
\* the array's elements, unless a point update has gone below a mark.
QueriesAgree ==
  damaged \/ \A l \in Elements : \A r \in l..Length :
                Ask(l, r)[tree][1][1].res = RangeSum(arr, l, r)
=============================================================================
