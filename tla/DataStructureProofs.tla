------------------------ MODULE DataStructureProofs -------------------------
(***************************************************************************)
(* Proofs about LockFreeStack, for any number of threads and of nodes, and *)
(* about SegmentTree, for any height of the tree and any increments.       *)
(***************************************************************************)
EXTENDS LockFreeStack, SegmentTree, FiniteSetTheorems, SequenceTheorems,
        WellFoundedInduction, TLAPS

OnStack(n) == \E i \in 1..Len(stack) : stack[i] = n

\* Every node is somewhere.
NodeSomewhere ==
  \A n \in Nodes : \/ \E t \in Threads : n \in mine[t] \/ node[t] = n
                   \/ OnStack(n) \/ n \in freed

\* ... and in one place only.
NodeOnce ==
  /\ \A t \in Threads : \A n \in mine[t] :
        /\ ~OnStack(n) /\ n \notin freed
        /\ \A u \in Threads : node[u] # n /\ (n \in mine[u] => u = t)
  /\ \A t \in Threads : node[t] # Null =>
        /\ ~OnStack(node[t]) /\ node[t] \notin freed
        /\ \A u \in Threads : node[u] = node[t] => u = t
  /\ \A i \in 1..Len(stack) :
        /\ stack[i] \notin freed
        /\ \A j \in 1..Len(stack) : stack[i] = stack[j] => i = j

\* What a thread knows at each of its positions.  The link a Pop has read is
\* the link of its node as long as the node is on the stack, unless the node
\* has been pushed again.
Positions ==
  \A t \in Threads :
     /\ node[t] # Null <=> pc[t] \in {"pushLoad", "pushLink", "pushCas"}
     /\ pc[t] = "pushCas" => next[node[t]] = old[t]
     /\ pc[t] \in {"popNext", "popCas"} => old[t] # Null
     /\ pc[t] = "popCas" /\ t \notin stale /\ OnStack(old[t])
           => new[t] = next[old[t]]

Inv == /\ TypeOK /\ NodeSomewhere /\ NodeOnce
       /\ ~aba => Positions
       /\ OnlyAbaBreaksChain
-----------------------------------------------------------------------------
\* What a push does to the sequence of nodes.
LEMMA PushSeq ==
  ASSUME NEW s \in Seq(Nodes), NEW n \in Nodes
  PROVE  LET p == <<n>> \o s
         IN /\ p \in Seq(Nodes) /\ p # <<>> /\ Len(p) = Len(s) + 1
            /\ p[1] = n
            /\ \A i \in 2..Len(p) : i - 1 \in 1..Len(s) /\ p[i] = s[i - 1]
            /\ \A i \in 1..Len(s) : p[i + 1] = s[i]
  OBVIOUS

\* What a pop does to the sequence of nodes.
LEMMA PopSeq ==
  ASSUME NEW s \in Seq(Nodes), s # <<>>
  PROVE  /\ Tail(s) \in Seq(Nodes) /\ Len(Tail(s)) = Len(s) - 1
         /\ Len(s) \in Nat \ {0} /\ s[1] \in Nodes
         /\ Tail(s) = <<>> <=> Len(s) = 1
         /\ \A i \in 1..Len(Tail(s)) : /\ Tail(s)[i] = s[i + 1]
                                       /\ i + 1 \in 2..Len(s)
         /\ \A i \in 2..Len(s) : s[i] = Tail(s)[i - 1] /\ i - 1 \in 1..Len(Tail(s))
<1>1. /\ Tail(s) \in Seq(Nodes) /\ Len(Tail(s)) = Len(s) - 1
      /\ Len(s) \in Nat \ {0}
      /\ \A i \in 1..Len(Tail(s)) : Tail(s)[i] = s[i + 1]
  BY HeadTailProperties, EmptySeq
<1>2. s[1] \in Nodes
  BY <1>1, ElementOfSeq
<1>3. Tail(s) = <<>> <=> Len(s) = 1
  BY <1>1, EmptySeq
<1>4. \A i \in 2..Len(s) : i - 1 \in 1..Len(Tail(s)) /\ i - 1 + 1 = i
  BY <1>1
<1>5. \A i \in 1..Len(Tail(s)) : i + 1 \in 2..Len(s)
  BY <1>1
<1> QED BY <1>1, <1>2, <1>3, <1>4, <1>5

\* The invariant holds initially.
LEMMA InitInv == Init => Inv
<1> SUFFICES ASSUME Init PROVE Inv
  OBVIOUS
<1>1. PICK owner \in [Nodes -> Threads] :
         mine = [t \in Threads |-> {n \in Nodes : owner[n] = t}]
  BY DEF Init
<1>2. TypeOK
  <2>1. mine \in [Threads -> SUBSET Nodes] /\ stack \in Seq(Nodes)
    BY <1>1, EmptySeq DEF Init
  <2> QED BY <2>1 DEF Init, TypeOK, Ptr
<1>3. stack = <<>> /\ Len(stack) = 0 /\ 1..Len(stack) = {}
  BY DEF Init
<1>4. NodeSomewhere /\ NodeOnce
  BY <1>1, <1>3, StackAssumption DEF Init, NodeSomewhere, NodeOnce, OnStack
<1>5. Positions /\ OnlyAbaBreaksChain
  BY <1>3 DEF Init, Positions, OnlyAbaBreaksChain, OnStack
<1> QED BY <1>2, <1>4, <1>5 DEF Inv

\* A step that leaves nodes where they are leaves the ownership facts alone.
LEMMA SamePlaces ==
  ASSUME Inv, UNCHANGED <<mine, node, stack, freed>>
  PROVE  NodeSomewhere' /\ NodeOnce'
  BY DEF Inv, NodeSomewhere, NodeOnce, OnStack

\* The top of a stack that is not empty is head_, and an empty one has none.
LEMMA HeadIsTop ==
  ASSUME Inv, ~aba
  PROVE  /\ head # Null <=> stack # <<>>
         /\ head # Null => head = stack[1] /\ 1 \in 1..Len(stack)
         /\ Len(stack) > 1 => head # Null /\ next[head] = stack[2]
         /\ Len(stack) = 1 => head # Null /\ next[head] = Null
<1>1. stack # <<>> => Len(stack) \in Nat \ {0} /\ stack[1] \in Nodes
  BY PopSeq DEF Inv, TypeOK
<1>2. Len(<<>>) = 0
  BY EmptySeq
<1>3. head = IF stack = <<>> THEN Null ELSE stack[1]
  BY DEF Inv, OnlyAbaBreaksChain
<1>4. head # Null <=> stack # <<>>
  BY <1>1, <1>3, StackAssumption
<1>5. head # Null => head = stack[1] /\ 1 \in 1..Len(stack)
  BY <1>1, <1>3, <1>4
<1>6. Len(stack) \in Nat
  BY <1>1, <1>2
<1>7. Len(stack) > 0 => head # Null
  BY <1>2, <1>4
<1> QED BY <1>4, <1>5, <1>6, <1>7 DEF Inv, OnlyAbaBreaksChain

\* Taking the top off the stack and giving it to a thread or to the destructor
\* keeps every node in one place.
LEMMA TopLeaves ==
  ASSUME Inv, ~aba, head # Null, stack' = Tail(stack), UNCHANGED node,
         \/ /\ \E t \in Threads : mine' = [mine EXCEPT ![t] = @ \cup {head}]
            /\ UNCHANGED freed
         \/ freed' = freed \cup {head} /\ UNCHANGED mine
  PROVE  /\ NodeSomewhere' /\ NodeOnce'
         /\ \A n : OnStack(n)' <=> OnStack(n) /\ n # head
<1>1. /\ stack \in Seq(Nodes) /\ stack # <<>> /\ head = stack[1]
      /\ 1 \in 1..Len(stack) /\ head \in Nodes
  BY HeadIsTop, PopSeq DEF Inv, TypeOK
<1> DEFINE s == stack'
<1>2. /\ Len(s) = Len(stack) - 1 /\ Len(stack) \in Nat \ {0}
      /\ \A i \in 1..Len(s) : s[i] = stack[i + 1] /\ i + 1 \in 2..Len(stack)
      /\ \A i \in 2..Len(stack) : stack[i] = s[i - 1] /\ i - 1 \in 1..Len(s)
  BY <1>1, PopSeq
<1>3. ASSUME NEW n PROVE OnStack(n)' <=> OnStack(n) /\ n # head
  <2>1. ASSUME NEW i \in 1..Len(s), s[i] = n PROVE OnStack(n) /\ n # head
    <3>1. i + 1 \in 1..Len(stack) /\ i + 1 # 1 /\ stack[i + 1] = n
      BY <1>2, <2>1
    <3> QED BY <1>1, <3>1 DEF OnStack, Inv, NodeOnce
  <2>2. ASSUME NEW i \in 1..Len(stack), stack[i] = n, n # head PROVE OnStack(n)'
    <3>1. i \in 2..Len(stack)
      BY <1>1, <1>2, <2>2
    <3> QED BY <1>2, <2>2, <3>1 DEF OnStack
  <2> QED BY <2>1, <2>2 DEF OnStack
<1>4. OnStack(head)
  BY <1>1 DEF OnStack
<1>5. /\ head \notin freed /\ \A t \in Threads : head \notin mine[t] /\ node[t] # head
  BY <1>1, <1>4 DEF Inv, NodeOnce
<1>6. NodeSomewhere'
  BY <1>3 DEF Inv, TypeOK, NodeSomewhere
<1>7. \A i \in 1..Len(s) : /\ s[i] \notin freed'
                           /\ \A j \in 1..Len(s) : s[i] = s[j] => i = j
  <2>1. \A i \in 1..Len(s) : /\ i + 1 \in 1..Len(stack) /\ i + 1 # 1
                             /\ s[i] = stack[i + 1]
    BY <1>2
  <2>2. \A i \in 1..Len(s) : s[i] # head /\ s[i] \notin freed
    BY <1>1, <2>1 DEF Inv, NodeOnce
  <2>3. \A i, j \in 1..Len(s) : s[i] = s[j] => i + 1 = j + 1
    BY <2>1 DEF Inv, NodeOnce
  <2>4. \A i, j \in 1..Len(s) : i + 1 = j + 1 => i = j
    BY <1>2
  <2> QED BY <2>2, <2>3, <2>4
<1>8. NodeOnce'
  BY <1>3, <1>4, <1>5, <1>7 DEF Inv, TypeOK, NodeOnce
<1> QED BY <1>3, <1>6, <1>8

\* ... and if head_ moves on along the link, the chain is that of the rest.
LEMMA ChainAfterPop ==
  ASSUME Inv, ~aba, head # Null, stack' = Tail(stack), head' = next[head],
         UNCHANGED next
  PROVE  OnlyAbaBreaksChain'
<1>1. stack \in Seq(Nodes) /\ stack # <<>>
  BY HeadIsTop DEF Inv, TypeOK
<1> DEFINE s == stack'
<1>2. /\ Len(s) = Len(stack) - 1 /\ Len(stack) \in Nat \ {0}
      /\ s = <<>> <=> Len(stack) = 1
      /\ \A i \in 1..Len(s) : s[i] = stack[i + 1] /\ i + 1 \in 2..Len(stack)
      /\ \A i \in 2..Len(stack) : stack[i] = s[i - 1]
  BY <1>1, PopSeq
<1>3. head' = IF s = <<>> THEN Null ELSE s[1]
  <2>1. CASE Len(stack) = 1
    BY <1>2, <2>1, HeadIsTop
  <2>2. CASE Len(stack) > 1
    <3>1. stack[2] = s[1]
      BY <1>2, <2>2
    <3> QED BY <1>2, <2>2, <3>1, HeadIsTop
  <2> QED BY <1>2, <2>1, <2>2
<1>4. ASSUME NEW i \in 1..Len(s)
      PROVE  next[s[i]] = IF i = Len(s) THEN Null ELSE s[i + 1]
  <2>1. i + 1 \in 1..Len(stack) /\ s[i] = stack[i + 1]
    BY <1>2
  <2>2. next[stack[i + 1]] = IF i + 1 = Len(stack) THEN Null
                             ELSE stack[(i + 1) + 1]
    BY <2>1 DEF Inv, OnlyAbaBreaksChain
  <2> HIDE DEF s
  <2>3. i # Len(s) => s[i + 1] = stack[(i + 1) + 1]
    <3>1. i # Len(s) => i + 1 \in 1..Len(s)
      BY <1>2
    <3> QED BY <1>2, <3>1
  <2>4. i = Len(s) <=> i + 1 = Len(stack)
    BY <1>2
  <2> QED BY <2>1, <2>2, <2>3, <2>4
<1> QED BY <1>3, <1>4 DEF OnlyAbaBreaksChain

\* The steps of a Push preserve the invariant.
LEMMA PushInv ==
  ASSUME Inv, ~aba, NEW t \in Threads,
         \/ \E n \in Nodes : PushCall(t, n)
         \/ PushLoad(t) \/ PushLink(t) \/ PushCas(t) \/ PushFail(t)
  PROVE  Inv'
<1> USE StackAssumption DEF Goto, ghosts
<1>1. ASSUME NEW n \in Nodes, PushCall(t, n) PROVE Inv'
  <2>1. TypeOK'
    BY <1>1 DEF PushCall, Inv, TypeOK, Ptr
  <2>2. \A m : OnStack(m)' <=> OnStack(m)
    BY <1>1 DEF PushCall, OnStack
  <2>3. node[t] = Null
    BY <1>1 DEF PushCall, Inv, TypeOK, Positions
  <2>4. NodeSomewhere'
    BY <1>1, <2>2, <2>3 DEF PushCall, Inv, TypeOK, NodeSomewhere
  <2>5. NodeOnce'
    BY <1>1, <2>2, <2>3 DEF PushCall, Inv, TypeOK, NodeOnce
  <2>6. Positions'
    BY <1>1, <2>2 DEF PushCall, Inv, TypeOK, Positions
  <2>7. OnlyAbaBreaksChain'
    BY <1>1 DEF PushCall, Inv, OnlyAbaBreaksChain
  <2> QED BY <2>1, <2>4, <2>5, <2>6, <2>7 DEF Inv
<1>2. CASE PushLoad(t) \/ PushFail(t)
  <2>1. TypeOK'
    <3>1. CASE PushLoad(t)
      BY <3>1 DEF PushLoad, Inv, TypeOK
    <3>2. CASE PushFail(t)
      BY <3>2 DEF PushFail, Inv, TypeOK
    <3> QED BY <1>2, <3>1, <3>2
  <2>2. NodeSomewhere' /\ NodeOnce'
    BY <1>2, SamePlaces DEF PushLoad, PushFail
  <2>3. Positions'
    <3>1. CASE PushLoad(t)
      BY <3>1 DEF PushLoad, Inv, TypeOK, Positions, OnStack
    <3>2. CASE PushFail(t)
      BY <3>2 DEF PushFail, Inv, TypeOK, Positions, OnStack
    <3> QED BY <1>2, <3>1, <3>2
  <2>4. OnlyAbaBreaksChain'
    BY <1>2 DEF PushLoad, PushFail, Inv, OnlyAbaBreaksChain
  <2> QED BY <2>1, <2>2, <2>3, <2>4 DEF Inv
<1>3. CASE PushLink(t)
  <2>1. node[t] \in Nodes /\ ~OnStack(node[t])
    BY <1>3 DEF PushLink, Inv, TypeOK, Ptr, Positions, NodeOnce
  <2>2. TypeOK'
    BY <1>3, <2>1 DEF PushLink, Inv, TypeOK
  <2>3. NodeSomewhere' /\ NodeOnce'
    BY <1>3, SamePlaces DEF PushLink
  <2>4. Positions'
    <3>1. \A u \in Threads : node[u] = node[t] => u = t
      BY <2>1 DEF Inv, NodeOnce
    <3>2. \A m : OnStack(m)' <=> OnStack(m)
      BY <1>3 DEF PushLink, OnStack
    <3>3. \A m : OnStack(m) => next'[m] = next[m]
      BY <1>3, <2>1 DEF PushLink, Inv, TypeOK
    <3>4. \A u \in Threads \ {t} : node[u] # Null => next'[node[u]] = next[node[u]]
      BY <1>3, <2>1, <3>1 DEF PushLink, Inv, TypeOK
    <3> QED BY <1>3, <2>1, <3>2, <3>3, <3>4 DEF PushLink, Inv, TypeOK, Positions
  <2>5. OnlyAbaBreaksChain'
    <3>1. \A i \in 1..Len(stack) : next'[stack[i]] = next[stack[i]]
      BY <1>3, <2>1 DEF PushLink, Inv, TypeOK, OnStack
    <3> QED BY <1>3, <3>1 DEF PushLink, Inv, OnlyAbaBreaksChain
  <2> QED BY <2>2, <2>3, <2>4, <2>5 DEF Inv
<1>4. CASE PushCas(t)
  <2>1. /\ node[t] \in Nodes /\ ~OnStack(node[t]) /\ next[node[t]] = head
        /\ node[t] \notin freed
        /\ \A u \in Threads : node[u] = node[t] => u = t
        /\ \A u \in Threads : node[t] \notin mine[u]
    BY <1>4 DEF PushCas, PushTop, Inv, TypeOK, Ptr, Positions, NodeOnce
  <2> DEFINE s == stack'
  <2>2. /\ s \in Seq(Nodes) /\ s # <<>> /\ Len(s) = Len(stack) + 1
        /\ s[1] = node[t]
        /\ \A i \in 2..Len(s) : i - 1 \in 1..Len(stack) /\ s[i] = stack[i - 1]
        /\ \A i \in 1..Len(stack) : s[i + 1] = stack[i]
    BY <1>4, <2>1, PushSeq DEF PushCas, PushTop, Inv, TypeOK
  <2>3. Len(stack) \in Nat
    BY LenProperties DEF Inv, TypeOK
  <2>4. TypeOK'
    BY <1>4, <2>1, <2>2 DEF PushCas, PushTop, Inv, TypeOK, Ptr
  <2>5. ASSUME NEW m PROVE OnStack(m)' <=> OnStack(m) \/ m = node[t]
    <3>1. OnStack(m)' => OnStack(m) \/ m = node[t]
      <4>1. SUFFICES ASSUME NEW i \in 1..Len(s), s[i] = m
                     PROVE  OnStack(m) \/ m = node[t]
        BY DEF OnStack
      <4>2. i = 1 \/ i \in 2..Len(s)
        BY <2>2, <2>3
      <4> QED BY <2>2, <4>1, <4>2 DEF OnStack
    <3>2. OnStack(m) => OnStack(m)'
      BY <2>2, <2>3 DEF OnStack
    <3>3. m = node[t] => OnStack(m)'
      BY <2>2, <2>3 DEF OnStack
    <3> QED BY <3>1, <3>2, <3>3
  <2>6. NodeSomewhere'
    BY <1>4, <2>5 DEF PushCas, PushTop, Inv, TypeOK, NodeSomewhere
  <2>7. NodeOnce'
    <3>1. ASSUME NEW i \in 1..Len(s)
          PROVE  /\ s[i] \notin freed
                 /\ \A j \in 1..Len(s) : s[i] = s[j] => i = j
      <4>1. \A k \in 1..Len(s) : k = 1 \/ k \in 2..Len(s)
        BY <2>2, <2>3
      <4>2. s[i] \notin freed
        BY <2>1, <2>2, <4>1 DEF Inv, NodeOnce
      <4>3. \A k \in 2..Len(s) : s[k] # node[t]
        BY <2>1, <2>2 DEF OnStack
      <4>4. \A j, k \in 2..Len(s) : s[j] = s[k] => j - 1 = k - 1
        <5>1. \A a, b \in 1..Len(stack) : stack[a] = stack[b] => a = b
          BY DEF Inv, NodeOnce
        <5>2. \A k \in 2..Len(s) : k - 1 \in 1..Len(stack) /\ s[k] = stack[k - 1]
          BY <2>2
        <5> HIDE DEF s
        <5> QED BY <5>1, <5>2
      <4>5. \A j, k \in 2..Len(s) : j - 1 = k - 1 => j = k
        OBVIOUS
      <4> QED BY <2>2, <4>1, <4>2, <4>3, <4>4, <4>5
    <3>2. \A u \in Threads : node'[u] = IF u = t THEN Null ELSE node[u]
      BY <1>4 DEF PushCas, PushTop, Inv, TypeOK
    <3>3. mine' = mine /\ freed' = freed
      BY <1>4 DEF PushCas, PushTop
    <3> QED BY <2>1, <2>5, <3>1, <3>2, <3>3 DEF Inv, TypeOK, NodeOnce
  <2>8. Positions'
    BY <1>4, <2>1, <2>5 DEF PushCas, PushTop, Inv, TypeOK, Positions
  <2>9. OnlyAbaBreaksChain'
    <3>1. ASSUME NEW i \in 1..Len(s)
          PROVE  next[s[i]] = IF i = Len(s) THEN Null ELSE s[i + 1]
      <4>1. CASE i = 1
        <5>1. stack = <<>> <=> Len(stack) = 0
          BY EmptySeq DEF Inv, TypeOK
        <5>2. head = IF stack = <<>> THEN Null ELSE stack[1]
          BY DEF Inv, OnlyAbaBreaksChain
        <5>3. Len(stack) # 0 => s[2] = stack[1]
          BY <2>2, <2>3
        <5> QED BY <2>1, <2>2, <2>3, <4>1, <5>1, <5>2, <5>3
      <4>2. CASE i \in 2..Len(s)
        <5>1. i - 1 \in 1..Len(stack) /\ s[i] = stack[i - 1]
          BY <2>2, <4>2
        <5>2. next[stack[i - 1]] = IF i - 1 = Len(stack) THEN Null
                                   ELSE stack[(i - 1) + 1]
          BY <5>1 DEF Inv, OnlyAbaBreaksChain
        <5>3. (i - 1) + 1 = i
          BY <4>2
        <5>4. i # Len(s) => s[i + 1] = stack[i]
          BY <2>2, <2>3, <4>2
        <5> QED BY <2>2, <2>3, <4>2, <5>1, <5>2, <5>3, <5>4
      <4> QED BY <2>2, <2>3, <4>1, <4>2
    <3> QED BY <1>4, <2>2, <3>1 DEF PushCas, PushTop, OnlyAbaBreaksChain
  <2> QED BY <2>4, <2>6, <2>7, <2>8, <2>9 DEF Inv
<1> QED BY <1>1, <1>2, <1>3, <1>4

\* The steps of a Pop preserve the invariant.
LEMMA PopInv ==
  ASSUME Inv, ~aba, NEW t \in Threads,
         \/ PopCall(t) \/ PopEmpty(t) \/ PopLoad(t) \/ PopNext(t)
         \/ PopCas(t) \/ PopFail(t)
  PROVE  Inv'
<1> USE StackAssumption DEF Goto, ghosts
<1>1. CASE PopCall(t) \/ PopEmpty(t) \/ PopLoad(t) \/ PopNext(t) \/ PopFail(t)
  <2>1. TypeOK'
    BY <1>1 DEF PopCall, PopEmpty, PopLoad, PopNext, PopFail, Inv, TypeOK, Ptr,
                Positions
  <2>2. NodeSomewhere' /\ NodeOnce'
    BY <1>1, SamePlaces DEF PopCall, PopEmpty, PopLoad, PopNext, PopFail
  <2>3. Positions'
    <3>1. CASE PopCall(t)
      BY <3>1 DEF PopCall, Inv, TypeOK, Positions, OnStack
    <3>2. CASE PopEmpty(t)
      BY <3>2 DEF PopEmpty, Inv, TypeOK, Positions, OnStack
    <3>3. CASE PopLoad(t)
      BY <3>3 DEF PopLoad, Inv, TypeOK, Positions, OnStack
    <3>4. CASE PopNext(t)
      BY <3>4 DEF PopNext, Inv, TypeOK, Positions, OnStack
    <3>5. CASE PopFail(t)
      BY <3>5 DEF PopFail, Inv, TypeOK, Positions, OnStack
    <3> QED BY <1>1, <3>1, <3>2, <3>3, <3>4, <3>5
  <2>4. OnlyAbaBreaksChain'
    BY <1>1 DEF PopCall, PopEmpty, PopLoad, PopNext, PopFail, Inv,
                OnlyAbaBreaksChain
  <2> QED BY <2>1, <2>2, <2>3, <2>4 DEF Inv
<1>2. CASE PopCas(t)
  <2>1. /\ head # Null /\ head = old[t] /\ stack # <<>> /\ head \in Nodes
        /\ stack' = Tail(stack) /\ stack \in Seq(Nodes)
        /\ mine' = [mine EXCEPT ![t] = @ \cup {head}]
        /\ UNCHANGED <<next, node, freed>>
    BY <1>2, HeadIsTop DEF PopCas, PopTop, Inv, TypeOK, Ptr, Positions
  <2>2. /\ NodeSomewhere' /\ NodeOnce'
        /\ \A n : OnStack(n)' <=> OnStack(n) /\ n # head
    BY <2>1, TopLeaves
  <2>3. TypeOK'
    BY <1>2, <2>1, PopSeq DEF PopCas, PopTop, Inv, TypeOK
  <2>4. CASE t \in stale
    <3>1. aba'
      BY <1>2, <2>4 DEF PopCas, PopTop
    <3> QED BY <2>2, <2>3, <3>1 DEF Inv, OnlyAbaBreaksChain
  <2>5. CASE t \notin stale
    <3>1. OnStack(head)
      BY <2>1, HeadIsTop DEF OnStack
    <3>2. head' = next[head]
      BY <1>2, <2>1, <2>5, <3>1 DEF PopCas, PopTop, Inv, Positions
    <3>3. OnlyAbaBreaksChain'
      BY <2>1, <3>2, ChainAfterPop
    <3>4. Positions'
      BY <1>2, <2>1, <2>2 DEF PopCas, PopTop, Inv, TypeOK, Positions
    <3> QED BY <2>2, <2>3, <3>3, <3>4 DEF Inv
  <2> QED BY <2>4, <2>5
<1> QED BY <1>1, <1>2

\* The destructor preserves the invariant.
LEMMA DestroyInv == ASSUME Inv, ~aba, Destroy PROVE Inv'
<1>1. /\ head # Null /\ stack # <<>> /\ head \in Nodes
      /\ stack' = Tail(stack) /\ stack \in Seq(Nodes)
      /\ head' = next[head] /\ freed' = freed \cup {head}
      /\ UNCHANGED <<next, mine, pc, node, old, new, stale, aba>>
      /\ alive' \in BOOLEAN
  BY HeadIsTop DEF Destroy, ghosts, Inv, TypeOK, Ptr
<1>2. /\ NodeSomewhere' /\ NodeOnce'
      /\ \A n : OnStack(n)' <=> OnStack(n) /\ n # head
  BY <1>1, TopLeaves
<1>3. TypeOK'
  BY <1>1, PopSeq DEF Inv, TypeOK
<1>4. OnlyAbaBreaksChain'
  BY <1>1, ChainAfterPop
<1>5. Positions'
  BY <1>1, <1>2 DEF Inv, Positions
<1> QED BY <1>2, <1>3, <1>4, <1>5 DEF Inv

\* Every step preserves the invariant.
LEMMA NextInv == Inv /\ [Next]_vars => Inv'
<1> SUFFICES ASSUME Inv, [Next]_vars PROVE Inv'
  OBVIOUS
<1>1. CASE UNCHANGED vars
  BY <1>1 DEF vars, Inv, TypeOK, NodeSomewhere, NodeOnce, Positions, OnStack,
              OnlyAbaBreaksChain
<1> QED BY <1>1, PushInv, PopInv, DestroyInv DEF Next, ThreadStep

\* The invariant holds in every reachable state.
THEOREM Invariance == Spec => []Inv
  BY InitInv, NextInv, PTL DEF Spec

\* Nodes, links and positions keep their types.
THEOREM TypeCorrect == Spec => []TypeOK
<1>1. Inv => TypeOK
  BY DEF Inv
<1> QED BY <1>1, Invariance, PTL

\* Until a Pop that works with a reused node swaps, head_ and the links are the
\* stack that the successful swaps have built.
THEOREM ChainIntact == Spec => []OnlyAbaBreaksChain
<1>1. Inv => OnlyAbaBreaksChain
  BY DEF Inv
<1> QED BY <1>1, Invariance, PTL
-----------------------------------------------------------------------------
\* A set without two different elements has one element or none.
LEMMA OneOrNone ==
  ASSUME NEW S, \A x, y \in S : x = y
  PROVE  Cardinality(S) = IF S = {} THEN 0 ELSE 1
<1>1. CASE S = {}
  BY <1>1, FS_EmptySet
<1>2. CASE S # {}
  <2>1. PICK x : S = {x}
    BY <1>2
  <2> QED BY <2>1, <1>2, FS_Singleton
<1> QED BY <1>1, <1>2

\* Every non-empty set of naturals has a least element: the induction used
\* below is the search for a least counterexample.
LEMMA LeastElement ==
  ASSUME NEW T, T \subseteq Nat, T # {}
  PROVE  \E m \in T : \A k \in T : m <= k
<1> DEFINE R == {ss \in Nat \X Nat : ss[1] < ss[2]}
<1>1. IsWellFoundedOn(R, Nat)
  BY NatLessThanWellFounded DEF OpToRel
<1>2. \E m \in T : \A k \in T : ~(<<k, m>> \in R)
  BY <1>1, WFMin
<1>3. PICK m \in T : \A k \in T : ~(<<k, m>> \in R)
  BY <1>2
<1>4. ASSUME NEW k \in T PROVE m <= k
  <2>1. k \in Nat /\ m \in Nat
    OBVIOUS
  <2>2. ~(k < m)
    <3>1. <<k, m>> \in Nat \X Nat /\ <<k, m>>[1] = k /\ <<k, m>>[2] = m
      BY <2>1
    <3> QED BY <1>3, <3>1
  <2> QED BY <2>1, <2>2
<1> QED BY <1>4

\* Induction over the naturals, for a set.
LEMMA Induction ==
  ASSUME NEW P, 0 \in P, \A k \in Nat : k \in P => k + 1 \in P
  PROVE  Nat \subseteq P
<1> SUFFICES ASSUME Nat \ P # {} PROVE FALSE
  OBVIOUS
<1>1. PICK m \in Nat \ P : \A k \in Nat \ P : m <= k
  BY LeastElement
<1>2. m # 0 /\ m - 1 \in Nat /\ (m - 1) + 1 = m /\ ~(m <= m - 1)
  BY <1>1
<1> QED BY <1>1, <1>2

\* The walk from head_ reaches the nodes pushed and not popped, and Null.
LEMMA WalkIsStack ==
  ASSUME Inv, ~aba
  PROVE  /\ Null \in Reached
         /\ \A n \in Nodes : n \in Reached <=> OnStack(n)
<1> DEFINE Closed(S) == head \in S /\ \A m \in S \ {Null} : next[m] \in S
           L == Len(stack)
<1> USE StackAssumption
<1>1. /\ L \in Nat /\ \A i \in 1..L : stack[i] \in Nodes
      /\ stack = <<>> <=> L = 0
  BY ElementOfSeq, LenProperties, EmptySeq DEF Inv, TypeOK
<1>2. /\ head = IF stack = <<>> THEN Null ELSE stack[1]
      /\ \A i \in 1..L : next[stack[i]] = IF i = L THEN Null ELSE stack[i + 1]
  BY DEF Inv, OnlyAbaBreaksChain
<1> HIDE DEF L
<1>3. ASSUME NEW S \in SUBSET Ptr, Closed(S)
      PROVE  Null \in S /\ \A i \in 1..L : stack[i] \in S
  <2> DEFINE P == {k \in Nat : k + 1 \in 1..L => stack[k + 1] \in S}
  <2>1. 0 \in P
    BY <1>1, <1>2, <1>3
  <2>2. ASSUME NEW k \in Nat, k \in P PROVE k + 1 \in P
    <3> SUFFICES ASSUME (k + 1) + 1 \in 1..L PROVE stack[(k + 1) + 1] \in S
      OBVIOUS
    <3>1. k + 1 \in 1..L /\ k + 1 # L
      BY <1>1
    <3>2. stack[k + 1] \in S \ {Null}
      BY <1>1, <2>2, <3>1
    <3> QED BY <1>2, <1>3, <3>1, <3>2
  <2> HIDE DEF P
  <2>3. Nat \subseteq P
    BY <2>1, <2>2, Induction
  <2>4. ASSUME NEW i \in 1..L PROVE stack[i] \in S
    <3>1. i - 1 \in P /\ (i - 1) + 1 = i
      BY <1>1, <2>3
    <3> QED BY <3>1 DEF P
  <2>5. Null \in S
    <3>1. CASE L = 0
      BY <1>1, <1>2, <1>3, <3>1
    <3>2. CASE L # 0
      <4>1. L \in 1..L
        BY <1>1, <3>2
      <4>2. stack[L] \in S \ {Null} /\ next[stack[L]] = Null
        BY <1>1, <1>2, <2>4, <4>1
      <4> QED BY <1>3, <4>2
    <3> QED BY <3>1, <3>2
  <2> QED BY <2>4, <2>5
<1>4. Null \in Reached /\ \A n \in Nodes : OnStack(n) => n \in Reached
  <2>1. \A i \in 1..L : stack[i] \in Reached
    BY <1>1, <1>3 DEF Reached, Ptr
  <2> QED BY <1>3, <2>1 DEF Reached, Ptr, OnStack, L
<1>5. ASSUME NEW n \in Nodes, n \in Reached PROVE OnStack(n)
  <2> DEFINE S == {m \in Nodes : OnStack(m)} \cup {Null}
  <2>1. \A i \in 1..L : stack[i] \in S
    BY <1>1 DEF OnStack, L
  <2>2. head \in S
    BY <1>1, <1>2, <2>1
  <2>3. ASSUME NEW m \in S \ {Null} PROVE next[m] \in S
    <3>1. PICK i \in 1..L : stack[i] = m
      BY DEF OnStack, L
    <3>2. i # L => i + 1 \in 1..L
      BY <1>1
    <3> QED BY <1>2, <2>1, <3>1, <3>2
  <2>4. S \in SUBSET Ptr
    BY DEF Ptr
  <2>5. n \in S
    BY <1>5, <2>2, <2>3, <2>4 DEF Reached
  <2> QED BY <2>5
<1> QED BY <1>4, <1>5

\* Until a stale Pop swaps, the chain ends and every node is in exactly one hand.
THEOREM Conservation == Spec => []NodesConserved
<1>1. ASSUME Inv, ~aba, NEW n \in Nodes PROVE Hands(n) = 1
  <2> DEFINE M == {t \in Threads : n \in mine[t]}
             P == {t \in Threads : node[t] = n}
  <2> USE <1>1, StackAssumption DEF Inv, NodeOnce
  <2>1. Cardinality(M) = IF M = {} THEN 0 ELSE 1
    <3>1. \A t, u \in M : t = u
      OBVIOUS
    <3> QED BY <3>1, OneOrNone
  <2>2. Cardinality(P) = IF P = {} THEN 0 ELSE 1
    <3>1. \A t, u \in P : t = u
      OBVIOUS
    <3> QED BY <3>1, OneOrNone
  <2>3. n \in Reached <=> OnStack(n)
    BY WalkIsStack
  <2>4. M # {} => P = {} /\ ~OnStack(n) /\ n \notin freed
    OBVIOUS
  <2>5. P # {} => ~OnStack(n) /\ n \notin freed
    OBVIOUS
  <2>6. OnStack(n) => n \notin freed
    BY DEF OnStack
  <2>7. M # {} \/ P # {} \/ OnStack(n) \/ n \in freed
    BY DEF NodeSomewhere
  <2>8. Hands(n) = Cardinality(M) + Cardinality(P)
                   + (IF n \in Reached THEN 1 ELSE 0)
                   + (IF n \in freed THEN 1 ELSE 0)
    BY DEF Hands
  <2> HIDE DEF M, P
  <2> QED BY <2>1, <2>2, <2>3, <2>4, <2>5, <2>6, <2>7, <2>8
<1>2. Inv => NodesConserved
  BY <1>1, WalkIsStack DEF NodesConserved
<1> QED BY <1>2, Invariance, PTL
-----------------------------------------------------------------------------
(***************************************************************************)
(* SegmentTree                                                             *)
(***************************************************************************)

\* The recursion of Size, up to m.
Doubles(f, m) == f = [h \in 0..m |-> IF h = 0 THEN 1 ELSE 2 * f[h - 1]]

\* It has a solution.
LEMMA DoublesExist == \A m \in Nat : \E f : Doubles(f, m)
<1> DEFINE P == {m \in Nat : \E f : Doubles(f, m)}
<1>1. 0 \in P
  <2> DEFINE f == [h \in 0..0 |-> 1]
  <2>1. \A h \in 0..0 : h = 0
    OBVIOUS
  <2>2. Doubles(f, 0)
    BY <2>1 DEF Doubles
  <2> QED BY <2>2
<1>2. ASSUME NEW k \in Nat, k \in P PROVE k + 1 \in P
  <2>1. PICK f : Doubles(f, k)
    BY <1>2
  <2> DEFINE top == 2 * f[k]
             g == [h \in 0..(k + 1) |-> IF h = k + 1 THEN top ELSE f[h]]
  <2> HIDE DEF top
  <2>2. \A h \in 0..k : g[h] = f[h]
    BY <1>2
  <2>3. ASSUME NEW h \in 0..(k + 1)
        PROVE  g[h] = IF h = 0 THEN 1 ELSE 2 * g[h - 1]
    <3>1. CASE h = k + 1
      <4>1. g[h] = top /\ h # 0 /\ h - 1 = k /\ g[k] = f[k]
        BY <1>2, <2>2, <3>1
      <4> QED BY <3>1, <4>1 DEF top
    <3>2. CASE h \in 0..k
      <4>1. g[h] = f[h] /\ (h # 0 => h - 1 \in 0..k)
        BY <1>2, <2>2, <3>2
      <4>2. h # 0 => g[h - 1] = f[h - 1]
        BY <2>2, <4>1
      <4>3. f[h] = IF h = 0 THEN 1 ELSE 2 * f[h - 1]
        BY <2>1, <3>2 DEF Doubles
      <4> QED BY <4>1, <4>2, <4>3
    <3> QED BY <1>2, <3>1, <3>2
  <2>4. Doubles(g, k + 1)
    BY <2>3 DEF Doubles
  <2> QED BY <2>4, <1>2
<1> HIDE DEF P
<1>3. Nat \subseteq P
  BY <1>1, <1>2, Induction
<1> QED BY <1>3 DEF P

\* Sizes double from height to height ...
LEMMA SizeDoubles ==
  /\ Size[0] = 1
  /\ \A h \in 1..Height : Size[h] = 2 * Size[h - 1]
<1>1. \E f : Doubles(f, Height)
  BY DoublesExist, SegmentTreeAssumption
<1>2. Doubles(Size, Height)
  <2> DEFINE f == CHOOSE f : Doubles(f, Height)
  <2>1. Doubles(f, Height)
    BY <1>1
  <2>2. f = Size
    BY DEF Size, Doubles
  <2> HIDE DEF f
  <2> QED BY <2>1, <2>2
<1>3. \A h \in 0..Height : Size[h] = IF h = 0 THEN 1 ELSE 2 * Size[h - 1]
  BY <1>2 DEF Doubles
<1>4. 0 \in 0..Height /\ \A h \in 1..Height : h \in 0..Height /\ h # 0
  BY SegmentTreeAssumption
<1> QED BY <1>3, <1>4

\* ... and are positive ...
LEMMA SizeType == \A h \in 0..Height : Size[h] \in Nat /\ 1 <= Size[h]
<1> DEFINE P == {h \in Nat : h <= Height => Size[h] \in Nat /\ 1 <= Size[h]}
<1>1. 0 \in P
  BY SizeDoubles
<1>2. ASSUME NEW k \in Nat, k \in P PROVE k + 1 \in P
  <2> SUFFICES ASSUME k + 1 <= Height PROVE Size[k + 1] \in Nat /\ 1 <= Size[k + 1]
    OBVIOUS
  <2>1. k + 1 \in 1..Height /\ k <= Height /\ (k + 1) - 1 = k
    BY SegmentTreeAssumption
  <2>2. Size[k + 1] = 2 * Size[k]
    BY <2>1, SizeDoubles
  <2> QED BY <1>2, <2>1, <2>2
<1> HIDE DEF P
<1>3. Nat \subseteq P
  BY <1>1, <1>2, Induction
<1> QED BY <1>3, SegmentTreeAssumption DEF P

\* ... and so grow with the height.
LEMMA SizeGrows ==
  \A d, e \in 0..Height : e < d => 2 * Size[e] <= Size[d]
<1> SUFFICES ASSUME NEW e \in 0..Height
             PROVE  \A d \in 0..Height : e < d => 2 * Size[e] <= Size[d]
  OBVIOUS
<1> DEFINE P == {k \in Nat : e + k + 1 <= Height => 2 * Size[e] <= Size[e + k + 1]}
<1>1. ASSUME NEW k \in Nat, e + k + 1 <= Height
      PROVE  /\ e + k + 1 \in 1..Height /\ (e + k + 1) - 1 = e + k
             /\ Size[e + k + 1] = 2 * Size[e + k]
             /\ Size[e + k] \in Nat /\ Size[e] \in Nat
  <2>1. /\ e + k + 1 \in 1..Height /\ (e + k + 1) - 1 = e + k
        /\ e + k \in 0..Height /\ e \in 0..Height
    BY <1>1, SegmentTreeAssumption
  <2> QED BY <2>1, SizeDoubles, SizeType
<1>2. 0 \in P
  <2> SUFFICES ASSUME e + 0 + 1 <= Height PROVE 2 * Size[e] <= Size[e + 0 + 1]
    OBVIOUS
  <2>1. Size[e + 0 + 1] = 2 * Size[e + 0] /\ Size[e] \in Nat /\ e + 0 = e
    BY <1>1
  <2> QED BY <2>1
<1>3. ASSUME NEW k \in Nat, k \in P PROVE k + 1 \in P
  <2> SUFFICES ASSUME e + (k + 1) + 1 <= Height
               PROVE  2 * Size[e] <= Size[e + (k + 1) + 1]
    OBVIOUS
  <2>1. e + (k + 1) = e + k + 1 /\ e + k + 1 <= Height /\ k + 1 \in Nat
    BY SegmentTreeAssumption
  <2>2. /\ Size[e + (k + 1) + 1] = 2 * Size[e + (k + 1)]
        /\ Size[e + (k + 1)] \in Nat /\ Size[e] \in Nat
    BY <1>1, <2>1
  <2>3. 2 * Size[e] <= Size[e + (k + 1)]
    BY <1>3, <2>1
  <2> QED BY <2>2, <2>3
<1> HIDE DEF P
<1>4. Nat \subseteq P
  BY <1>2, <1>3, Induction
<1>5. ASSUME NEW d \in 0..Height, e < d PROVE 2 * Size[e] <= Size[d]
  <2>1. d - e - 1 \in Nat /\ e + (d - e - 1) + 1 = d
    BY <1>5, SegmentTreeAssumption
  <2>2. d - e - 1 \in P
    BY <1>4, <2>1
  <2> QED BY <2>1, <2>2 DEF P
<1> QED BY <1>5

\* The recursion of RangeSum: the sums of the first elements.
Prefixes(f, A, m) == f = [i \in 0..m |-> IF i = 0 THEN 0 ELSE f[i - 1] + A[i]]

\* It has a solution.
LEMMA PrefixesExist == \A A : \A m \in Nat : \E f : Prefixes(f, A, m)
<1> SUFFICES ASSUME NEW A
             PROVE  \A m \in Nat : \E f : Prefixes(f, A, m)
  OBVIOUS
<1> DEFINE P == {m \in Nat : \E f : Prefixes(f, A, m)}
<1>1. 0 \in P
  <2> DEFINE f == [h \in 0..0 |-> 0]
  <2>1. \A h \in 0..0 : h = 0
    OBVIOUS
  <2>2. Prefixes(f, A, 0)
    BY <2>1 DEF Prefixes
  <2> QED BY <2>2
<1>2. ASSUME NEW k \in Nat, k \in P PROVE k + 1 \in P
  <2>1. PICK f : Prefixes(f, A, k)
    BY <1>2
  <2> DEFINE top == f[k] + A[k + 1]
             g == [h \in 0..(k + 1) |-> IF h = k + 1 THEN top ELSE f[h]]
  <2> HIDE DEF top
  <2>2. \A h \in 0..k : g[h] = f[h]
    BY <1>2
  <2>3. ASSUME NEW h \in 0..(k + 1)
        PROVE  g[h] = IF h = 0 THEN 0 ELSE g[h - 1] + A[h]
    <3>1. CASE h = k + 1
      <4>1. g[h] = top /\ h # 0 /\ h - 1 = k /\ g[k] = f[k]
        BY <1>2, <2>2, <3>1
      <4> QED BY <3>1, <4>1 DEF top
    <3>2. CASE h \in 0..k
      <4>1. g[h] = f[h] /\ (h # 0 => h - 1 \in 0..k)
        BY <1>2, <2>2, <3>2
      <4>2. h # 0 => g[h - 1] = f[h - 1]
        BY <2>2, <4>1
      <4>3. f[h] = IF h = 0 THEN 0 ELSE f[h - 1] + A[h]
        BY <2>1, <3>2 DEF Prefixes
      <4> QED BY <4>1, <4>2, <4>3
    <3> QED BY <1>2, <3>1, <3>2
  <2>4. Prefixes(g, A, k + 1)
    BY <2>3 DEF Prefixes
  <2> QED BY <2>4, <1>2
<1> HIDE DEF P
<1>3. Nat \subseteq P
  BY <1>1, <1>2, Induction
<1> QED BY <1>3 DEF P

Arrays == [Elements -> Int]
Prefix(A) == CHOOSE f : Prefixes(f, A, Length)

\* The length is that of the root's range.
LEMMA LengthType == Length \in Nat /\ 1 <= Length
<1>1. Height \in 0..Height
  BY SegmentTreeAssumption
<1> QED BY <1>1, SizeType DEF Length

\* A range's sum is a difference of two of them.
LEMMA PrefixFacts ==
  ASSUME NEW A \in Arrays
  PROVE  /\ \A l, r : RangeSum(A, l, r) = Prefix(A)[r] - Prefix(A)[l - 1]
         /\ Prefix(A)[0] = 0
         /\ \A i \in 1..Length : Prefix(A)[i] = Prefix(A)[i - 1] + A[i]
         /\ \A i \in 0..Length : Prefix(A)[i] \in Int
<1>1. Prefixes(Prefix(A), A, Length)
  <2>1. \E f : Prefixes(f, A, Length)
    BY PrefixesExist, LengthType
  <2> QED BY <2>1 DEF Prefix
<1>2. \A l, r : RangeSum(A, l, r) = Prefix(A)[r] - Prefix(A)[l - 1]
  BY DEF RangeSum, Prefix, Prefixes
<1> DEFINE p == Prefix(A)
<1> HIDE DEF p
<1>3. p[0] = 0 /\ \A i \in 1..Length : p[i] = p[i - 1] + A[i]
  <2>1. \A i \in 0..Length : p[i] = IF i = 0 THEN 0 ELSE p[i - 1] + A[i]
    BY <1>1 DEF Prefixes, p
  <2>2. 0 \in 0..Length /\ \A i \in 1..Length : i \in 0..Length /\ i # 0
    BY LengthType
  <2> QED BY <2>1, <2>2
<1> DEFINE P == {i \in Nat : i <= Length => p[i] \in Int}
<1>4. 0 \in P
  BY <1>3
<1>5. ASSUME NEW k \in Nat, k \in P PROVE k + 1 \in P
  <2> SUFFICES ASSUME k + 1 <= Length PROVE p[k + 1] \in Int
    OBVIOUS
  <2>1. k + 1 \in 1..Length /\ k <= Length /\ (k + 1) - 1 = k
    BY LengthType
  <2>2. p[k + 1] = p[k] + A[k + 1] /\ A[k + 1] \in Int
    BY <1>3, <2>1 DEF Arrays, Elements
  <2> QED BY <1>5, <2>1, <2>2
<1> HIDE DEF P
<1>6. Nat \subseteq P
  BY <1>4, <1>5, Induction
<1>7. \A i \in 0..Length : p[i] \in Int
  BY <1>6, LengthType DEF P
<1> QED BY <1>2, <1>3, <1>7 DEF p

\* Sums of adjacent ranges add up, and that of one element is the element.
LEMMA SumSplits ==
  ASSUME NEW A \in Arrays, NEW a \in 1..Length, NEW b \in 1..Length
  PROVE  /\ RangeSum(A, a, b) \in Int
         /\ RangeSum(A, a, a) = A[a]
         /\ \A m \in 1..Length :
               RangeSum(A, a, m) + RangeSum(A, m + 1, b) = RangeSum(A, a, b)
<1> DEFINE p == Prefix(A)
<1>1. /\ \A l, r : RangeSum(A, l, r) = p[r] - p[l - 1]
      /\ \A i \in 1..Length : p[i] = p[i - 1] + A[i]
      /\ \A i \in 0..Length : p[i] \in Int
  BY PrefixFacts
<1> HIDE DEF p
<1>2. a - 1 \in 0..Length /\ a \in 0..Length /\ b \in 0..Length
  BY LengthType
<1>3. p[a] = p[a - 1] + A[a] /\ p[a] \in Int /\ p[a - 1] \in Int /\ p[b] \in Int
      /\ A[a] \in Int
  BY <1>1, <1>2 DEF Arrays, Elements
<1>4. ASSUME NEW m \in 1..Length
      PROVE  RangeSum(A, a, m) + RangeSum(A, m + 1, b) = RangeSum(A, a, b)
  <2>1. m \in 0..Length /\ (m + 1) - 1 = m
    BY LengthType
  <2>2. p[m] \in Int
    BY <1>1, <2>1
  <2>3. RangeSum(A, m + 1, b) = p[b] - p[m]
    BY <1>1, <2>1
  <2>4. RangeSum(A, a, m) = p[m] - p[a - 1] /\ RangeSum(A, a, b) = p[b] - p[a - 1]
    BY <1>1
  <2> QED BY <1>3, <2>2, <2>3, <2>4
<1>5. RangeSum(A, a, b) = p[b] - p[a - 1] /\ RangeSum(A, a, a) = p[a] - p[a - 1]
  BY <1>1
<1> QED BY <1>3, <1>4, <1>5

\* What is added to every element is added to the sum as often.
LEMMA SumShifts ==
  ASSUME NEW A \in Arrays, NEW B \in Arrays, NEW x \in Int,
         NEW a \in 1..Length, NEW b \in a..Length,
         \A i \in a..b : B[i] = A[i] + x
  PROVE  RangeSum(B, a, b) = RangeSum(A, a, b) + x * (b - a + 1)
<1> DEFINE p == Prefix(A)
           q == Prefix(B)
<1>1. /\ \A l, r : RangeSum(A, l, r) = p[r] - p[l - 1]
      /\ \A i \in 1..Length : p[i] = p[i - 1] + A[i]
      /\ \A i \in 0..Length : p[i] \in Int
  BY PrefixFacts
<1>2. /\ \A l, r : RangeSum(B, l, r) = q[r] - q[l - 1]
      /\ \A i \in 1..Length : q[i] = q[i - 1] + B[i]
      /\ \A i \in 0..Length : q[i] \in Int
  BY PrefixFacts
<1> HIDE DEF p, q
<1> DEFINE s == a - 1
           P == {k \in Nat : s + k <= b => q[s + k] - q[s] = p[s + k] - p[s] + x * k}
<1>3. s \in 0..Length /\ p[s] \in Int /\ q[s] \in Int /\ s + 1 = a
  <2>1. s \in 0..Length /\ s + 1 = a
    BY LengthType
  <2> QED BY <1>1, <1>2, <2>1
<1>4. 0 \in P
  <2>1. s + 0 = s /\ x * 0 = 0
    BY <1>3
  <2> QED BY <1>3, <2>1
<1>5. ASSUME NEW k \in Nat, k \in P PROVE k + 1 \in P
  <2> SUFFICES ASSUME s + (k + 1) <= b
               PROVE  q[s + (k + 1)] - q[s] = p[s + (k + 1)] - p[s] + x * (k + 1)
    OBVIOUS
  <2> DEFINE i == s + (k + 1)
  <2>1. /\ i \in a..b /\ i \in 1..Length /\ i - 1 = s + k /\ s + k <= b
        /\ s + k \in 0..Length
    BY <1>3, LengthType
  <2> HIDE DEF s, i
  <2>2. /\ p[i] = p[s + k] + A[i] /\ q[i] = q[s + k] + B[i] /\ B[i] = A[i] + x
        /\ A[i] \in Int
    BY <1>1, <1>2, <2>1 DEF Arrays, Elements
  <2>3. p[s + k] \in Int /\ q[s + k] \in Int
    BY <1>1, <1>2, <2>1
  <2>4. q[s + k] - q[s] = p[s + k] - p[s] + x * k
    BY <1>5, <2>1
  <2>5. x * (k + 1) = x * k + x /\ x * k \in Int
    OBVIOUS
  <2>6. q[i] - q[s] = p[i] - p[s] + x * (k + 1)
    <3> DEFINE xk == x * k
    <3>1. xk \in Int /\ x * (k + 1) = xk + x /\ q[s + k] - q[s] = p[s + k] - p[s] + xk
      BY <2>4, <2>5
    <3> HIDE DEF xk
    <3> QED BY <1>3, <2>2, <2>3, <3>1
  <2> QED BY <2>6 DEF i
<1> HIDE DEF P
<1>6. Nat \subseteq P
  BY <1>4, <1>5, Induction
<1>7. b - a + 1 \in Nat /\ s + (b - a + 1) = b
  BY LengthType
<1>8. b - a + 1 \in P
  BY <1>6, <1>7
<1>9. q[b] - q[s] = p[b] - p[s] + x * (b - a + 1)
  BY <1>7, <1>8 DEF P
<1>10. RangeSum(A, a, b) = p[b] - p[s] /\ RangeSum(B, a, b) = q[b] - q[s]
  BY <1>1, <1>2
<1> QED BY <1>9, <1>10

\* Only the elements of the range matter.
LEMMA SumSame ==
  ASSUME NEW A \in Arrays, NEW B \in Arrays,
         NEW a \in 1..Length, NEW b \in a..Length, \A i \in a..b : B[i] = A[i]
  PROVE  RangeSum(B, a, b) = RangeSum(A, a, b)
<1>1. \A i \in a..b : B[i] = A[i] + 0
  <2>1. \A i \in a..b : i \in Elements
    BY LengthType DEF Elements
  <2> QED BY <2>1 DEF Arrays
<1>2. b \in 1..Length
  BY LengthType
<1>3. RangeSum(B, a, b) = RangeSum(A, a, b) + 0 * (b - a + 1)
  BY <1>1, SumShifts
<1>4. RangeSum(A, a, b) \in Int
  BY <1>2, SumSplits
<1> QED BY <1>3, <1>4, LengthType

-----------------------------------------------------------------------------
\* Node n has height h and covers the elements from a on.
Covers(h, n, a) == /\ n \in Nat /\ 1 <= n /\ a \in Nat /\ 1 <= a
                   /\ n * Size[h] = Length - 1 + a
                   /\ Right(a, h) <= Length

\* The root covers all.
LEMMA RootCovers == Covers(Height, 1, 1)
  BY LengthType DEF Covers, Right, Length

\* Where a node that covers something lies.
LEMMA CoversType ==
  ASSUME NEW h \in 0..Height, NEW n, NEW a, Covers(h, n, a)
  PROVE  /\ n \in Slots /\ a \in Elements /\ Right(a, h) \in Elements
         /\ a <= Right(a, h) /\ Right(a, h) - a + 1 = Size[h]
         /\ n \in Nat /\ 1 <= n /\ a \in Nat /\ 1 <= a /\ Right(a, h) \in Nat
<1> DEFINE s == Size[h]
<1>1. s \in Nat /\ 1 <= s /\ Length \in Nat
  BY SizeType, LengthType
<1> HIDE DEF s
<1>2. n \in Nat /\ 1 <= n /\ a \in Nat /\ 1 <= a /\ n * s = Length - 1 + a
      /\ a + s - 1 <= Length /\ Right(a, h) = a + s - 1
  BY DEF Covers, Right, s
<1>3. n <= n * s
  <2>1. n * s = n + n * (s - 1) /\ s - 1 \in Nat
    BY <1>1, <1>2
  <2>2. n * (s - 1) \in Nat
    BY <1>2, <2>1
  <2> DEFINE x == n * (s - 1)
             y == n * s
  <2>3. x \in Nat /\ y = n + x
    BY <2>1, <2>2
  <2> HIDE DEF x, y
  <2>4. n <= y
    BY <1>2, <2>3
  <2> QED BY <2>4 DEF y
<1>4. n <= 2 * Length - 1 /\ a <= Length
  <2>1. n <= Length - 1 + a
    BY <1>2, <1>3
  <2> QED BY <1>1, <1>2, <2>1
<1>5. n \in Slots /\ a \in Elements
  BY <1>1, <1>2, <1>4 DEF Slots, Elements
<1>6. /\ Right(a, h) \in Elements /\ a <= Right(a, h) /\ Right(a, h) - a + 1 = s
      /\ Right(a, h) \in Nat
  BY <1>1, <1>2 DEF Elements
<1> QED BY <1>2, <1>5, <1>6 DEF s

\* The children of a node cover its halves.
LEMMA CoversBelow ==
  ASSUME NEW h \in 1..Height, NEW n, NEW a, Covers(h, n, a)
  PROVE  LET b == Right(a, h)
             m == Middle(a, b)
         IN /\ Covers(h - 1, 2 * n, a) /\ Covers(h - 1, 2 * n + 1, m + 1)
            /\ Right(a, h - 1) = m /\ Right(m + 1, h - 1) = b
            /\ m - a + 1 = Size[h - 1] /\ b - m = Size[h - 1]
            /\ a <= m /\ m < b /\ m \in Elements /\ m \in Nat /\ h - 1 \in 0..Height
<1> DEFINE s == Size[h - 1]
           b == Right(a, h)
           m == Middle(a, b)
<1>1. h - 1 \in 0..Height /\ h \in 0..Height
  BY SegmentTreeAssumption
<1>2. s \in Nat /\ 1 <= s /\ Length \in Nat /\ Size[h] = 2 * s
  BY <1>1, SizeType, SizeDoubles, LengthType
<1> HIDE DEF s
<1>3. /\ n \in Nat /\ 1 <= n /\ a \in Nat /\ 1 <= a /\ n * (2 * s) = Length - 1 + a
      /\ b = a + 2 * s - 1 /\ b <= Length
  BY <1>2 DEF Covers, Right
<1>4. m = a + s - 1
  <2> HIDE DEF b
  <2>1. (a + (a + 2 * s - 1)) \div 2 = a + s - 1
    BY <1>2, <1>3
  <2> QED BY <1>3, <2>1 DEF Middle
<1> HIDE DEF m, b
<1>5. (2 * n) * s = n * (2 * s) /\ (2 * n + 1) * s = n * (2 * s) + s
  BY <1>2, <1>3
<1>6. Covers(h - 1, 2 * n, a)
  <2>1. 2 * n \in Nat /\ 1 <= 2 * n /\ a + s - 1 <= Length
    BY <1>2, <1>3
  <2> QED BY <1>3, <1>5, <2>1 DEF Covers, Right, s
<1>7. Covers(h - 1, 2 * n + 1, m + 1)
  <2>1. /\ 2 * n + 1 \in Nat /\ 1 <= 2 * n + 1 /\ m + 1 \in Nat /\ 1 <= m + 1
        /\ (m + 1) + s - 1 <= Length
    BY <1>2, <1>3, <1>4
  <2>2. (2 * n + 1) * s = Length - 1 + (m + 1)
    <3> DEFINE x == n * (2 * s)
    <3>1. (2 * n + 1) * s = x + s /\ x = Length - 1 + a
      BY <1>3, <1>5
    <3> HIDE DEF x
    <3> QED BY <1>2, <1>3, <1>4, <3>1
  <2> QED BY <2>1, <2>2 DEF Covers, Right, s
<1>8. /\ a + s - 1 = m /\ (m + 1) + s - 1 = b /\ m - a + 1 = s /\ b - m = s
      /\ a <= m /\ m < b /\ m \in Elements /\ m \in Nat
  BY <1>2, <1>3, <1>4 DEF Elements
<1> QED BY <1>1, <1>6, <1>7, <1>8 DEF Right, s, m, b
-----------------------------------------------------------------------------
\* The nodes below node n of height h, n included.
Below(h, n) == {x \in Nat : \E d \in 0..h : n * Size[d] <= x /\ x < (n + 1) * Size[d]}

\* A node is below itself, and not below its children ...
LEMMA BelowSelf ==
  ASSUME NEW h \in 0..Height, NEW n \in Nat, 1 <= n
  PROVE  /\ n \in Below(h, n)
         /\ n \notin Below(h, 2 * n) /\ n \notin Below(h, 2 * n + 1)
<1>1. n \in Below(h, n)
  <2>1. n * Size[0] = n /\ (n + 1) * Size[0] = n + 1 /\ 0 \in 0..h
    BY SizeDoubles
  <2> QED BY <2>1 DEF Below
<1>2. ASSUME NEW k \in {2 * n, 2 * n + 1}, NEW d \in 0..h PROVE n < k * Size[d]
  <2> DEFINE s == Size[d]
  <2>1. s \in Nat /\ 1 <= s
    <3>1. d \in 0..Height
      BY SegmentTreeAssumption
    <3> QED BY <3>1, SizeType
  <2> HIDE DEF s
  <2>2. k \in Nat /\ n < k
    OBVIOUS
  <2>3. k * s = k + k * (s - 1) /\ k * (s - 1) \in Nat
    <3>1. s - 1 \in Nat
      BY <2>1
    <3> QED BY <2>1, <2>2, <3>1
  <2> DEFINE x == k * (s - 1)
             y == k * s
  <2>4. x \in Nat /\ y = k + x
    BY <2>3
  <2> HIDE DEF x, y
  <2>5. n < y
    BY <2>2, <2>4
  <2> QED BY <2>5 DEF y, s
<1>3. ASSUME NEW k \in {2 * n, 2 * n + 1}, n \in Below(h, k) PROVE FALSE
  <2>1. PICK d \in 0..h : k * Size[d] <= n
    BY <1>3 DEF Below
  <2>2. n < k * Size[d] /\ k * Size[d] \in Nat
    <3>1. d \in 0..Height /\ k \in Nat
      BY SegmentTreeAssumption
    <3> QED BY <1>2, <3>1, SizeType
  <2> DEFINE y == k * Size[d]
  <2>3. y \in Nat /\ n < y /\ y <= n
    BY <2>1, <2>2
  <2> HIDE DEF y
  <2> QED BY <2>3
<1> QED BY <1>1, <1>3

\* ... what is below a child is below the node ...
LEMMA BelowChild ==
  ASSUME NEW h \in 1..Height, NEW n \in Nat
  PROVE  /\ Below(h - 1, 2 * n) \subseteq Below(h, n)
         /\ Below(h - 1, 2 * n + 1) \subseteq Below(h, n)
<1> SUFFICES ASSUME NEW x \in Nat, NEW k \in {2 * n, 2 * n + 1}, x \in Below(h - 1, k)
             PROVE  x \in Below(h, n)
  BY DEF Below
<1>1. PICK d \in 0..(h - 1) : k * Size[d] <= x /\ x < (k + 1) * Size[d]
  BY DEF Below
<1> DEFINE s == Size[d]
<1>2. d + 1 \in 0..h /\ d + 1 \in 1..Height /\ d \in 0..Height /\ (d + 1) - 1 = d
  BY SegmentTreeAssumption
<1>3. s \in Nat /\ Size[d + 1] = 2 * s
  BY <1>2, SizeDoubles, SizeType
<1>4. k * s <= x /\ x < (k + 1) * s
  BY <1>1
<1> HIDE DEF s
<1>5. n * (2 * s) <= k * s /\ (k + 1) * s <= (n + 1) * (2 * s)
  <2> DEFINE y == n * s
  <2>1. y \in Int /\ n * (2 * s) = 2 * y /\ (n + 1) * (2 * s) = 2 * y + 2 * s
    BY <1>3
  <2>2. \/ k * s = 2 * y /\ (k + 1) * s = 2 * y + s
        \/ k * s = 2 * y + s /\ (k + 1) * s = 2 * y + 2 * s
    BY <1>3
  <2> HIDE DEF y
  <2> QED BY <1>3, <2>1, <2>2
<1>6. n * (2 * s) <= x /\ x < (n + 1) * (2 * s)
  <2> DEFINE y == k * s
             z == (k + 1) * s
             v == n * (2 * s)
             w == (n + 1) * (2 * s)
  <2>1. {y, z, v, w} \subseteq Int
    BY <1>3
  <2>2. y <= x /\ x < z /\ v <= y /\ z <= w
    BY <1>4, <1>5
  <2> HIDE DEF y, z, v, w
  <2>3. v <= x /\ x < w
    BY <2>1, <2>2
  <2> QED BY <2>3 DEF v, w
<1> QED BY <1>2, <1>3, <1>6 DEF Below

\* ... and nothing is below both children.
LEMMA BelowDisjoint ==
  ASSUME NEW h \in 0..Height, NEW n \in Nat, 1 <= n
  PROVE  Below(h, 2 * n) \cap Below(h, 2 * n + 1) = {}
<1> SUFFICES ASSUME NEW x \in Nat, x \in Below(h, 2 * n), x \in Below(h, 2 * n + 1)
             PROVE  FALSE
  BY DEF Below
<1>1. PICK d \in 0..h : 2 * n * Size[d] <= x /\ x < (2 * n + 1) * Size[d]
  BY DEF Below
<1>2. PICK e \in 0..h : (2 * n + 1) * Size[e] <= x /\ x < (2 * n + 1 + 1) * Size[e]
  BY DEF Below
<1> DEFINE s == Size[d]
           u == Size[e]
<1>3. d \in 0..Height /\ e \in 0..Height
  BY SegmentTreeAssumption
<1>4. s \in Nat /\ 1 <= s /\ u \in Nat /\ 1 <= u
  BY <1>3, SizeType
<1>5. (d < e => 2 * s <= u) /\ (e < d => 2 * u <= s) /\ (d = e => s = u)
  BY <1>3, SizeGrows
<1>6. 2 * n * s <= x /\ x < (2 * n + 1) * s /\ (2 * n + 1) * u <= x /\ x < (2 * n + 1 + 1) * u
  BY <1>1, <1>2
<1>7. d < e \/ d = e \/ e < d
  BY <1>3, SegmentTreeAssumption
<1> HIDE DEF s, u
<1> DEFINE y == n * s
           z == n * u
<1>8. y \in Nat /\ z \in Nat
  BY <1>4
<1>9. 2 * y <= x /\ x < 2 * y + s /\ 2 * z + u <= x /\ x < 2 * z + 2 * u
  <2>1. /\ 2 * n * s = 2 * y /\ (2 * n + 1) * s = 2 * y + s
        /\ (2 * n + 1) * u = 2 * z + u /\ (2 * n + 1 + 1) * u = 2 * z + 2 * u
    BY <1>4
  <2> QED BY <1>6, <2>1
<1>10. CASE s <= u
  <2>1. y <= z
    <3>1. z = y + n * (u - s) /\ u - s \in Nat
      BY <1>4, <1>10
    <3>2. n * (u - s) \in Nat
      BY <3>1
    <3> DEFINE v == n * (u - s)
    <3>3. v \in Nat /\ z = y + v
      BY <3>1, <3>2
    <3> HIDE DEF y, z, v
    <3> QED BY <1>8, <3>3
  <2> HIDE DEF y, z
  <2> QED BY <1>4, <1>8, <1>9, <1>10, <2>1
<1>11. CASE 2 * u <= s
  <2>1. 2 * z <= y
    <3>1. y = 2 * z + n * (s - 2 * u) /\ s - 2 * u \in Nat
      BY <1>4, <1>11
    <3>2. n * (s - 2 * u) \in Nat
      BY <3>1
    <3> DEFINE v == n * (s - 2 * u)
    <3>3. v \in Nat /\ y = 2 * z + v
      BY <3>1, <3>2
    <3> HIDE DEF y, z, v
    <3> QED BY <1>8, <3>3
  <2>2. u <= z
    <3>1. z = u + (n - 1) * u /\ n - 1 \in Nat
      BY <1>4
    <3>2. (n - 1) * u \in Nat
      BY <1>4, <3>1
    <3> DEFINE v == (n - 1) * u
    <3>3. v \in Nat /\ z = u + v
      BY <3>1, <3>2
    <3> HIDE DEF y, z, v
    <3> QED BY <1>4, <1>8, <3>3
  <2> HIDE DEF y, z
  <2> QED BY <1>4, <1>8, <1>9, <2>1, <2>2
<1>12. s <= u \/ 2 * u <= s
  BY <1>4, <1>5, <1>7
<1> QED BY <1>10, <1>11, <1>12

-----------------------------------------------------------------------------
(***************************************************************************)
(* What a tree stands for.  Node n of height h, which covers the elements  *)
(* from a on, stands for array A there if its sum is that of A and, what   *)
(* its mark adds taken away, so do its children.                           *)
(***************************************************************************)
Less(A, x) == [i \in Elements |-> A[i] - x]

Views == [t : Trees, n : Slots, a : Elements, A : Arrays]
View(t, n, a, A) == [t |-> t, n |-> n, a |-> a, A |-> A]

StandLeaf == {v \in Views : v.t.sum[v.n] = v.A[v.a]}
StandAt(below, h) ==
  {v \in Views :
     LET b == Right(v.a, h)
         B == Less(v.A, v.t.lazy[v.n])
     IN /\ v.t.sum[v.n] = RangeSum(v.A, v.a, b)
        /\ View(v.t, 2 * v.n, v.a, B) \in below
        /\ View(v.t, 2 * v.n + 1, Middle(v.a, b) + 1, B) \in below}

\* The recursion, up to m.
Stand(f, m) == f = [h \in 0..m |-> IF h = 0 THEN StandLeaf ELSE StandAt(f[h - 1], h)]

\* It has a solution.
LEMMA StandExist == \A m \in Nat : \E f : Stand(f, m)
<1> DEFINE P == {m \in Nat : \E f : Stand(f, m)}
<1>1. 0 \in P
  <2> DEFINE f == [h \in 0..0 |-> StandLeaf]
  <2>1. \A h \in 0..0 : h = 0
    OBVIOUS
  <2>2. Stand(f, 0)
    BY <2>1 DEF Stand
  <2> QED BY <2>2
<1>2. ASSUME NEW k \in Nat, k \in P PROVE k + 1 \in P
  <2>1. PICK f : Stand(f, k)
    BY <1>2
  <2> DEFINE top == StandAt(f[k], k + 1)
             g == [h \in 0..(k + 1) |-> IF h = k + 1 THEN top ELSE f[h]]
  <2> HIDE DEF top
  <2>2. \A h \in 0..k : g[h] = f[h]
    BY <1>2
  <2>3. ASSUME NEW h \in 0..(k + 1)
        PROVE  g[h] = IF h = 0 THEN StandLeaf ELSE StandAt(g[h - 1], h)
    <3>1. CASE h = k + 1
      <4>1. g[h] = top /\ h # 0 /\ h - 1 = k /\ g[k] = f[k]
        BY <1>2, <2>2, <3>1
      <4> QED BY <3>1, <4>1 DEF top
    <3>2. CASE h \in 0..k
      <4>1. g[h] = f[h] /\ (h # 0 => h - 1 \in 0..k)
        BY <1>2, <2>2, <3>2
      <4>2. h # 0 => g[h - 1] = f[h - 1]
        BY <2>2, <4>1
      <4>3. f[h] = IF h = 0 THEN StandLeaf ELSE StandAt(f[h - 1], h)
        BY <2>1, <3>2 DEF Stand
      <4> QED BY <4>1, <4>2, <4>3
    <3> QED BY <1>2, <3>1, <3>2
  <2>4. Stand(g, k + 1)
    BY <2>3 DEF Stand
  <2> QED BY <2>4, <1>2
<1> HIDE DEF P
<1>3. Nat \subseteq P
  BY <1>1, <1>2, Induction
<1> QED BY <1>3 DEF P

Stands == CHOOSE f : Stand(f, Height)
StandsFor(h, t, n, a, A) == View(t, n, a, A) \in Stands[h]

\* The definition of StandsFor, leaf and inner node.
LEMMA StandsDef ==
  ASSUME NEW t \in Trees, NEW n \in Slots, NEW a \in Elements, NEW A \in Arrays
  PROVE  /\ StandsFor(0, t, n, a, A) <=> t.sum[n] = A[a]
         /\ \A h \in 1..Height :
              StandsFor(h, t, n, a, A) <=>
                LET b == Right(a, h)
                    B == Less(A, t.lazy[n])
                IN /\ t.sum[n] = RangeSum(A, a, b)
                   /\ StandsFor(h - 1, t, 2 * n, a, B)
                   /\ StandsFor(h - 1, t, 2 * n + 1, Middle(a, b) + 1, B)
<1>1. Stand(Stands, Height)
  <2>1. \E f : Stand(f, Height)
    BY StandExist, SegmentTreeAssumption
  <2> QED BY <2>1 DEF Stands
<1> DEFINE v == View(t, n, a, A)
<1>2. v \in Views /\ v.t = t /\ v.n = n /\ v.a = a /\ v.A = A
  BY DEF View, Views
<1> HIDE DEF v
<1>3. Stands[0] = StandLeaf
  <2>1. 0 \in 0..Height
    BY SegmentTreeAssumption
  <2> QED BY <1>1, <2>1 DEF Stand
<1>4. StandsFor(0, t, n, a, A) <=> t.sum[n] = A[a]
  <2>1. v \in StandLeaf <=> v.t.sum[v.n] = v.A[v.a]
    BY <1>2 DEF StandLeaf
  <2> QED BY <1>2, <1>3, <2>1 DEF StandsFor, v
<1>5. ASSUME NEW h \in 1..Height
      PROVE  StandsFor(h, t, n, a, A) <=>
                LET b == Right(a, h)
                    B == Less(A, t.lazy[n])
                IN /\ t.sum[n] = RangeSum(A, a, b)
                   /\ StandsFor(h - 1, t, 2 * n, a, B)
                   /\ StandsFor(h - 1, t, 2 * n + 1, Middle(a, b) + 1, B)
  <2>1. Stands[h] = StandAt(Stands[h - 1], h)
    <3>1. h \in 0..Height /\ h # 0
      BY SegmentTreeAssumption
    <3> QED BY <1>1, <3>1 DEF Stand
  <2>2. v \in StandAt(Stands[h - 1], h) <=>
           LET b == Right(v.a, h)
               B == Less(v.A, v.t.lazy[v.n])
           IN /\ v.t.sum[v.n] = RangeSum(v.A, v.a, b)
              /\ View(v.t, 2 * v.n, v.a, B) \in Stands[h - 1]
              /\ View(v.t, 2 * v.n + 1, Middle(v.a, b) + 1, B) \in Stands[h - 1]
    BY <1>2 DEF StandAt
  <2>3. v \in StandAt(Stands[h - 1], h) <=>
           LET b == Right(a, h)
               B == Less(A, t.lazy[n])
           IN /\ t.sum[n] = RangeSum(A, a, b)
              /\ View(t, 2 * n, a, B) \in Stands[h - 1]
              /\ View(t, 2 * n + 1, Middle(a, b) + 1, B) \in Stands[h - 1]
    BY <1>2, <2>2
  <2> QED BY <2>1, <2>3 DEF StandsFor, v
<1> QED BY <1>4, <1>5

\* Arrays with something taken away are arrays.
LEMMA LessType ==
  ASSUME NEW A \in Arrays, NEW x \in Int
  PROVE  Less(A, x) \in Arrays /\ \A i \in Elements : Less(A, x)[i] = A[i] - x
  BY DEF Arrays, Less

\* Two trees have the same sums and marks in a set of nodes.
Same(t, u, N) == \A x \in Slots : x \in N => t.sum[x] = u.sum[x] /\ t.lazy[x] = u.lazy[x]

\* What node n stands for depends on the nodes below it and on the elements
\* it covers.
Local(h) == \A t, u \in Trees : \A A, B \in Arrays : \A n \in Slots, a \in Elements :
              /\ Covers(h, n, a) /\ Same(t, u, Below(h, n))
              /\ \A i \in a..Right(a, h) : A[i] = B[i]
              /\ StandsFor(h, t, n, a, A)
              => StandsFor(h, u, n, a, B)

\* This holds for leaves and passes from children to parents.
LEMMA StandsLocal == \A h \in 0..Height : Local(h)
<1> DEFINE P == {h \in Nat : h <= Height => Local(h)}
<1>1. 0 \in P
  <2> SUFFICES ASSUME NEW t \in Trees, NEW u \in Trees, NEW A \in Arrays, NEW B \in Arrays,
                      NEW n \in Slots, NEW a \in Elements,
                      Covers(0, n, a), Same(t, u, Below(0, n)),
                      \A i \in a..Right(a, 0) : A[i] = B[i],
                      StandsFor(0, t, n, a, A)
               PROVE  StandsFor(0, u, n, a, B)
    BY DEF Local
  <2>1. 0 \in 0..Height
    BY SegmentTreeAssumption
  <2>2. t.sum[n] = u.sum[n]
    <3>1. n \in Nat /\ 1 <= n
      BY DEF Covers
    <3> QED BY <2>1, <3>1, BelowSelf DEF Same
  <2>3. A[a] = B[a]
    <3>1. a \in Nat /\ a <= Right(a, 0) /\ Right(a, 0) \in Int
      BY <2>1, CoversType
    <3> QED BY <3>1
  <2>4. t.sum[n] = A[a]
    BY StandsDef
  <2>5. u.sum[n] = B[a]
    BY <2>2, <2>3, <2>4
  <2> QED BY <2>5, StandsDef
<1>2. ASSUME NEW k \in Nat, k \in P PROVE k + 1 \in P
  <2> SUFFICES ASSUME k + 1 <= Height PROVE Local(k + 1)
    OBVIOUS
  <2> DEFINE h == k + 1
  <2>1. h \in 1..Height /\ h - 1 = k /\ k \in 0..Height /\ h \in 0..Height
    BY SegmentTreeAssumption
  <2>2. Local(h - 1)
    BY <1>2, <2>1
  <2> HIDE DEF h
  <2> SUFFICES ASSUME NEW t \in Trees, NEW u \in Trees, NEW A \in Arrays, NEW B \in Arrays,
                      NEW n \in Slots, NEW a \in Elements,
                      Covers(h, n, a), Same(t, u, Below(h, n)),
                      \A i \in a..Right(a, h) : A[i] = B[i],
                      StandsFor(h, t, n, a, A)
               PROVE  StandsFor(h, u, n, a, B)
    BY DEF Local, h
  <2> DEFINE b == Right(a, h)
             m == Middle(a, b)
             x == t.lazy[n]
  <2>3. /\ Covers(h - 1, 2 * n, a) /\ Covers(h - 1, 2 * n + 1, m + 1)
        /\ Right(a, h - 1) = m /\ Right(m + 1, h - 1) = b
        /\ a <= m /\ m < b /\ m \in Elements /\ m \in Nat /\ h - 1 \in 0..Height
    BY <2>1, CoversBelow
  <2>4. n \in Nat /\ 1 <= n /\ b \in Elements /\ a \in Nat /\ b \in Nat /\ m \in Nat
    BY <2>1, <2>3, CoversType
  <2>5. 2 * n \in Slots /\ 2 * n + 1 \in Slots /\ m + 1 \in Elements
    BY <2>3, CoversType
  <2> HIDE DEF b, m
  <2>6. u.sum[n] = t.sum[n] /\ u.lazy[n] = x /\ x \in Int
    BY <2>1, <2>4, BelowSelf DEF Same, Trees
  <2>7. Same(t, u, Below(h - 1, 2 * n)) /\ Same(t, u, Below(h - 1, 2 * n + 1))
    BY <2>1, <2>4, BelowChild DEF Same
  <2>8. /\ t.sum[n] = RangeSum(A, a, b)
        /\ StandsFor(h - 1, t, 2 * n, a, Less(A, x))
        /\ StandsFor(h - 1, t, 2 * n + 1, m + 1, Less(A, x))
    BY <2>1, StandsDef DEF b, m
  <2>9. /\ Less(A, x) \in Arrays /\ \A i \in Elements : Less(A, x)[i] = A[i] - x
        /\ Less(B, x) \in Arrays /\ \A i \in Elements : Less(B, x)[i] = B[i] - x
    BY <2>6, LessType
  <2>10. \A i \in a..b : i \in Elements /\ Less(A, x)[i] = Less(B, x)[i]
    <3>1. \A i \in a..b : i \in Elements
      BY <2>4, LengthType DEF Elements
    <3>2. \A i \in a..b : A[i] = B[i]
      BY DEF b
    <3> QED BY <2>9, <3>1, <3>2
  <2>11. StandsFor(h - 1, u, 2 * n, a, Less(B, x))
    <3>1. \A i \in a..Right(a, h - 1) : Less(A, x)[i] = Less(B, x)[i]
      <4>1. \A i \in a..m : i \in a..b
        BY <2>3, <2>4
      <4> QED BY <2>3, <2>10, <4>1
    <3>2. Less(A, x) \in Arrays /\ Less(B, x) \in Arrays
      BY <2>9
    <3> DEFINE q == 2 * n
               c == a
               g == h - 1
               A1 == Less(A, x)
               B1 == Less(B, x)
    <3>3. /\ q \in Slots /\ c \in Elements /\ Covers(g, q, c) /\ Same(t, u, Below(g, q))
          /\ \A i \in c..Right(c, g) : A1[i] = B1[i]
          /\ A1 \in Arrays /\ B1 \in Arrays /\ StandsFor(g, t, q, c, A1) /\ Local(g)
      BY <2>2, <2>3, <2>5, <2>7, <2>8, <3>1, <3>2
    <3> HIDE DEF q, c, g, A1, B1
    <3>4. StandsFor(g, u, q, c, B1)
      BY <3>3 DEF Local
    <3> QED BY <3>4 DEF q, c, g, B1
  <2>12. StandsFor(h - 1, u, 2 * n + 1, m + 1, Less(B, x))
    <3>1. \A i \in (m + 1)..Right(m + 1, h - 1) : Less(A, x)[i] = Less(B, x)[i]
      <4>1. \A i \in (m + 1)..b : i \in a..b
        BY <2>3, <2>4
      <4> QED BY <2>3, <2>10, <4>1
    <3>2. Less(A, x) \in Arrays /\ Less(B, x) \in Arrays
      BY <2>9
    <3> DEFINE q == 2 * n + 1
               c == m + 1
               g == h - 1
               A1 == Less(A, x)
               B1 == Less(B, x)
    <3>3. /\ q \in Slots /\ c \in Elements /\ Covers(g, q, c) /\ Same(t, u, Below(g, q))
          /\ \A i \in c..Right(c, g) : A1[i] = B1[i]
          /\ A1 \in Arrays /\ B1 \in Arrays /\ StandsFor(g, t, q, c, A1) /\ Local(g)
      BY <2>2, <2>3, <2>5, <2>7, <2>8, <3>1, <3>2
    <3> HIDE DEF q, c, g, A1, B1
    <3>4. StandsFor(g, u, q, c, B1)
      BY <3>3 DEF Local
    <3> QED BY <3>4 DEF q, c, g, B1
  <2>13. u.sum[n] = RangeSum(B, a, b)
    <3>1. a \in 1..Length /\ b \in a..Length
      BY <2>3, <2>4, LengthType DEF Elements
    <3>2. \A i \in a..b : A[i] = B[i]
      BY DEF b
    <3>3. RangeSum(A, a, b) = RangeSum(B, a, b)
      BY <3>1, <3>2, SumSame
    <3> QED BY <2>6, <2>8, <3>3
  <2> QED BY <2>1, <2>6, <2>11, <2>12, <2>13, StandsDef DEF b, m
<1> HIDE DEF P
<1>3. Nat \subseteq P
  BY <1>1, <1>2, Induction
<1> QED BY <1>3, SegmentTreeAssumption DEF P

\* The sum of a node is that of what it stands for.
LEMMA StandsSum ==
  ASSUME NEW h \in 0..Height, NEW t \in Trees, NEW n \in Slots, NEW a \in Elements,
         NEW A \in Arrays, Covers(h, n, a), StandsFor(h, t, n, a, A)
  PROVE  t.sum[n] = RangeSum(A, a, Right(a, h))
<1>1. CASE h = 0
  <2>1. Right(a, h) = a
    BY <1>1, SizeDoubles, LengthType DEF Right, Elements
  <2>2. t.sum[n] = A[a]
    BY <1>1, StandsDef
  <2>3. RangeSum(A, a, a) = A[a]
    BY SumSplits DEF Elements
  <2> QED BY <2>1, <2>2, <2>3
<1>2. CASE h # 0
  <2>1. h \in 1..Height
    BY <1>2, SegmentTreeAssumption
  <2> QED BY <2>1, StandsDef
<1> QED BY <1>1, <1>2

\* A node's children and a mark of zero make up what the node stands for.
LEMMA StandsJoin ==
  ASSUME NEW h \in 1..Height, NEW t \in Trees, NEW n \in Slots, NEW a \in Elements,
         NEW A \in Arrays, Covers(h, n, a), t.lazy[n] = 0,
         t.sum[n] = RangeSum(A, a, Right(a, h)),
         StandsFor(h - 1, t, 2 * n, a, A),
         StandsFor(h - 1, t, 2 * n + 1, Middle(a, Right(a, h)) + 1, A)
  PROVE  StandsFor(h, t, n, a, A)
<1>1. Less(A, 0) = A
  <2>1. \A i \in Elements : A[i] - 0 = A[i]
    BY DEF Arrays
  <2> QED BY <2>1 DEF Less, Arrays
<1> QED BY <1>1, StandsDef

\* Something is added to all elements of a node.
LEMMA NodeStands ==
  ASSUME NEW h \in 0..Height, NEW t \in Trees, NEW n \in Slots, NEW a \in Elements,
         NEW A \in Arrays, NEW B \in Arrays, NEW x \in Int,
         Covers(h, n, a), StandsFor(h, t, n, a, A),
         \A i \in a..Right(a, h) : B[i] = A[i] + x
  PROVE  LET u == AddToNode(t, n, x, h)
         IN u \in Trees /\ StandsFor(h, u, n, a, B) /\ Same(t, u, Slots \ {n})
<1> DEFINE u == AddToNode(t, n, x, h)
           b == Right(a, h)
           y == t.lazy[n]
<1>1. Size[h] \in Nat /\ x * Size[h] \in Int
  <2>1. Size[h] \in Nat
    BY SizeType
  <2> QED BY <2>1
<1>2. y \in Int /\ t.sum[n] \in Int
  BY DEF Trees
<1>3. /\ u \in Trees /\ u.sum[n] = t.sum[n] + x * Size[h] /\ u.lazy[n] = y + x
      /\ Same(t, u, Slots \ {n})
  BY <1>1, <1>2 DEF AddToNode, Trees, Same
<1> HIDE DEF u
<1>4. /\ b \in Elements /\ a <= b /\ b - a + 1 = Size[h] /\ b \in Nat
      /\ n \in Nat /\ 1 <= n /\ a \in Nat /\ 1 <= a
  BY CoversType
<1>5. a \in 1..Length /\ b \in a..Length
  BY <1>4, LengthType DEF Elements
<1> HIDE DEF b
<1>6. u.sum[n] = RangeSum(B, a, b)
  <2>1. t.sum[n] = RangeSum(A, a, b)
    BY StandsSum DEF b
  <2>2. RangeSum(B, a, b) = RangeSum(A, a, b) + x * (b - a + 1)
    BY <1>5, SumShifts DEF b
  <2> QED BY <1>3, <1>4, <2>1, <2>2
<1>7. CASE h = 0
  <2>1. b = a
    BY <1>4, <1>7, SizeDoubles
  <2>2. RangeSum(B, a, a) = B[a]
    BY <1>5, SumSplits
  <2>3. StandsFor(h, u, n, a, B)
    BY <1>3, <1>6, <1>7, <2>1, <2>2, StandsDef
  <2> QED BY <1>3, <2>3 DEF u
<1>8. CASE h # 0
  <2>1. h \in 1..Height
    BY <1>8, SegmentTreeAssumption
  <2> DEFINE m == Middle(a, b)
  <2>2. /\ Covers(h - 1, 2 * n, a) /\ Covers(h - 1, 2 * n + 1, m + 1)
        /\ Right(a, h - 1) = m /\ Right(m + 1, h - 1) = b
        /\ a <= m /\ m < b /\ m \in Elements /\ m \in Nat /\ h - 1 \in 0..Height
    BY <2>1, CoversBelow DEF b
  <2> HIDE DEF m
  <2>3. 2 * n \in Slots /\ 2 * n + 1 \in Slots /\ m + 1 \in Elements
    BY <2>2, CoversType
  <2>4. /\ Less(A, y) \in Arrays /\ Less(B, y + x) \in Arrays
        /\ \A i \in a..b : Less(A, y)[i] = Less(B, y + x)[i]
    <3>1. y + x \in Int
      BY <1>2
    <3>2. /\ Less(A, y) \in Arrays /\ \A i \in Elements : Less(A, y)[i] = A[i] - y
          /\ Less(B, y + x) \in Arrays
          /\ \A i \in Elements : Less(B, y + x)[i] = B[i] - (y + x)
      BY <1>2, <3>1, LessType
    <3>3. \A i \in a..b : i \in Elements /\ B[i] = A[i] + x /\ A[i] \in Int
      <4>1. \A i \in a..b : i \in Elements
        BY <1>5, LengthType DEF Elements
      <4> QED BY <4>1 DEF b, Arrays
    <3>4. \A i \in a..b : A[i] - y = B[i] - (y + x)
      BY <1>2, <3>3
    <3> QED BY <3>2, <3>3, <3>4
  <2>5. /\ StandsFor(h - 1, t, 2 * n, a, Less(A, y))
        /\ StandsFor(h - 1, t, 2 * n + 1, m + 1, Less(A, y))
    BY <2>1, StandsDef DEF b, m
  <2>6. Same(t, u, Below(h - 1, 2 * n)) /\ Same(t, u, Below(h - 1, 2 * n + 1))
    BY <1>3, <1>4, <2>2, BelowSelf DEF Same
  <2>7. Local(h - 1)
    BY <2>2, StandsLocal
  <2>8. StandsFor(h - 1, u, 2 * n, a, Less(B, y + x))
    <3>1. \A i \in a..Right(a, h - 1) : Less(A, y)[i] = Less(B, y + x)[i]
      <4>1. \A i \in a..m : i \in a..b
        BY <1>4, <2>2
      <4> QED BY <2>2, <2>4, <4>1
    <3> DEFINE q == 2 * n
               c == a
               g == h - 1
               A1 == Less(A, y)
               B1 == Less(B, y + x)
    <3>2. /\ q \in Slots /\ c \in Elements /\ Covers(g, q, c) /\ Same(t, u, Below(g, q))
          /\ \A i \in c..Right(c, g) : A1[i] = B1[i]
          /\ A1 \in Arrays /\ B1 \in Arrays /\ StandsFor(g, t, q, c, A1) /\ Local(g)
      BY <2>2, <2>3, <2>4, <2>5, <2>6, <2>7, <3>1
    <3> HIDE DEF q, c, g, A1, B1
    <3>3. StandsFor(g, u, q, c, B1)
      BY <1>3, <3>2 DEF Local
    <3> QED BY <3>3 DEF q, c, g, B1
  <2>9. StandsFor(h - 1, u, 2 * n + 1, m + 1, Less(B, y + x))
    <3>1. \A i \in (m + 1)..Right(m + 1, h - 1) : Less(A, y)[i] = Less(B, y + x)[i]
      <4>1. \A i \in (m + 1)..b : i \in a..b
        BY <1>4, <2>2
      <4> QED BY <2>2, <2>4, <4>1
    <3> DEFINE q == 2 * n + 1
               c == m + 1
               g == h - 1
               A1 == Less(A, y)
               B1 == Less(B, y + x)
    <3>2. /\ q \in Slots /\ c \in Elements /\ Covers(g, q, c) /\ Same(t, u, Below(g, q))
          /\ \A i \in c..Right(c, g) : A1[i] = B1[i]
          /\ A1 \in Arrays /\ B1 \in Arrays /\ StandsFor(g, t, q, c, A1) /\ Local(g)
      BY <2>2, <2>3, <2>4, <2>5, <2>6, <2>7, <3>1
    <3> HIDE DEF q, c, g, A1, B1
    <3>3. StandsFor(g, u, q, c, B1)
      BY <1>3, <3>2 DEF Local
    <3> QED BY <3>3 DEF q, c, g, B1
  <2>10. StandsFor(h, u, n, a, B)
    <3>1. u.lazy[n] = y + x
      BY <1>3
    <3> HIDE DEF y
    <3> QED BY <1>3, <1>6, <2>1, <2>8, <2>9, <3>1, StandsDef DEF b, m
  <2> QED BY <1>3, <2>10 DEF u
<1> QED BY <1>7, <1>8

\* PushDown: the children stand for what the node stands for.
LEMMA PushDownStands ==
  ASSUME NEW h \in 1..Height, NEW t \in Trees, NEW n \in Slots, NEW a \in Elements,
         NEW A \in Arrays, Covers(h, n, a), StandsFor(h, t, n, a, A)
  PROVE  LET b == Right(a, h)
             u == PushDown(t, n, a, b)
         IN /\ u \in Trees /\ u.lazy[n] = 0 /\ u.sum[n] = t.sum[n]
            /\ StandsFor(h - 1, u, 2 * n, a, A)
            /\ StandsFor(h - 1, u, 2 * n + 1, Middle(a, b) + 1, A)
            /\ Same(t, u, Slots \ Below(h, n))
<1> DEFINE b == Right(a, h)
           m == Middle(a, b)
           u == PushDown(t, n, a, b)
           x == t.lazy[n]
           s == Size[h - 1]
<1>1. /\ Covers(h - 1, 2 * n, a) /\ Covers(h - 1, 2 * n + 1, m + 1)
      /\ Right(a, h - 1) = m /\ Right(m + 1, h - 1) = b
      /\ m - a + 1 = s /\ b - m = s
      /\ a <= m /\ m < b /\ m \in Elements /\ m \in Nat /\ h - 1 \in 0..Height
  BY CoversBelow
<1>2. /\ b \in Elements /\ b \in Nat /\ n \in Nat /\ 1 <= n /\ a \in Nat /\ 1 <= a
      /\ h \in 0..Height
  <2>1. h \in 0..Height
    BY SegmentTreeAssumption
  <2> QED BY <2>1, CoversType
<1>3. 2 * n \in Slots /\ 2 * n + 1 \in Slots /\ m + 1 \in Elements
  BY <1>1, CoversType
<1>4. x \in Int /\ s \in Nat /\ x * s \in Int
  <2>1. x \in Int /\ s \in Nat
    BY <1>1, SizeType DEF Trees
  <2> QED BY <2>1
<1>5. n # 2 * n /\ n # 2 * n + 1 /\ 2 * n # 2 * n + 1
  BY <1>2
<1>6. u = [sum  |-> [t.sum EXCEPT ![2 * n] = @ + x * s, ![2 * n + 1] = @ + x * s],
           lazy |-> [t.lazy EXCEPT ![2 * n] = @ + x, ![2 * n + 1] = @ + x, ![n] = 0]]
  BY <1>1 DEF PushDown
<1> HIDE DEF b, m, u, s
<1>7. /\ u \in Trees /\ u.lazy[n] = 0 /\ u.sum[n] = t.sum[n]
      /\ u.sum[2 * n] = t.sum[2 * n] + x * s
      /\ u.lazy[2 * n] = t.lazy[2 * n] + x
      /\ u.sum[2 * n + 1] = t.sum[2 * n + 1] + x * s
      /\ u.lazy[2 * n + 1] = t.lazy[2 * n + 1] + x
      /\ \A k \in Slots \ {n, 2 * n, 2 * n + 1} :
            u.sum[k] = t.sum[k] /\ u.lazy[k] = t.lazy[k]
  <2> DEFINE l == 2 * n
             r == 2 * n + 1
             z == x * s
             f == t.sum
             g == t.lazy
  <2>1. /\ l \in Slots /\ r \in Slots /\ n # l /\ n # r /\ l # r /\ z \in Int
        /\ x \in Int /\ f \in [Slots -> Int] /\ g \in [Slots -> Int]
    BY <1>3, <1>4, <1>5 DEF Trees
  <2>2. u = [sum  |-> [f EXCEPT ![l] = @ + z, ![r] = @ + z],
             lazy |-> [g EXCEPT ![l] = @ + x, ![r] = @ + x, ![n] = 0]]
    BY <1>6
  <2> HIDE DEF l, r, z, f, g, x
  <2>3. /\ u.sum \in [Slots -> Int] /\ u.lazy \in [Slots -> Int]
        /\ u.lazy[n] = 0 /\ u.sum[n] = f[n]
        /\ u.sum[l] = f[l] + z /\ u.lazy[l] = g[l] + x
        /\ u.sum[r] = f[r] + z /\ u.lazy[r] = g[r] + x
        /\ \A k \in Slots \ {n, l, r} : u.sum[k] = f[k] /\ u.lazy[k] = g[k]
    BY <2>1, <2>2
  <2>4. u \in Trees
    BY <2>2, <2>3 DEF Trees
  <2> QED BY <2>3, <2>4 DEF l, r, z, f, g
<1>8. Same(t, u, Slots \ Below(h, n))
  <2>1. n \in Below(h, n) /\ 2 * n \in Below(h - 1, 2 * n)
        /\ 2 * n + 1 \in Below(h - 1, 2 * n + 1)
    <3>1. 2 * n \in Nat /\ 1 <= 2 * n /\ 2 * n + 1 \in Nat /\ 1 <= 2 * n + 1
      BY <1>2
    <3> QED BY <1>1, <1>2, <3>1, BelowSelf
  <2>2. {n, 2 * n, 2 * n + 1} \subseteq Below(h, n)
    BY <1>2, <2>1, BelowChild
  <2> QED BY <1>7, <2>2 DEF Same
<1>9. /\ StandsFor(h - 1, t, 2 * n, a, Less(A, x))
      /\ StandsFor(h - 1, t, 2 * n + 1, m + 1, Less(A, x))
  BY StandsDef DEF b, m
<1>10. /\ Less(A, x) \in Arrays
       /\ \A i \in Elements : A[i] = Less(A, x)[i] + x
  <2>1. Less(A, x) \in Arrays /\ \A i \in Elements : Less(A, x)[i] = A[i] - x
    BY <1>4, LessType
  <2>2. \A i \in Elements : A[i] \in Int
    BY DEF Arrays
  <2> QED BY <1>4, <2>1, <2>2
<1>11. Local(h - 1)
  BY <1>1, StandsLocal
<1>12. ASSUME NEW k \in {2 * n, 2 * n + 1}, NEW c \in Elements, Covers(h - 1, k, c),
              StandsFor(h - 1, t, k, c, Less(A, x))
       PROVE  StandsFor(h - 1, u, k, c, A)
  <2> DEFINE v == AddToNode(t, k, x, h - 1)
  <2>1. k \in Slots /\ k \in Nat /\ 1 <= k
    BY <1>2, <1>3
  <2>2. \A i \in c..Right(c, h - 1) : i \in Elements
    <3>1. c \in Nat /\ 1 <= c /\ Right(c, h - 1) \in Elements
      BY <1>1, <1>12, CoversType
    <3> QED BY <3>1, LengthType DEF Elements
  <2>3. v \in Trees /\ StandsFor(h - 1, v, k, c, A) /\ Same(t, v, Slots \ {k})
    BY <1>1, <1>4, <1>10, <1>12, <2>1, <2>2, NodeStands
  <2>4. v.sum[k] = t.sum[k] + x * s /\ v.lazy[k] = t.lazy[k] + x
    BY <2>1 DEF AddToNode, Trees, s
  <2> HIDE DEF v
  <2>5. \A j \in Below(h - 1, k) : j = k \/ j \notin {n, 2 * n, 2 * n + 1}
    <3>1. /\ n \notin Below(h - 1, 2 * n) /\ n \notin Below(h - 1, 2 * n + 1)
          /\ Below(h - 1, 2 * n) \cap Below(h - 1, 2 * n + 1) = {}
      BY <1>1, <1>2, BelowSelf, BelowDisjoint
    <3>2. 2 * n \in Below(h - 1, 2 * n) /\ 2 * n + 1 \in Below(h - 1, 2 * n + 1)
      <4>1. 2 * n \in Nat /\ 1 <= 2 * n /\ 2 * n + 1 \in Nat /\ 1 <= 2 * n + 1
        BY <1>2
      <4> QED BY <1>1, <4>1, BelowSelf
    <3> QED BY <3>1, <3>2
  <2>6. Same(v, u, Below(h - 1, k))
    <3> SUFFICES ASSUME NEW j \in Slots, j \in Below(h - 1, k)
                 PROVE  v.sum[j] = u.sum[j] /\ v.lazy[j] = u.lazy[j]
      BY DEF Same
    <3>1. CASE j = k
      BY <1>7, <2>4, <3>1
    <3>2. CASE j # k
      <4>1. j \notin {n, 2 * n, 2 * n + 1}
        BY <2>5, <3>2
      <4>2. u.sum[j] = t.sum[j] /\ u.lazy[j] = t.lazy[j]
        BY <1>7, <4>1
      <4>3. v.sum[j] = t.sum[j] /\ v.lazy[j] = t.lazy[j]
        BY <2>3, <3>2 DEF Same
      <4> QED BY <4>2, <4>3
    <3> QED BY <3>1, <3>2
  <2> QED BY <1>7, <1>11, <1>12, <2>1, <2>3, <2>6 DEF Local
<1>13. StandsFor(h - 1, u, 2 * n, a, A) /\ StandsFor(h - 1, u, 2 * n + 1, m + 1, A)
  BY <1>1, <1>3, <1>9, <1>12
<1> QED BY <1>7, <1>8, <1>13 DEF u, m, b

\* PushUp: a node without a mark stands for what its children stand for.
LEMMA PushUpStands ==
  ASSUME NEW h \in 1..Height, NEW t \in Trees, NEW n \in Slots, NEW a \in Elements,
         NEW A \in Arrays, Covers(h, n, a), t.lazy[n] = 0,
         StandsFor(h - 1, t, 2 * n, a, A),
         StandsFor(h - 1, t, 2 * n + 1, Middle(a, Right(a, h)) + 1, A)
  PROVE  LET u == PushUp(t, n)
         IN /\ u \in Trees /\ StandsFor(h, u, n, a, A) /\ u.lazy = t.lazy
            /\ Same(t, u, Slots \ {n})
<1> DEFINE b == Right(a, h)
           m == Middle(a, b)
           u == PushUp(t, n)
<1>1. /\ Covers(h - 1, 2 * n, a) /\ Covers(h - 1, 2 * n + 1, m + 1)
      /\ Right(a, h - 1) = m /\ Right(m + 1, h - 1) = b
      /\ a <= m /\ m < b /\ m \in Elements /\ m \in Nat /\ h - 1 \in 0..Height
  BY CoversBelow
<1>2. /\ b \in Elements /\ b \in Nat /\ n \in Nat /\ 1 <= n /\ a \in Nat /\ 1 <= a
      /\ h \in 0..Height
  <2>1. h \in 0..Height
    BY SegmentTreeAssumption
  <2> QED BY <2>1, CoversType
<1>3. 2 * n \in Slots /\ 2 * n + 1 \in Slots /\ m + 1 \in Elements
  BY <1>1, CoversType
<1>4. t.sum[2 * n] \in Int /\ t.sum[2 * n + 1] \in Int
  BY <1>3 DEF Trees
<1>5. /\ u \in Trees /\ u.sum[n] = t.sum[2 * n] + t.sum[2 * n + 1]
      /\ u.lazy = t.lazy /\ Same(t, u, Slots \ {n})
  BY <1>4 DEF PushUp, Trees, Same
<1> HIDE DEF u, b, m
<1>6. u.sum[n] = RangeSum(A, a, b)
  <2>1. t.sum[2 * n] = RangeSum(A, a, m)
    BY <1>1, <1>3, StandsSum
  <2>2. t.sum[2 * n + 1] = RangeSum(A, m + 1, b)
    BY <1>1, <1>3, StandsSum DEF m, b
  <2>3. RangeSum(A, a, m) + RangeSum(A, m + 1, b) = RangeSum(A, a, b)
    BY <1>1, <1>2, SumSplits DEF Elements
  <2> QED BY <1>5, <2>1, <2>2, <2>3
<1>7. Same(t, u, Below(h - 1, 2 * n)) /\ Same(t, u, Below(h - 1, 2 * n + 1))
  BY <1>1, <1>2, <1>5, BelowSelf DEF Same
<1>8. StandsFor(h - 1, u, 2 * n, a, A) /\ StandsFor(h - 1, u, 2 * n + 1, m + 1, A)
  <2>1. Local(h - 1)
    BY <1>1, StandsLocal
  <2>2. StandsFor(h - 1, t, 2 * n + 1, m + 1, A)
    BY DEF m, b
  <2> QED BY <1>1, <1>3, <1>5, <1>7, <2>1, <2>2 DEF Local
<1>9. StandsFor(h, u, n, a, A)
  BY <1>5, <1>6, <1>8, StandsJoin DEF m, b
<1> QED BY <1>5, <1>9 DEF u

-----------------------------------------------------------------------------
(***************************************************************************)
(* The operations, one level at a time.                                    *)
(***************************************************************************)

\* A node stands for all arrays with the elements it covers.
LEMMA StandsArray ==
  ASSUME NEW h \in 0..Height, NEW t \in Trees, NEW n \in Slots, NEW a \in Elements,
         NEW A \in Arrays, NEW B \in Arrays, Covers(h, n, a), StandsFor(h, t, n, a, A),
         \A i \in a..Right(a, h) : A[i] = B[i]
  PROVE  StandsFor(h, t, n, a, B)
<1>1. Same(t, t, Below(h, n))
  BY DEF Same
<1> QED BY <1>1, StandsLocal DEF Local

\* The two halves of node n of height h are the nodes k and j of height g.
Halves(h, n, g, k, j) ==
  /\ h \in 1..Height /\ g = h - 1
  /\ n \in Slots /\ n \in Nat /\ 1 <= n
  /\ (k = 2 * n /\ j = 2 * n + 1) \/ (k = 2 * n + 1 /\ j = 2 * n)

\* Trees t and u are the same but for node n and what is below, and u has the
\* mark and the sum of t at n.
Beside(t, u, h, n) ==
  u.lazy[n] = t.lazy[n] /\ u.sum[n] = t.sum[n] /\ Same(t, u, Slots \ Below(h, n))

\* A step in one half of a node leaves the node and the other half alone.
LEMMA OtherHalf ==
  ASSUME NEW h, NEW n, NEW g, NEW k, NEW j, Halves(h, n, g, k, j),
         NEW t \in Trees, NEW u \in Trees, NEW c, NEW A \in Arrays, Covers(g, j, c),
         Same(t, u, Slots \ Below(g, k)), StandsFor(g, t, j, c, A)
  PROVE  Beside(t, u, h, n) /\ StandsFor(g, u, j, c, A)
<1>1. /\ h \in 1..Height /\ g = h - 1 /\ g \in 0..Height
      /\ n \in Slots /\ n \in Nat /\ 1 <= n
      /\ (k = 2 * n /\ j = 2 * n + 1) \/ (k = 2 * n + 1 /\ j = 2 * n)
  BY SegmentTreeAssumption DEF Halves
<1>2. j \in Slots /\ c \in Elements
  BY <1>1, CoversType
<1>3. n \notin Below(g, k) /\ Below(g, k) \subseteq Below(h, n)
  BY <1>1, BelowSelf, BelowChild
<1>4. Below(g, j) \cap Below(g, k) = {}
  <2>1. Below(g, 2 * n) \cap Below(g, 2 * n + 1) = {}
    BY <1>1, BelowDisjoint
  <2> QED BY <1>1, <2>1
<1>5. Beside(t, u, h, n)
  BY <1>1, <1>3 DEF Same, Beside
<1>6. Same(t, u, Below(g, j))
  BY <1>4 DEF Same
<1>7. Local(g)
  BY <1>1, StandsLocal
<1> QED BY <1>2, <1>5, <1>6, <1>7 DEF Local

\* A step in the left half ...
LEMMA LeftStep ==
  ASSUME NEW h \in 1..Height, NEW n \in Slots, NEW a \in Elements, Covers(h, n, a),
         NEW t \in Trees, NEW u \in Trees, NEW A \in Arrays,
         NEW m, m = Middle(a, Right(a, h)),
         Same(t, u, Slots \ Below(h - 1, 2 * n)),
         StandsFor(h - 1, t, 2 * n + 1, m + 1, A)
  PROVE  Beside(t, u, h, n) /\ StandsFor(h - 1, u, 2 * n + 1, m + 1, A)
<1> DEFINE g == h - 1
           k == 2 * n
           j == 2 * n + 1
           c == m + 1
<1>1. Covers(g, j, c)
  BY CoversBelow
<1>2. Halves(h, n, g, k, j)
  BY DEF Halves, Covers
<1>3. Same(t, u, Slots \ Below(g, k)) /\ StandsFor(g, t, j, c, A)
  OBVIOUS
<1> HIDE DEF g, k, j, c
<1>4. Beside(t, u, h, n) /\ StandsFor(g, u, j, c, A)
  BY <1>1, <1>2, <1>3, OtherHalf
<1> QED BY <1>4 DEF g, j, c

\* ... and one in the right half.
LEMMA RightStep ==
  ASSUME NEW h \in 1..Height, NEW n \in Slots, NEW a \in Elements, Covers(h, n, a),
         NEW t \in Trees, NEW u \in Trees, NEW A \in Arrays,
         Same(t, u, Slots \ Below(h - 1, 2 * n + 1)),
         StandsFor(h - 1, t, 2 * n, a, A)
  PROVE  Beside(t, u, h, n) /\ StandsFor(h - 1, u, 2 * n, a, A)
<1> DEFINE g == h - 1
           k == 2 * n + 1
           j == 2 * n
<1>1. Covers(g, j, a)
  BY CoversBelow
<1>2. Halves(h, n, g, k, j)
  BY DEF Halves, Covers
<1>3. Same(t, u, Slots \ Below(g, k)) /\ StandsFor(g, t, j, a, A)
  OBVIOUS
<1> HIDE DEF g, k, j
<1>4. Beside(t, u, h, n) /\ StandsFor(g, u, j, a, A)
  BY <1>1, <1>2, <1>3, OtherHalf
<1> QED BY <1>4 DEF g, j

\* What is added to l..r in an array.
Plus(A, l, r, x) == [i \in Elements |-> IF i \in l..r THEN A[i] + x ELSE A[i]]

\* It leaves an array.
LEMMA PlusType ==
  ASSUME NEW A \in Arrays, NEW l, NEW r, NEW x \in Int
  PROVE  /\ Plus(A, l, r, x) \in Arrays
         /\ \A i \in Elements : Plus(A, l, r, x)[i] = IF i \in l..r THEN A[i] + x ELSE A[i]
  BY DEF Plus, Arrays

\* F adds inc to the elements l..r of each node of height h that has some.
AddsTo(F, h, l, r, inc) ==
  \A t \in Trees : \A A \in Arrays : \A n \in Slots, a \in Elements :
    /\ Covers(h, n, a) /\ l <= Right(a, h) /\ a <= r
    /\ StandsFor(h, t, n, a, A)
    => LET u == F[t][n][a]
       IN /\ u \in Trees
          /\ StandsFor(h, u, n, a, Plus(A, l, r, inc))
          /\ Same(t, u, Slots \ Below(h, n))

\* The update of a leaf.
AddLeaf(inc) == [t \in Trees |-> [n \in Slots |-> [a \in Elements |->
                   AddToNode(t, n, inc, 0)]]]

\* A range that holds all of a node.
LEMMA AddsWhole ==
  ASSUME NEW h \in 0..Height, NEW l \in Int, NEW r \in Int, NEW inc \in Int,
         NEW t \in Trees, NEW A \in Arrays, NEW n \in Slots, NEW a \in Elements,
         Covers(h, n, a), StandsFor(h, t, n, a, A), l <= a, Right(a, h) <= r
  PROVE  LET u == AddToNode(t, n, inc, h)
         IN /\ u \in Trees
            /\ StandsFor(h, u, n, a, Plus(A, l, r, inc))
            /\ Same(t, u, Slots \ Below(h, n))
<1> DEFINE B == Plus(A, l, r, inc)
           u == AddToNode(t, n, inc, h)
<1>1. B \in Arrays /\ \A i \in Elements : B[i] = IF i \in l..r THEN A[i] + inc ELSE A[i]
  BY PlusType
<1>2. /\ Right(a, h) \in Elements /\ n \in Nat /\ 1 <= n /\ a \in Nat /\ 1 <= a
      /\ Right(a, h) \in Nat
  BY CoversType
<1> HIDE DEF B
<1>3. \A i \in a..Right(a, h) : i \in Elements /\ i \in l..r
  BY <1>2, LengthType DEF Elements
<1>4. \A i \in a..Right(a, h) : B[i] = A[i] + inc
  BY <1>1, <1>3
<1>5. u \in Trees /\ StandsFor(h, u, n, a, B) /\ Same(t, u, Slots \ {n})
  BY <1>1, <1>4, NodeStands
<1>6. n \in Below(h, n)
  BY <1>2, BelowSelf
<1>7. Same(t, u, Slots \ Below(h, n))
  BY <1>5, <1>6 DEF Same
<1> QED BY <1>5, <1>7 DEF B

\* A range that holds a part of a node: the children first.
LEMMA AddsPart ==
  ASSUME NEW h \in 1..Height, NEW F, NEW l \in Int, NEW r \in Int, NEW inc \in Int,
         AddsTo(F, h - 1, l, r, inc),
         NEW t \in Trees, NEW A \in Arrays, NEW n \in Slots, NEW a \in Elements,
         Covers(h, n, a), StandsFor(h, t, n, a, A), l <= Right(a, h), a <= r
  PROVE  LET b == Right(a, h)
             m == Middle(a, b)
             t1 == PushDown(t, n, a, b)
             t2 == IF l <= m THEN F[t1][2 * n][a] ELSE t1
             t3 == IF m + 1 <= r THEN F[t2][2 * n + 1][m + 1] ELSE t2
             u == PushUp(t3, n)
         IN /\ u \in Trees
            /\ StandsFor(h, u, n, a, Plus(A, l, r, inc))
            /\ Same(t, u, Slots \ Below(h, n))
<1> DEFINE b == Right(a, h)
           m == Middle(a, b)
           t1 == PushDown(t, n, a, b)
           t2 == IF l <= m THEN F[t1][2 * n][a] ELSE t1
           t3 == IF m + 1 <= r THEN F[t2][2 * n + 1][m + 1] ELSE t2
           u == PushUp(t3, n)
           B == Plus(A, l, r, inc)
<1>1. /\ Covers(h - 1, 2 * n, a) /\ Covers(h - 1, 2 * n + 1, m + 1)
      /\ Right(a, h - 1) = m /\ Right(m + 1, h - 1) = b
      /\ a <= m /\ m < b /\ m \in Elements /\ m \in Nat /\ h - 1 \in 0..Height
  BY CoversBelow
<1>2. /\ b \in Elements /\ b \in Nat /\ n \in Nat /\ 1 <= n /\ a \in Nat /\ 1 <= a
      /\ h \in 0..Height /\ m = Middle(a, Right(a, h))
  <2>1. h \in 0..Height
    BY SegmentTreeAssumption
  <2> QED BY <2>1, CoversType
<1>3. 2 * n \in Slots /\ 2 * n + 1 \in Slots /\ m + 1 \in Elements
  BY <1>1, CoversType
<1>4. B \in Arrays /\ \A i \in Elements : B[i] = IF i \in l..r THEN A[i] + inc ELSE A[i]
  BY PlusType
<1>5. /\ t1 \in Trees /\ t1.lazy[n] = 0
      /\ StandsFor(h - 1, t1, 2 * n, a, A) /\ StandsFor(h - 1, t1, 2 * n + 1, m + 1, A)
      /\ Same(t, t1, Slots \ Below(h, n))
  BY PushDownStands
<1>6. \A i \in a..b : i \in Elements
  BY <1>2, LengthType DEF Elements
<1> HIDE DEF t1, B, b, m
<1>7. /\ t2 \in Trees /\ t2.lazy[n] = 0
      /\ StandsFor(h - 1, t2, 2 * n, a, B) /\ StandsFor(h - 1, t2, 2 * n + 1, m + 1, A)
      /\ Same(t1, t2, Slots \ Below(h, n))
  <2>1. CASE l <= m
    <3>1. t2 = F[t1][2 * n][a]
      BY <2>1
    <3> HIDE DEF t2
    <3>2. l <= Right(a, h - 1)
      BY <1>1, <2>1
    <3>3. /\ t2 \in Trees /\ StandsFor(h - 1, t2, 2 * n, a, B)
          /\ Same(t1, t2, Slots \ Below(h - 1, 2 * n))
      BY <1>1, <1>3, <1>5, <3>1, <3>2 DEF AddsTo, B
    <3>4. Beside(t1, t2, h, n) /\ StandsFor(h - 1, t2, 2 * n + 1, m + 1, A)
      BY <1>2, <1>5, <3>3, LeftStep
    <3> QED BY <1>5, <3>3, <3>4 DEF Beside
  <2>2. CASE ~(l <= m)
    <3>1. t2 = t1
      BY <2>2
    <3> HIDE DEF t2
    <3>2. \A i \in a..Right(a, h - 1) : A[i] = B[i]
      <4>1. \A i \in a..m : i \in a..b /\ i \notin l..r
        BY <1>1, <1>2, <2>2
      <4> QED BY <1>1, <1>4, <1>6, <4>1
    <3>3. StandsFor(h - 1, t1, 2 * n, a, B)
      BY <1>1, <1>3, <1>4, <1>5, <3>2, StandsArray
    <3> QED BY <1>5, <3>1, <3>3 DEF Same
  <2> QED BY <2>1, <2>2
<1> HIDE DEF t2
<1>8. /\ t3 \in Trees /\ t3.lazy[n] = 0
      /\ StandsFor(h - 1, t3, 2 * n, a, B) /\ StandsFor(h - 1, t3, 2 * n + 1, m + 1, B)
      /\ Same(t2, t3, Slots \ Below(h, n))
  <2>1. CASE m + 1 <= r
    <3>1. t3 = F[t2][2 * n + 1][m + 1]
      BY <2>1
    <3> HIDE DEF t3
    <3>2. l <= Right(m + 1, h - 1)
      BY <1>1 DEF b
    <3>3. /\ t3 \in Trees /\ StandsFor(h - 1, t3, 2 * n + 1, m + 1, B)
          /\ Same(t2, t3, Slots \ Below(h - 1, 2 * n + 1))
      BY <1>1, <1>3, <1>7, <2>1, <3>1, <3>2 DEF AddsTo, B
    <3>4. Beside(t2, t3, h, n) /\ StandsFor(h - 1, t3, 2 * n, a, B)
      BY <1>4, <1>7, <3>3, RightStep
    <3> QED BY <1>7, <3>3, <3>4 DEF Beside
  <2>2. CASE ~(m + 1 <= r)
    <3>1. t3 = t2
      BY <2>2
    <3> HIDE DEF t3
    <3>2. \A i \in (m + 1)..Right(m + 1, h - 1) : A[i] = B[i]
      <4>1. \A i \in (m + 1)..b : i \in a..b /\ i \notin l..r
        BY <1>1, <1>2, <2>2
      <4> QED BY <1>1, <1>4, <1>6, <4>1
    <3>3. StandsFor(h - 1, t2, 2 * n + 1, m + 1, B)
      BY <1>1, <1>3, <1>4, <1>7, <3>2, StandsArray
    <3> QED BY <1>7, <3>1, <3>3 DEF Same
  <2> QED BY <2>1, <2>2
<1> HIDE DEF t3
<1>9. u \in Trees /\ StandsFor(h, u, n, a, B) /\ Same(t3, u, Slots \ {n})
  BY <1>4, <1>8, PushUpStands DEF m, b
<1>10. Same(t3, u, Slots \ Below(h, n))
  <2>1. n \in Below(h, n)
    BY <1>2, BelowSelf
  <2> QED BY <1>9, <2>1 DEF Same
<1> HIDE DEF u
<1>11. Same(t, u, Slots \ Below(h, n))
  BY <1>5, <1>7, <1>8, <1>10 DEF Same
<1> QED BY <1>9, <1>11 DEF B, u, t3, t2, t1, m, b

\* Update of a range at every height.
LEMMA AddsLevel ==
  ASSUME NEW h \in 1..Height, NEW F, NEW l \in Int, NEW r \in Int, NEW inc \in Int,
         AddsTo(F, h - 1, l, r, inc)
  PROVE  AddsTo(AddAt(F, h, l, r, inc), h, l, r, inc)
<1> DEFINE G == AddAt(F, h, l, r, inc)
<1> SUFFICES ASSUME NEW t \in Trees, NEW A \in Arrays, NEW n \in Slots, NEW a \in Elements,
                    Covers(h, n, a), l <= Right(a, h), a <= r, StandsFor(h, t, n, a, A)
             PROVE  LET u == G[t][n][a]
                    IN /\ u \in Trees
                       /\ StandsFor(h, u, n, a, Plus(A, l, r, inc))
                       /\ Same(t, u, Slots \ Below(h, n))
  BY DEF AddsTo
<1> DEFINE b == Right(a, h)
           m == Middle(a, b)
           t1 == PushDown(t, n, a, b)
           t2 == IF l <= m THEN F[t1][2 * n][a] ELSE t1
           t3 == IF m + 1 <= r THEN F[t2][2 * n + 1][m + 1] ELSE t2
           part == PushUp(t3, n)
           whole == AddToNode(t, n, inc, h)
<1>1. G[t][n][a] = IF l <= a /\ b <= r THEN whole ELSE part
  BY DEF AddAt
<1>2. h \in 0..Height
  BY SegmentTreeAssumption
<1>3. CASE l <= a /\ b <= r
  <2>1. G[t][n][a] = whole
    BY <1>1, <1>3
  <2> QED BY <1>2, <1>3, <2>1, AddsWhole
<1>4. CASE ~(l <= a /\ b <= r)
  <2>1. G[t][n][a] = part
    BY <1>1, <1>4
  <2>2. /\ part \in Trees
        /\ StandsFor(h, part, n, a, Plus(A, l, r, inc))
        /\ Same(t, part, Slots \ Below(h, n))
    BY AddsPart
  <2> HIDE DEF part, G
  <2> QED BY <2>1, <2>2
<1> QED BY <1>3, <1>4

\* The recursion of AddToRange, up to m.
Adds(f, l, r, inc, m) ==
  f = [h \in 0..m |-> IF h = 0 THEN AddLeaf(inc) ELSE AddAt(f[h - 1], h, l, r, inc)]

\* It has a solution.
LEMMA AddsExist == \A l, r, inc : \A m \in Nat : \E f : Adds(f, l, r, inc, m)
<1> SUFFICES ASSUME NEW l, NEW r, NEW inc
             PROVE  \A m \in Nat : \E f : Adds(f, l, r, inc, m)
  OBVIOUS
<1> DEFINE P == {m \in Nat : \E f : Adds(f, l, r, inc, m)}
<1>1. 0 \in P
  <2> DEFINE f == [h \in 0..0 |-> AddLeaf(inc)]
  <2>1. \A h \in 0..0 : h = 0
    OBVIOUS
  <2>2. Adds(f, l, r, inc, 0)
    BY <2>1 DEF Adds
  <2> QED BY <2>2
<1>2. ASSUME NEW k \in Nat, k \in P PROVE k + 1 \in P
  <2>1. PICK f : Adds(f, l, r, inc, k)
    BY <1>2
  <2> DEFINE top == AddAt(f[k], k + 1, l, r, inc)
             g == [h \in 0..(k + 1) |-> IF h = k + 1 THEN top ELSE f[h]]
  <2> HIDE DEF top
  <2>2. \A h \in 0..k : g[h] = f[h]
    BY <1>2
  <2>3. ASSUME NEW h \in 0..(k + 1)
        PROVE  g[h] = IF h = 0 THEN AddLeaf(inc) ELSE AddAt(g[h - 1], h, l, r, inc)
    <3>1. CASE h = k + 1
      <4>1. g[h] = top /\ h # 0 /\ h - 1 = k /\ g[k] = f[k]
        BY <1>2, <2>2, <3>1
      <4> QED BY <3>1, <4>1 DEF top
    <3>2. CASE h \in 0..k
      <4>1. g[h] = f[h] /\ (h # 0 => h - 1 \in 0..k)
        BY <1>2, <2>2, <3>2
      <4>2. h # 0 => g[h - 1] = f[h - 1]
        BY <2>2, <4>1
      <4>3. f[h] = IF h = 0 THEN AddLeaf(inc) ELSE AddAt(f[h - 1], h, l, r, inc)
        BY <2>1, <3>2 DEF Adds
      <4> QED BY <4>1, <4>2, <4>3
    <3> QED BY <1>2, <3>1, <3>2
  <2>4. Adds(g, l, r, inc, k + 1)
    BY <2>3 DEF Adds
  <2> QED BY <2>4, <1>2
<1> HIDE DEF P
<1>3. Nat \subseteq P
  BY <1>1, <1>2, Induction
<1> QED BY <1>3 DEF P

\* Update of a range: the root stands for the array with the increment.
LEMMA RangeAdded ==
  ASSUME NEW l \in Elements, NEW r \in l..Length, NEW inc \in Int,
         NEW t \in Trees, NEW A \in Arrays, StandsFor(Height, t, 1, 1, A)
  PROVE  LET u == AddToRange(l, r, inc)[t][1][1]
         IN u \in Trees /\ StandsFor(Height, u, 1, 1, Plus(A, l, r, inc))
<1> DEFINE f == CHOOSE f : Adds(f, l, r, inc, Height)
<1>1. Adds(f, l, r, inc, Height)
  <2>1. \E g : Adds(g, l, r, inc, Height)
    BY AddsExist, SegmentTreeAssumption
  <2> QED BY <2>1
<1>2. AddToRange(l, r, inc) = f[Height]
  BY DEF AddToRange, Adds, AddLeaf
<1> HIDE DEF f
<1>3. l \in Int /\ r \in Int /\ 1 <= r /\ l <= Length
  BY LengthType DEF Elements
<1>4. f[0] = AddLeaf(inc) /\ \A h \in 1..Height : f[h] = AddAt(f[h - 1], h, l, r, inc)
  <2>1. 0 \in 0..Height /\ \A h \in 1..Height : h \in 0..Height /\ h # 0
    BY SegmentTreeAssumption
  <2> QED BY <1>1, <2>1 DEF Adds
<1> DEFINE P == {h \in Nat : h <= Height => AddsTo(f[h], h, l, r, inc)}
<1>5. 0 \in P
  <2> SUFFICES ASSUME NEW v \in Trees, NEW B \in Arrays, NEW n \in Slots, NEW a \in Elements,
                      Covers(0, n, a), l <= Right(a, 0), a <= r, StandsFor(0, v, n, a, B)
               PROVE  LET u == AddLeaf(inc)[v][n][a]
                      IN /\ u \in Trees
                         /\ StandsFor(0, u, n, a, Plus(B, l, r, inc))
                         /\ Same(v, u, Slots \ Below(0, n))
    BY <1>4 DEF AddsTo
  <2>1. AddLeaf(inc)[v][n][a] = AddToNode(v, n, inc, 0)
    BY DEF AddLeaf
  <2>2. 0 \in 0..Height
    BY SegmentTreeAssumption
  <2>3. Right(a, 0) = a
    BY SizeDoubles, LengthType DEF Right, Elements
  <2>4. a \in Int /\ l <= a /\ Right(a, 0) <= r
    BY <1>3, <2>3, LengthType DEF Elements
  <2>5. LET u == AddToNode(v, n, inc, 0)
        IN /\ u \in Trees
           /\ StandsFor(0, u, n, a, Plus(B, l, r, inc))
           /\ Same(v, u, Slots \ Below(0, n))
    BY <1>3, <2>2, <2>4, AddsWhole
  <2> QED BY <2>1, <2>5
<1>6. ASSUME NEW k \in Nat, k \in P PROVE k + 1 \in P
  <2> SUFFICES ASSUME k + 1 <= Height PROVE AddsTo(f[k + 1], k + 1, l, r, inc)
    OBVIOUS
  <2> DEFINE h == k + 1
  <2>1. h \in 1..Height /\ h - 1 = k
    BY SegmentTreeAssumption
  <2>2. AddsTo(f[h - 1], h - 1, l, r, inc)
    BY <1>6, <2>1, SegmentTreeAssumption
  <2> HIDE DEF h
  <2>3. AddsTo(f[h], h, l, r, inc)
    BY <1>3, <1>4, <2>1, <2>2, AddsLevel
  <2> QED BY <2>3 DEF h
<1> HIDE DEF P
<1>7. Nat \subseteq P
  BY <1>5, <1>6, Induction
<1>8. AddsTo(f[Height], Height, l, r, inc)
  BY <1>7, SegmentTreeAssumption DEF P
<1>9. /\ Covers(Height, 1, 1) /\ 1 \in Slots /\ 1 \in Elements
      /\ Right(1, Height) = Length
  <2>1. Height \in 0..Height
    BY SegmentTreeAssumption
  <2> QED BY <2>1, RootCovers, CoversType, LengthType DEF Right, Length
<1> QED BY <1>2, <1>3, <1>8, <1>9 DEF AddsTo

-----------------------------------------------------------------------------
\* The later and the earlier one of two elements.
Later(x, y) == IF x <= y THEN y ELSE x
Sooner(x, y) == IF x <= y THEN x ELSE y

\* Answer q for node n is the sum of those elements of l..r that it covers,
\* and leaves what it stands for.
Answers(q, h, t, n, a, A, l, r) ==
  /\ q.tree \in Trees
  /\ StandsFor(h, q.tree, n, a, A)
  /\ Same(t, q.tree, Slots \ Below(h, n))
  /\ q.res = RangeSum(A, Later(l, a), Sooner(r, Right(a, h)))

\* F answers for each node of height h that covers elements of l..r.
AsksFor(F, h, l, r) ==
  \A t \in Trees : \A A \in Arrays : \A n \in Slots, a \in Elements :
    /\ Covers(h, n, a) /\ l <= Right(a, h) /\ a <= r
    /\ StandsFor(h, t, n, a, A)
    => Answers(F[t][n][a], h, t, n, a, A, l, r)

\* The query of a leaf.
AskLeaf == [t \in Trees |-> [n \in Slots |-> [a \in Elements |->
              [tree |-> t, res |-> t.sum[n]]]]]

\* A range that holds all of a node.
LEMMA AsksWhole ==
  ASSUME NEW h \in 0..Height, NEW l \in Int, NEW r \in Int,
         NEW t \in Trees, NEW A \in Arrays, NEW n \in Slots, NEW a \in Elements,
         Covers(h, n, a), StandsFor(h, t, n, a, A), l <= a, Right(a, h) <= r
  PROVE  Answers([tree |-> t, res |-> t.sum[n]], h, t, n, a, A, l, r)
<1>1. a \in Nat /\ Right(a, h) \in Nat
  BY CoversType
<1>2. Later(l, a) = a /\ Sooner(r, Right(a, h)) = Right(a, h)
  BY <1>1 DEF Later, Sooner
<1>3. t.sum[n] = RangeSum(A, a, Right(a, h))
  BY StandsSum
<1>4. Same(t, t, Slots \ Below(h, n))
  BY DEF Same
<1> QED BY <1>2, <1>3, <1>4 DEF Answers

\* A range that holds a part of a node: what the children yield.
LEMMA AsksPart ==
  ASSUME NEW h \in 1..Height, NEW F, NEW l \in Int, NEW r \in Int, l <= r,
         AsksFor(F, h - 1, l, r),
         NEW t \in Trees, NEW A \in Arrays, NEW n \in Slots, NEW a \in Elements,
         Covers(h, n, a), StandsFor(h, t, n, a, A), l <= Right(a, h), a <= r
  PROVE  LET b == Right(a, h)
             m == Middle(a, b)
             t1 == PushDown(t, n, a, b)
             left == IF l <= m THEN F[t1][2 * n][a] ELSE [tree |-> t1, res |-> 0]
             right == IF m + 1 <= r THEN F[left.tree][2 * n + 1][m + 1]
                      ELSE [tree |-> left.tree, res |-> 0]
             part == [tree |-> right.tree, res |-> left.res + right.res]
         IN Answers(part, h, t, n, a, A, l, r)
<1> DEFINE b == Right(a, h)
           m == Middle(a, b)
           t1 == PushDown(t, n, a, b)
           left == IF l <= m THEN F[t1][2 * n][a] ELSE [tree |-> t1, res |-> 0]
           t2 == left.tree
           right == IF m + 1 <= r THEN F[t2][2 * n + 1][m + 1]
                    ELSE [tree |-> t2, res |-> 0]
           t3 == right.tree
           part == [tree |-> t3, res |-> left.res + right.res]
<1>1. /\ Covers(h - 1, 2 * n, a) /\ Covers(h - 1, 2 * n + 1, m + 1)
      /\ Right(a, h - 1) = m /\ Right(m + 1, h - 1) = b
      /\ a <= m /\ m < b /\ m \in Elements /\ m \in Nat /\ h - 1 \in 0..Height
  BY CoversBelow
<1>2. /\ b \in Elements /\ b \in Nat /\ n \in Nat /\ 1 <= n /\ a \in Nat /\ 1 <= a
      /\ h \in 0..Height /\ m = Middle(a, Right(a, h))
  <2>1. h \in 0..Height
    BY SegmentTreeAssumption
  <2> QED BY <2>1, CoversType
<1>3. 2 * n \in Slots /\ 2 * n + 1 \in Slots /\ m + 1 \in Elements
  BY <1>1, CoversType
<1>4. t.sum[n] = RangeSum(A, a, b)
  BY <1>2, StandsSum
<1>5. /\ t1 \in Trees /\ t1.lazy[n] = 0 /\ t1.sum[n] = t.sum[n]
      /\ StandsFor(h - 1, t1, 2 * n, a, A) /\ StandsFor(h - 1, t1, 2 * n + 1, m + 1, A)
      /\ Same(t, t1, Slots \ Below(h, n))
  BY PushDownStands
<1>6. l <= b
  OBVIOUS
<1> HIDE DEF t1, b, m
<1>7. /\ t2 \in Trees /\ t2.lazy[n] = 0 /\ t2.sum[n] = t.sum[n]
      /\ StandsFor(h - 1, t2, 2 * n, a, A) /\ StandsFor(h - 1, t2, 2 * n + 1, m + 1, A)
      /\ Same(t1, t2, Slots \ Below(h, n))
      /\ left.res = IF l <= m THEN RangeSum(A, Later(l, a), Sooner(r, m)) ELSE 0
  <2>1. CASE l <= m
    <3>1. left = F[t1][2 * n][a]
      BY <2>1
    <3> HIDE DEF left
    <3>2. l <= Right(a, h - 1)
      BY <1>1, <2>1
    <3>3. Answers(left, h - 1, t1, 2 * n, a, A, l, r)
      BY <1>1, <1>3, <1>5, <3>1, <3>2 DEF AsksFor
    <3>4. /\ t2 \in Trees /\ StandsFor(h - 1, t2, 2 * n, a, A)
          /\ Same(t1, t2, Slots \ Below(h - 1, 2 * n))
          /\ left.res = RangeSum(A, Later(l, a), Sooner(r, Right(a, h - 1)))
      BY <3>3 DEF Answers
    <3> HIDE DEF t2
    <3>5. Beside(t1, t2, h, n) /\ StandsFor(h - 1, t2, 2 * n + 1, m + 1, A)
      BY <1>2, <1>5, <3>4, LeftStep
    <3> QED BY <1>1, <1>5, <2>1, <3>4, <3>5 DEF Beside
  <2>2. CASE ~(l <= m)
    <3>1. t2 = t1 /\ left.res = 0
      BY <2>2
    <3> HIDE DEF t2, left
    <3> QED BY <1>5, <2>2, <3>1 DEF Same
  <2> QED BY <2>1, <2>2
<1> HIDE DEF t2
<1>8. /\ t3 \in Trees /\ t3.lazy[n] = 0 /\ t3.sum[n] = t.sum[n]
      /\ StandsFor(h - 1, t3, 2 * n, a, A) /\ StandsFor(h - 1, t3, 2 * n + 1, m + 1, A)
      /\ Same(t2, t3, Slots \ Below(h, n))
      /\ right.res = IF m + 1 <= r THEN RangeSum(A, Later(l, m + 1), Sooner(r, b)) ELSE 0
  <2>1. CASE m + 1 <= r
    <3>1. right = F[t2][2 * n + 1][m + 1]
      BY <2>1
    <3> HIDE DEF right
    <3>2. l <= Right(m + 1, h - 1)
      BY <1>1, <1>6
    <3>3. Answers(right, h - 1, t2, 2 * n + 1, m + 1, A, l, r)
      BY <1>1, <1>3, <1>7, <2>1, <3>1, <3>2 DEF AsksFor
    <3>4. /\ t3 \in Trees /\ StandsFor(h - 1, t3, 2 * n + 1, m + 1, A)
          /\ Same(t2, t3, Slots \ Below(h - 1, 2 * n + 1))
          /\ right.res = RangeSum(A, Later(l, m + 1), Sooner(r, Right(m + 1, h - 1)))
      BY <3>3 DEF Answers
    <3> HIDE DEF t3
    <3>5. Beside(t2, t3, h, n) /\ StandsFor(h - 1, t3, 2 * n, a, A)
      BY <1>7, <3>4, RightStep
    <3> QED BY <1>1, <1>7, <2>1, <3>4, <3>5 DEF Beside
  <2>2. CASE ~(m + 1 <= r)
    <3>1. t3 = t2 /\ right.res = 0
      BY <2>2
    <3> HIDE DEF t3, right
    <3> QED BY <1>7, <2>2, <3>1 DEF Same
  <2> QED BY <2>1, <2>2
<1> HIDE DEF t3
<1>9. StandsFor(h, t3, n, a, A)
  BY <1>4, <1>8, StandsJoin DEF m, b
<1>10. Same(t, t3, Slots \ Below(h, n))
  BY <1>5, <1>7, <1>8 DEF Same
<1> HIDE DEF left, right
<1>11. left.res + right.res = RangeSum(A, Later(l, a), Sooner(r, b))
  <2> DEFINE x == Later(l, a)
             y == Sooner(r, b)
  <2>1. x \in 1..Length /\ y \in 1..Length
    BY <1>1, <1>2, <1>6, LengthType DEF x, y, Later, Sooner, Elements
  <2>2. m \in 1..Length
    BY <1>1 DEF Elements
  <2>3. RangeSum(A, x, y) \in Int /\ RangeSum(A, x, m) + RangeSum(A, m + 1, y) = RangeSum(A, x, y)
    BY <2>1, <2>2, SumSplits
  <2>4. CASE l <= m /\ m + 1 <= r
    <3>1. Sooner(r, m) = m /\ Later(l, m + 1) = m + 1
      BY <1>1, <2>4 DEF Sooner, Later
    <3> HIDE DEF x, y
    <3>2. left.res = RangeSum(A, x, m) /\ right.res = RangeSum(A, m + 1, y)
      BY <1>7, <1>8, <2>4, <3>1 DEF x, y
    <3> QED BY <2>3, <3>2 DEF x, y
  <2>5. CASE l <= m /\ ~(m + 1 <= r)
    <3>1. Sooner(r, m) = y
      BY <1>1, <1>2, <2>5 DEF Sooner
    <3>2. left.res = RangeSum(A, x, y) /\ right.res = 0
      BY <1>7, <1>8, <2>5, <3>1
    <3> HIDE DEF x, y
    <3> QED BY <2>3, <3>2 DEF x, y
  <2>6. CASE ~(l <= m)
    <3>1. m + 1 <= r /\ Later(l, m + 1) = x
      BY <1>1, <1>2, <2>6 DEF Later
    <3>2. left.res = 0 /\ right.res = RangeSum(A, x, y)
      BY <1>7, <1>8, <2>6, <3>1
    <3> HIDE DEF x, y
    <3> QED BY <2>3, <3>2 DEF x, y
  <2> QED BY <2>4, <2>5, <2>6
<1>12. Answers(part, h, t, n, a, A, l, r)
  BY <1>8, <1>9, <1>10, <1>11 DEF Answers, b
<1> HIDE DEF part
<1> QED BY <1>12 DEF part, t3, right, t2, left, t1, m, b

\* Query at every height.
LEMMA AsksLevel ==
  ASSUME NEW h \in 1..Height, NEW F, NEW l \in Int, NEW r \in Int, l <= r,
         AsksFor(F, h - 1, l, r)
  PROVE  AsksFor(AskAt(F, h, l, r), h, l, r)
<1> DEFINE G == AskAt(F, h, l, r)
<1> SUFFICES ASSUME NEW t \in Trees, NEW A \in Arrays, NEW n \in Slots, NEW a \in Elements,
                    Covers(h, n, a), l <= Right(a, h), a <= r, StandsFor(h, t, n, a, A)
             PROVE  Answers(G[t][n][a], h, t, n, a, A, l, r)
  BY DEF AsksFor
<1> DEFINE b == Right(a, h)
           m == Middle(a, b)
           t1 == PushDown(t, n, a, b)
           left == IF l <= m THEN F[t1][2 * n][a] ELSE [tree |-> t1, res |-> 0]
           right == IF m + 1 <= r THEN F[left.tree][2 * n + 1][m + 1]
                    ELSE [tree |-> left.tree, res |-> 0]
           part == [tree |-> right.tree, res |-> left.res + right.res]
           whole == [tree |-> t, res |-> t.sum[n]]
<1>1. G[t][n][a] = IF l <= a /\ b <= r THEN whole ELSE part
  BY DEF AskAt
<1>2. h \in 0..Height
  BY SegmentTreeAssumption
<1>3. CASE l <= a /\ b <= r
  <2>1. G[t][n][a] = whole
    BY <1>1, <1>3
  <2>2. Answers(whole, h, t, n, a, A, l, r)
    BY <1>2, <1>3, AsksWhole
  <2> HIDE DEF G, whole
  <2> QED BY <2>1, <2>2
<1>4. CASE ~(l <= a /\ b <= r)
  <2>1. G[t][n][a] = part
    BY <1>1, <1>4
  <2>2. Answers(part, h, t, n, a, A, l, r)
    BY AsksPart
  <2> HIDE DEF G, part
  <2> QED BY <2>1, <2>2
<1> QED BY <1>3, <1>4

\* The recursion of Ask, up to m.
Asks(f, l, r, m) ==
  f = [h \in 0..m |-> IF h = 0 THEN AskLeaf ELSE AskAt(f[h - 1], h, l, r)]

\* It has a solution.
LEMMA AsksExist == \A l, r : \A m \in Nat : \E f : Asks(f, l, r, m)
<1> SUFFICES ASSUME NEW l, NEW r
             PROVE  \A m \in Nat : \E f : Asks(f, l, r, m)
  OBVIOUS
<1> DEFINE P == {m \in Nat : \E f : Asks(f, l, r, m)}
<1>1. 0 \in P
  <2> DEFINE f == [h \in 0..0 |-> AskLeaf]
  <2>1. \A h \in 0..0 : h = 0
    OBVIOUS
  <2>2. Asks(f, l, r, 0)
    BY <2>1 DEF Asks
  <2> QED BY <2>2
<1>2. ASSUME NEW k \in Nat, k \in P PROVE k + 1 \in P
  <2>1. PICK f : Asks(f, l, r, k)
    BY <1>2
  <2> DEFINE top == AskAt(f[k], k + 1, l, r)
             g == [h \in 0..(k + 1) |-> IF h = k + 1 THEN top ELSE f[h]]
  <2> HIDE DEF top
  <2>2. \A h \in 0..k : g[h] = f[h]
    BY <1>2
  <2>3. ASSUME NEW h \in 0..(k + 1)
        PROVE  g[h] = IF h = 0 THEN AskLeaf ELSE AskAt(g[h - 1], h, l, r)
    <3>1. CASE h = k + 1
      <4>1. g[h] = top /\ h # 0 /\ h - 1 = k /\ g[k] = f[k]
        BY <1>2, <2>2, <3>1
      <4> QED BY <3>1, <4>1 DEF top
    <3>2. CASE h \in 0..k
      <4>1. g[h] = f[h] /\ (h # 0 => h - 1 \in 0..k)
        BY <1>2, <2>2, <3>2
      <4>2. h # 0 => g[h - 1] = f[h - 1]
        BY <2>2, <4>1
      <4>3. f[h] = IF h = 0 THEN AskLeaf ELSE AskAt(f[h - 1], h, l, r)
        BY <2>1, <3>2 DEF Asks
      <4> QED BY <4>1, <4>2, <4>3
    <3> QED BY <1>2, <3>1, <3>2
  <2>4. Asks(g, l, r, k + 1)
    BY <2>3 DEF Asks
  <2> QED BY <2>4, <1>2
<1> HIDE DEF P
<1>3. Nat \subseteq P
  BY <1>1, <1>2, Induction
<1> QED BY <1>3 DEF P

\* Query: the result is the sum, and the root stands for the same array.
LEMMA RangeAsked ==
  ASSUME NEW l \in Elements, NEW r \in l..Length,
         NEW t \in Trees, NEW A \in Arrays, StandsFor(Height, t, 1, 1, A)
  PROVE  LET q == Ask(l, r)[t][1][1]
         IN /\ q.tree \in Trees /\ StandsFor(Height, q.tree, 1, 1, A)
            /\ q.res = RangeSum(A, l, r)
<1> DEFINE f == CHOOSE f : Asks(f, l, r, Height)
<1>1. Asks(f, l, r, Height)
  <2>1. \E g : Asks(g, l, r, Height)
    BY AsksExist, SegmentTreeAssumption
  <2> QED BY <2>1
<1>2. Ask(l, r) = f[Height]
  BY DEF Ask, Asks, AskLeaf
<1> HIDE DEF f
<1>3. /\ l \in Int /\ r \in Int /\ 1 <= r /\ l <= Length /\ l <= r
      /\ Later(l, 1) = l /\ Sooner(r, Length) = r
  BY LengthType DEF Elements, Later, Sooner
<1>4. f[0] = AskLeaf /\ \A h \in 1..Height : f[h] = AskAt(f[h - 1], h, l, r)
  <2>1. 0 \in 0..Height /\ \A h \in 1..Height : h \in 0..Height /\ h # 0
    BY SegmentTreeAssumption
  <2> QED BY <1>1, <2>1 DEF Asks
<1> DEFINE P == {h \in Nat : h <= Height => AsksFor(f[h], h, l, r)}
<1>5. 0 \in P
  <2> SUFFICES ASSUME NEW v \in Trees, NEW B \in Arrays, NEW n \in Slots, NEW a \in Elements,
                      Covers(0, n, a), l <= Right(a, 0), a <= r, StandsFor(0, v, n, a, B)
               PROVE  Answers(AskLeaf[v][n][a], 0, v, n, a, B, l, r)
    BY <1>4 DEF AsksFor
  <2>1. AskLeaf[v][n][a] = [tree |-> v, res |-> v.sum[n]]
    BY DEF AskLeaf
  <2>2. 0 \in 0..Height
    BY SegmentTreeAssumption
  <2>3. Right(a, 0) = a
    BY SizeDoubles, LengthType DEF Right, Elements
  <2>4. a \in Int /\ l <= a /\ Right(a, 0) <= r
    BY <1>3, <2>3, LengthType DEF Elements
  <2> QED BY <1>3, <2>1, <2>2, <2>4, AsksWhole
<1>6. ASSUME NEW k \in Nat, k \in P PROVE k + 1 \in P
  <2> SUFFICES ASSUME k + 1 <= Height PROVE AsksFor(f[k + 1], k + 1, l, r)
    OBVIOUS
  <2> DEFINE h == k + 1
  <2>1. h \in 1..Height /\ h - 1 = k
    BY SegmentTreeAssumption
  <2>2. AsksFor(f[h - 1], h - 1, l, r)
    BY <1>6, <2>1, SegmentTreeAssumption
  <2> HIDE DEF h
  <2>3. AsksFor(f[h], h, l, r)
    BY <1>3, <1>4, <2>1, <2>2, AsksLevel
  <2> QED BY <2>3 DEF h
<1> HIDE DEF P
<1>7. Nat \subseteq P
  BY <1>5, <1>6, Induction
<1>8. AsksFor(f[Height], Height, l, r)
  BY <1>7, SegmentTreeAssumption DEF P
<1>9. /\ Covers(Height, 1, 1) /\ 1 \in Slots /\ 1 \in Elements
      /\ Right(1, Height) = Length
  <2>1. Height \in 0..Height
    BY SegmentTreeAssumption
  <2> QED BY <2>1, RootCovers, CoversType, LengthType DEF Right, Length
<1>10. Answers(f[Height][t][1][1], Height, t, 1, 1, A, l, r)
  BY <1>3, <1>8, <1>9 DEF AsksFor
<1> QED BY <1>2, <1>3, <1>9, <1>10 DEF Answers

-----------------------------------------------------------------------------
\* No node above the leaf of element e has a mark.
Unmarked(t, e) == \A x \in Above(e) : t.lazy[x] = 0

\* Tree u is t with inc added to element e below node n.
Pointed(u, h, t, n, a, A, e, inc) ==
  /\ u \in Trees /\ u.lazy = t.lazy
  /\ StandsFor(h, u, n, a, Plus(A, e, e, inc))
  /\ Same(t, u, Slots \ Below(h, n))

\* F adds inc to element e below each node of height h that covers it, if no
\* node above the element has a mark.
AddsAt(F, h, e, inc) ==
  \A t \in Trees : \A A \in Arrays : \A n \in Slots, a \in Elements :
    /\ Covers(h, n, a) /\ a <= e /\ e <= Right(a, h) /\ Unmarked(t, e)
    /\ StandsFor(h, t, n, a, A)
    => Pointed(F[t][n][a], h, t, n, a, A, e, inc)

\* The update of a leaf.
AddPointLeaf(inc) == [t \in Trees |-> [n \in Slots |-> [a \in Elements |->
                        [sum |-> [t.sum EXCEPT ![n] = @ + inc], lazy |-> t.lazy]]]]

\* Update of a point at every height.
LEMMA AddsAtLevel ==
  ASSUME NEW h \in 1..Height, NEW F, NEW e \in Elements, NEW inc \in Int,
         AddsAt(F, h - 1, e, inc)
  PROVE  AddsAt(AddPointAt(F, h, e), h, e, inc)
<1> DEFINE G == AddPointAt(F, h, e)
<1> SUFFICES ASSUME NEW t \in Trees, NEW A \in Arrays, NEW n \in Slots, NEW a \in Elements,
                    Covers(h, n, a), a <= e, e <= Right(a, h), Unmarked(t, e),
                    StandsFor(h, t, n, a, A)
             PROVE  Pointed(G[t][n][a], h, t, n, a, A, e, inc)
  BY DEF AddsAt
<1> DEFINE b == Right(a, h)
           m == Middle(a, b)
           t1 == IF e <= m THEN F[t][2 * n][a] ELSE F[t][2 * n + 1][m + 1]
           u == PushUp(t1, n)
           B == Plus(A, e, e, inc)
<1>1. G[t][n][a] = u
  BY DEF AddPointAt
<1>2. /\ Covers(h - 1, 2 * n, a) /\ Covers(h - 1, 2 * n + 1, m + 1)
      /\ Right(a, h - 1) = m /\ Right(m + 1, h - 1) = b
      /\ a <= m /\ m < b /\ m \in Elements /\ m \in Nat /\ h - 1 \in 0..Height
  BY CoversBelow
<1>3. /\ b \in Elements /\ b \in Nat /\ n \in Nat /\ 1 <= n /\ a \in Nat /\ 1 <= a
      /\ h \in 0..Height /\ m = Middle(a, Right(a, h))
  <2>1. h \in 0..Height
    BY SegmentTreeAssumption
  <2> QED BY <2>1, CoversType
<1>4. 2 * n \in Slots /\ 2 * n + 1 \in Slots /\ m + 1 \in Elements
  BY <1>2, CoversType
<1>5. B \in Arrays /\ \A i \in Elements : B[i] = IF i \in e..e THEN A[i] + inc ELSE A[i]
  <2>1. \A l, r : /\ Plus(A, l, r, inc) \in Arrays
                  /\ \A i \in Elements :
                       Plus(A, l, r, inc)[i] = IF i \in l..r THEN A[i] + inc ELSE A[i]
    BY PlusType
  <2> QED BY <2>1
<1>6. e \in Nat /\ \A i \in a..b : i \in Elements
  BY <1>3, LengthType DEF Elements
<1>7. t.lazy[n] = 0
  <2> DEFINE s == Size[h]
             x == n * s
  <2>1. s \in Nat /\ Length \in Nat
    BY <1>3, SizeType, LengthType
  <2>2. x = Length - 1 + a /\ e <= a + s - 1
    BY DEF Covers, Right
  <2>3. (n + 1) * s = x + s
    BY <1>3, <2>1
  <2> HIDE DEF x, s
  <2>4. x <= Length - 1 + e /\ Length - 1 + e < x + s
    BY <1>3, <1>6, <2>1, <2>2
  <2>5. n \in Above(e)
    BY <2>3, <2>4 DEF Above, x, s
  <2> QED BY <2>5 DEF Unmarked
<1>8. StandsFor(h - 1, t, 2 * n, a, A) /\ StandsFor(h - 1, t, 2 * n + 1, m + 1, A)
  <2>1. Less(A, 0) = A
    <3>1. \A i \in Elements : A[i] - 0 = A[i]
      BY DEF Arrays
    <3> QED BY <3>1 DEF Less, Arrays
  <2> QED BY <1>7, <2>1, StandsDef
<1>9. e <= b
  OBVIOUS
<1> HIDE DEF B, b, m
<1>10. /\ t1 \in Trees /\ t1.lazy = t.lazy
       /\ StandsFor(h - 1, t1, 2 * n, a, B) /\ StandsFor(h - 1, t1, 2 * n + 1, m + 1, B)
       /\ Same(t, t1, Slots \ Below(h, n))
  <2>1. CASE e <= m
    <3>1. t1 = F[t][2 * n][a]
      BY <2>1
    <3> HIDE DEF t1
    <3>2. e <= Right(a, h - 1)
      BY <1>2, <2>1
    <3>3. /\ t1 \in Trees /\ t1.lazy = t.lazy /\ StandsFor(h - 1, t1, 2 * n, a, B)
          /\ Same(t, t1, Slots \ Below(h - 1, 2 * n))
      <4>1. Pointed(t1, h - 1, t, 2 * n, a, A, e, inc)
        BY <1>2, <1>4, <1>8, <3>1, <3>2 DEF AddsAt
      <4> QED BY <4>1 DEF Pointed, B
    <3>4. Beside(t, t1, h, n) /\ StandsFor(h - 1, t1, 2 * n + 1, m + 1, A)
      BY <1>3, <1>8, <3>3, LeftStep
    <3>5. \A i \in (m + 1)..Right(m + 1, h - 1) : A[i] = B[i]
      <4>1. \A i \in (m + 1)..b : i \in a..b /\ i \notin e..e
        BY <1>2, <1>3, <1>6, <2>1
      <4> QED BY <1>2, <1>5, <1>6, <4>1
    <3>6. StandsFor(h - 1, t1, 2 * n + 1, m + 1, B)
      BY <1>2, <1>4, <1>5, <3>3, <3>4, <3>5, StandsArray
    <3> QED BY <3>3, <3>4, <3>6 DEF Beside
  <2>2. CASE ~(e <= m)
    <3>1. t1 = F[t][2 * n + 1][m + 1]
      BY <2>2
    <3> HIDE DEF t1
    <3>2. m + 1 <= e /\ e <= Right(m + 1, h - 1)
      BY <1>2, <1>6, <1>9, <2>2
    <3>3. /\ t1 \in Trees /\ t1.lazy = t.lazy /\ StandsFor(h - 1, t1, 2 * n + 1, m + 1, B)
          /\ Same(t, t1, Slots \ Below(h - 1, 2 * n + 1))
      <4>1. Pointed(t1, h - 1, t, 2 * n + 1, m + 1, A, e, inc)
        BY <1>2, <1>4, <1>8, <3>1, <3>2 DEF AddsAt
      <4> QED BY <4>1 DEF Pointed, B
    <3>4. Beside(t, t1, h, n) /\ StandsFor(h - 1, t1, 2 * n, a, A)
      BY <1>8, <3>3, RightStep
    <3>5. \A i \in a..Right(a, h - 1) : A[i] = B[i]
      <4>1. \A i \in a..m : i \in a..b /\ i \notin e..e
        BY <1>2, <1>3, <1>6, <2>2
      <4> QED BY <1>2, <1>5, <1>6, <4>1
    <3>6. StandsFor(h - 1, t1, 2 * n, a, B)
      BY <1>2, <1>4, <1>5, <3>3, <3>4, <3>5, StandsArray
    <3> QED BY <3>3, <3>4, <3>6 DEF Beside
  <2> QED BY <2>1, <2>2
<1> HIDE DEF t1
<1>11. /\ u \in Trees /\ StandsFor(h, u, n, a, B) /\ u.lazy = t1.lazy
       /\ Same(t1, u, Slots \ {n})
  <2>1. t1.lazy[n] = 0
    BY <1>7, <1>10
  <2> QED BY <1>5, <1>10, <2>1, PushUpStands DEF m, b
<1>12. Same(t, u, Slots \ Below(h, n))
  <2>1. n \in Below(h, n)
    BY <1>3, BelowSelf
  <2> HIDE DEF u
  <2> QED BY <1>10, <1>11, <2>1 DEF Same
<1> HIDE DEF u, G
<1> QED BY <1>1, <1>10, <1>11, <1>12 DEF Pointed, B

\* The recursion of AddToPoint, up to m.
AddsPoint(f, e, inc, m) ==
  f = [h \in 0..m |-> IF h = 0 THEN AddPointLeaf(inc) ELSE AddPointAt(f[h - 1], h, e)]

\* It has a solution.
LEMMA AddsPointExist == \A e, inc : \A m \in Nat : \E f : AddsPoint(f, e, inc, m)
<1> SUFFICES ASSUME NEW e, NEW inc
             PROVE  \A m \in Nat : \E f : AddsPoint(f, e, inc, m)
  OBVIOUS
<1> DEFINE P == {m \in Nat : \E f : AddsPoint(f, e, inc, m)}
<1>1. 0 \in P
  <2> DEFINE f == [h \in 0..0 |-> AddPointLeaf(inc)]
  <2>1. \A h \in 0..0 : h = 0
    OBVIOUS
  <2>2. AddsPoint(f, e, inc, 0)
    BY <2>1 DEF AddsPoint
  <2> QED BY <2>2
<1>2. ASSUME NEW k \in Nat, k \in P PROVE k + 1 \in P
  <2>1. PICK f : AddsPoint(f, e, inc, k)
    BY <1>2
  <2> DEFINE top == AddPointAt(f[k], k + 1, e)
             g == [h \in 0..(k + 1) |-> IF h = k + 1 THEN top ELSE f[h]]
  <2> HIDE DEF top
  <2>2. \A h \in 0..k : g[h] = f[h]
    BY <1>2
  <2>3. ASSUME NEW h \in 0..(k + 1)
        PROVE  g[h] = IF h = 0 THEN AddPointLeaf(inc) ELSE AddPointAt(g[h - 1], h, e)
    <3>1. CASE h = k + 1
      <4>1. g[h] = top /\ h # 0 /\ h - 1 = k /\ g[k] = f[k]
        BY <1>2, <2>2, <3>1
      <4> QED BY <3>1, <4>1 DEF top
    <3>2. CASE h \in 0..k
      <4>1. g[h] = f[h] /\ (h # 0 => h - 1 \in 0..k)
        BY <1>2, <2>2, <3>2
      <4>2. h # 0 => g[h - 1] = f[h - 1]
        BY <2>2, <4>1
      <4>3. f[h] = IF h = 0 THEN AddPointLeaf(inc) ELSE AddPointAt(f[h - 1], h, e)
        BY <2>1, <3>2 DEF AddsPoint
      <4> QED BY <4>1, <4>2, <4>3
    <3> QED BY <1>2, <3>1, <3>2
  <2>4. AddsPoint(g, e, inc, k + 1)
    BY <2>3 DEF AddsPoint
  <2> QED BY <2>4, <1>2
<1> HIDE DEF P
<1>3. Nat \subseteq P
  BY <1>1, <1>2, Induction
<1> QED BY <1>3 DEF P

\* Update of a point that has no marks above it: the root stands for the array
\* with the increment.
LEMMA PointAdded ==
  ASSUME NEW e \in Elements, NEW inc \in Int, NEW t \in Trees, NEW A \in Arrays,
         StandsFor(Height, t, 1, 1, A), Unmarked(t, e)
  PROVE  LET u == AddToPoint(e, inc)[t][1][1]
         IN u \in Trees /\ StandsFor(Height, u, 1, 1, Plus(A, e, e, inc))
<1> DEFINE f == CHOOSE f : AddsPoint(f, e, inc, Height)
<1>1. AddsPoint(f, e, inc, Height)
  <2>1. \E g : AddsPoint(g, e, inc, Height)
    BY AddsPointExist, SegmentTreeAssumption
  <2> QED BY <2>1
<1>2. AddToPoint(e, inc) = f[Height]
  BY DEF AddToPoint, AddsPoint, AddPointLeaf
<1> HIDE DEF f
<1>3. e \in Nat /\ 1 <= e /\ e <= Length
  BY LengthType DEF Elements
<1>4. f[0] = AddPointLeaf(inc) /\ \A h \in 1..Height : f[h] = AddPointAt(f[h - 1], h, e)
  <2>1. 0 \in 0..Height /\ \A h \in 1..Height : h \in 0..Height /\ h # 0
    BY SegmentTreeAssumption
  <2> QED BY <1>1, <2>1 DEF AddsPoint
<1> DEFINE P == {h \in Nat : h <= Height => AddsAt(f[h], h, e, inc)}
<1>5. 0 \in P
  <2> SUFFICES ASSUME NEW v \in Trees, NEW B \in Arrays, NEW n \in Slots, NEW a \in Elements,
                      Covers(0, n, a), a <= e, e <= Right(a, 0), StandsFor(0, v, n, a, B)
               PROVE  Pointed(AddPointLeaf(inc)[v][n][a], 0, v, n, a, B, e, inc)
    BY <1>4 DEF AddsAt
  <2> DEFINE u == AddPointLeaf(inc)[v][n][a]
             C == Plus(B, e, e, inc)
  <2>1. u = [sum |-> [v.sum EXCEPT ![n] = @ + inc], lazy |-> v.lazy]
    BY DEF AddPointLeaf
  <2>2. 0 \in 0..Height
    BY SegmentTreeAssumption
  <2>3. a = e
    <3>1. Right(a, 0) = a /\ a \in Nat
      BY SizeDoubles, LengthType DEF Right, Elements
    <3> QED BY <1>3, <3>1
  <2>4. C \in Arrays /\ C[a] = B[a] + inc
    <3>1. a \in e..e
      BY <1>3, <2>3
    <3> QED BY <3>1, PlusType
  <2> HIDE DEF u, C
  <2>5. v.sum[n] = B[a] /\ v.sum[n] \in Int
    BY StandsDef DEF Trees
  <2>6. /\ u \in Trees /\ u.lazy = v.lazy /\ u.sum[n] = v.sum[n] + inc
        /\ Same(v, u, Slots \ {n})
    BY <2>1, <2>5 DEF Trees, Same
  <2>7. StandsFor(0, u, n, a, C)
    <3>1. u.sum[n] = C[a]
      BY <2>4, <2>5, <2>6
    <3> QED BY <2>4, <2>6, <3>1, StandsDef
  <2>8. Same(v, u, Slots \ Below(0, n))
    <3>1. n \in Nat /\ 1 <= n
      BY DEF Covers
    <3>2. n \in Below(0, n)
      BY <2>2, <3>1, BelowSelf
    <3> QED BY <2>6, <3>2 DEF Same
  <2> QED BY <2>6, <2>7, <2>8 DEF Pointed, u, C
<1>6. ASSUME NEW k \in Nat, k \in P PROVE k + 1 \in P
  <2> SUFFICES ASSUME k + 1 <= Height PROVE AddsAt(f[k + 1], k + 1, e, inc)
    OBVIOUS
  <2> DEFINE h == k + 1
  <2>1. h \in 1..Height /\ h - 1 = k
    BY SegmentTreeAssumption
  <2>2. AddsAt(f[h - 1], h - 1, e, inc)
    BY <1>6, <2>1, SegmentTreeAssumption
  <2> HIDE DEF h
  <2>3. AddsAt(f[h], h, e, inc)
    BY <1>4, <2>1, <2>2, AddsAtLevel
  <2> QED BY <2>3 DEF h
<1> HIDE DEF P
<1>7. Nat \subseteq P
  BY <1>5, <1>6, Induction
<1>8. AddsAt(f[Height], Height, e, inc)
  BY <1>7, SegmentTreeAssumption DEF P
<1>9. /\ Covers(Height, 1, 1) /\ 1 \in Slots /\ 1 \in Elements
      /\ Right(1, Height) = Length
  <2>1. Height \in 0..Height
    BY SegmentTreeAssumption
  <2> QED BY <2>1, RootCovers, CoversType, LengthType DEF Right, Length
<1>10. Pointed(f[Height][t][1][1], Height, t, 1, 1, A, e, inc)
  BY <1>3, <1>8, <1>9 DEF AddsAt
<1> QED BY <1>2, <1>10 DEF Pointed

-----------------------------------------------------------------------------
(***************************************************************************)
(* The invariant: until a point update has gone below a mark, the root     *)
(* stands for the array.                                                   *)
(***************************************************************************)
TreeInv ==
  /\ arr \in Arrays
  /\ damaged \/ (tree \in Trees /\ StandsFor(Height, tree, 1, 1, arr))

\* A tree of zeros stands for an array of zeros.
LEMMA ZerosStand ==
  LET t == [sum |-> [n \in Slots |-> 0], lazy |-> [n \in Slots |-> 0]]
      A == [i \in Elements |-> 0]
  IN t \in Trees /\ A \in Arrays /\ StandsFor(Height, t, 1, 1, A)
<1> DEFINE t == [sum |-> [n \in Slots |-> 0], lazy |-> [n \in Slots |-> 0]]
           A == [i \in Elements |-> 0]
<1>1. /\ t \in Trees /\ A \in Arrays /\ \A i \in Elements : A[i] = 0
      /\ \A n \in Slots : t.sum[n] = 0 /\ t.lazy[n] = 0
  BY DEF Trees, Arrays
<1> HIDE DEF t, A
<1> DEFINE P == {h \in Nat : h <= Height =>
                   \A n \in Slots, a \in Elements : Covers(h, n, a) => StandsFor(h, t, n, a, A)}
<1>2. 0 \in P
  BY <1>1, StandsDef
<1>3. ASSUME NEW k \in Nat, k \in P PROVE k + 1 \in P
  <2> DEFINE h == k + 1
  <2> SUFFICES ASSUME h <= Height, NEW n \in Slots, NEW a \in Elements, Covers(h, n, a)
               PROVE  StandsFor(h, t, n, a, A)
    OBVIOUS
  <2>1. h \in 1..Height /\ h - 1 = k
    BY SegmentTreeAssumption
  <2>2. \A j \in Slots, c \in Elements : Covers(h - 1, j, c) => StandsFor(h - 1, t, j, c, A)
    BY <1>3, <2>1, SegmentTreeAssumption
  <2> HIDE DEF h, P
  <2> DEFINE b == Right(a, h)
             m == Middle(a, b)
  <2>3. /\ Covers(h - 1, 2 * n, a) /\ Covers(h - 1, 2 * n + 1, m + 1)
        /\ h - 1 \in 0..Height /\ h \in 0..Height /\ a \in Nat /\ b \in Elements
        /\ a <= b /\ 1 <= a /\ b \in Nat
    <3>1. h \in 0..Height
      BY <2>1, SegmentTreeAssumption
    <3> QED BY <2>1, <3>1, CoversBelow, CoversType
  <2>4. 2 * n \in Slots /\ 2 * n + 1 \in Slots /\ m + 1 \in Elements
    BY <2>3, CoversType
  <2>5. StandsFor(h - 1, t, 2 * n, a, A) /\ StandsFor(h - 1, t, 2 * n + 1, m + 1, A)
    BY <2>2, <2>3, <2>4
  <2> HIDE DEF b, m
  <2>6. RangeSum(A, a, b) = 0
    <3> DEFINE p == Prefix(A)
    <3>1. /\ RangeSum(A, a, b) = p[b] - p[a - 1]
          /\ p[0] = 0
          /\ \A i \in 1..Length : p[i] = p[i - 1] + A[i]
      BY <1>1, PrefixFacts
    <3> HIDE DEF p
    <3> DEFINE Q == {i \in Nat : i <= Length => p[i] = 0}
    <3>2. 0 \in Q
      BY <3>1
    <3>3. ASSUME NEW i \in Nat, i \in Q PROVE i + 1 \in Q
      <4> SUFFICES ASSUME i + 1 <= Length PROVE p[i + 1] = 0
        OBVIOUS
      <4>1. i + 1 \in 1..Length /\ (i + 1) - 1 = i /\ i <= Length /\ i + 1 \in Elements
        BY LengthType DEF Elements
      <4>2. p[i + 1] = p[i] + A[i + 1] /\ p[i] = 0 /\ A[i + 1] = 0
        BY <1>1, <3>1, <3>3, <4>1
      <4> QED BY <4>2
    <3> HIDE DEF Q
    <3>4. Nat \subseteq Q
      BY <3>2, <3>3, Induction
    <3>5. b \in Nat /\ b <= Length /\ a - 1 \in Nat /\ a - 1 <= Length
      BY <2>3, LengthType DEF Elements
    <3>6. p[b] = 0 /\ p[a - 1] = 0
      BY <3>4, <3>5 DEF Q
    <3> QED BY <3>1, <3>6
  <2>7. t.lazy[n] = 0 /\ t.sum[n] = RangeSum(A, a, b)
    BY <1>1, <2>6
  <2> QED BY <1>1, <2>1, <2>5, <2>7, StandsJoin DEF b, m
<1> HIDE DEF P
<1>4. Nat \subseteq P
  BY <1>2, <1>3, Induction
<1>5. Covers(Height, 1, 1) /\ 1 \in Slots /\ 1 \in Elements
  <2>1. Height \in 0..Height
    BY SegmentTreeAssumption
  <2> QED BY <2>1, RootCovers, CoversType
<1>6. StandsFor(Height, t, 1, 1, A)
  BY <1>4, <1>5, SegmentTreeAssumption DEF P
<1> QED BY <1>1, <1>6 DEF t, A

\* The initial state satisfies the invariant.
LEMMA TreeInvInit == TreeInit => TreeInv
  BY ZerosStand DEF TreeInit, TreeInv

\* Each step keeps the invariant.
LEMMA TreeInvNext == TreeInv /\ [TreeNext]_treeVars => TreeInv'
<1> SUFFICES ASSUME TreeInv, [TreeNext]_treeVars PROVE TreeInv'
  OBVIOUS
<1>1. arr \in Arrays
  BY DEF TreeInv
<1>2. \A inc \in Increments : inc \in Int
  BY SegmentTreeAssumption
<1>3. ASSUME NEW l \in Elements, NEW r \in l..Length, Query(l, r) PROVE TreeInv'
  <2>1. tree \in Trees /\ StandsFor(Height, tree, 1, 1, arr) /\ arr' = arr
    BY <1>3 DEF TreeInv, Query, Bound
  <2>2. tree' \in Trees /\ StandsFor(Height, tree', 1, 1, arr)
    BY <1>1, <1>3, <2>1, RangeAsked DEF Query
  <2> QED BY <1>1, <2>1, <2>2 DEF TreeInv
<1>4. ASSUME NEW l \in Elements, NEW r \in l..Length, NEW inc \in Increments,
             UpdateRange(l, r, inc)
      PROVE  TreeInv'
  <2>1. /\ tree \in Trees /\ StandsFor(Height, tree, 1, 1, arr)
        /\ arr' = Plus(arr, l, r, inc)
    BY <1>4 DEF TreeInv, UpdateRange, Bound, Plus
  <2>2. tree' \in Trees /\ StandsFor(Height, tree', 1, 1, Plus(arr, l, r, inc))
    BY <1>1, <1>2, <1>4, <2>1, RangeAdded DEF UpdateRange
  <2>3. Plus(arr, l, r, inc) \in Arrays
    BY <1>1, <1>2, PlusType
  <2> QED BY <2>1, <2>2, <2>3 DEF TreeInv
<1>5. ASSUME NEW k \in Elements, NEW inc \in Increments, UpdatePoint(k, inc)
      PROVE  TreeInv'
  <2>1. /\ tree \in Trees /\ StandsFor(Height, tree, 1, 1, arr)
        /\ arr' = [arr EXCEPT ![k] = @ + inc]
    BY <1>5 DEF TreeInv, UpdatePoint, Bound
  <2>2. arr' = Plus(arr, k, k, inc)
    <3>1. k \in Nat /\ \A i \in Elements : i \in k..k <=> i = k
      BY LengthType DEF Elements
    <3> QED BY <1>1, <2>1, <3>1 DEF Plus, Arrays
  <2>3. arr' \in Arrays
    BY <1>1, <1>2, <2>2, PlusType
  <2>4. CASE damaged'
    BY <2>3, <2>4 DEF TreeInv
  <2>5. CASE ~damaged'
    <3>1. Unmarked(tree, k)
      BY <1>5, <2>5 DEF UpdatePoint, Unmarked
    <3>2. tree' \in Trees /\ StandsFor(Height, tree', 1, 1, Plus(arr, k, k, inc))
      BY <1>1, <1>2, <1>5, <2>1, <3>1, PointAdded DEF UpdatePoint
    <3> QED BY <2>2, <2>3, <3>2 DEF TreeInv
  <2> QED BY <2>4, <2>5
<1>6. CASE UNCHANGED treeVars
  <2>1. tree' = tree /\ arr' = arr /\ damaged' = damaged
    BY <1>6 DEF treeVars
  <2> QED BY <2>1 DEF TreeInv
<1> QED BY <1>3, <1>4, <1>5, <1>6 DEF TreeNext

\* SegmentTree::Query: after any updates and queries, for every height of the
\* tree and all increments, the result for each range is the sum of the
\* array's elements, unless a point update has gone below a lazy mark.
THEOREM QueriesCorrect == TreeSpec => []QueriesAgree
<1>1. TreeInv => QueriesAgree
  <2> SUFFICES ASSUME TreeInv, ~damaged, NEW l \in Elements, NEW r \in l..Length
               PROVE  Ask(l, r)[tree][1][1].res = RangeSum(arr, l, r)
    BY DEF QueriesAgree
  <2>1. arr \in Arrays /\ tree \in Trees /\ StandsFor(Height, tree, 1, 1, arr)
    BY DEF TreeInv
  <2> QED BY <2>1, RangeAsked
<1> QED BY <1>1, TreeInvInit, TreeInvNext, PTL DEF TreeSpec
=============================================================================
