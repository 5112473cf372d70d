---------------------------- MODULE RcuPtrProofs ----------------------------
(***************************************************************************)
(* Proofs about RcuPtr, for any number of threads and of addresses.        *)
(***************************************************************************)
EXTENDS RcuPtr, TLAPS

\* The deep copy an updater works on is reachable from nobody else.
DeepIsPrivate ==
  \A u \in Updaters : deep[u] # Null =>
     /\ deep[u] # sp
     /\ \A v \in Updaters : copy[v] # deep[u] /\ (v # u => deep[v] # deep[u])
     /\ \A s \in Users : held[s] # deep[u]

\* What the deep copy holds, by the point the updater has reached.
DeepFollowsCopy ==
  \A u \in Updaters :
     /\ pc[u] \in {"load", "copy", "done"} => deep[u] = Null
     /\ pc[u] \in {"func", "cas"} => (copy[u] = Null <=> deep[u] = Null)
     /\ pc[u] = "func" /\ copy[u] # Null => heap[deep[u]] = heap[copy[u]]
     /\ pc[u] = "cas" /\ copy[u] # Null =>
           heap[deep[u]] = Append(heap[copy[u]], u)

Inv == TypeOK /\ DeepIsPrivate /\ DeepFollowsCopy
-----------------------------------------------------------------------------
\* The invariant holds initially.
LEMMA InitInv == Init => Inv
<1> SUFFICES ASSUME Init PROVE Inv
  OBVIOUS
<1>1. <<>> \in Value
  BY DEF Value
<1>2. TypeOK
  BY <1>1 DEF Init, TypeOK, Ptr
<1> QED BY <1>2 DEF Inv, Init, DeepIsPrivate, DeepFollowsCopy

\* Every step of an updater or a user preserves the invariant.
LEMMA NextInv == Inv /\ [Next]_vars => Inv'
<1> SUFFICES ASSUME Inv, [Next]_vars PROVE Inv'
  OBVIOUS
<1> USE RcuAssumption DEF Inv, TypeOK, DeepIsPrivate, DeepFollowsCopy, Ptr
<1>1. ASSUME NEW u \in Updaters, UpdateLoad(u) PROVE Inv'
  BY <1>1 DEF UpdateLoad
<1>2. ASSUME NEW u \in Updaters, UpdateCopy(u) PROVE Inv'
  <2>1. CASE copy[u] = Null
    BY <1>2, <2>1 DEF UpdateCopy
  <2>2. CASE copy[u] # Null
    <3>1. PICK a \in Free : /\ heap' = [heap EXCEPT ![a] = heap[copy[u]]]
                            /\ deep' = [deep EXCEPT ![u] = a]
      BY <1>2, <2>2 DEF UpdateCopy
    <3>2. /\ a \in Addr /\ a # sp
          /\ \A v \in Updaters : copy[v] # a /\ deep[v] # a
          /\ \A s \in Users : held[s] # a
      BY DEF Free
    <3>3. pc' = [pc EXCEPT ![u] = "func"] /\ UNCHANGED <<sp, copy, held, stored>>
      BY <1>2 DEF UpdateCopy
    <3>4. TypeOK'
      BY <3>1, <3>2, <3>3, <2>2
    <3>5. DeepIsPrivate'
      BY <3>1, <3>2, <3>3
    <3>6. DeepFollowsCopy'
      BY <1>2, <2>2, <3>1, <3>2, <3>3 DEF UpdateCopy
    <3> QED BY <3>4, <3>5, <3>6
  <2> QED BY <2>1, <2>2
<1>3. ASSUME NEW u \in Updaters, UpdateFunc(u) PROVE Inv'
  <2>1. CASE deep[u] = Null
    BY <1>3, <2>1 DEF UpdateFunc
  <2>2. CASE deep[u] # Null
    <3>1. heap' = [heap EXCEPT ![deep[u]] = Append(heap[deep[u]], u)]
      BY <1>3, <2>2 DEF UpdateFunc
    <3>2. Append(heap[deep[u]], u) \in Value
      BY <2>2 DEF Value, Threads
    <3>3. TypeOK'
      BY <1>3, <3>1, <3>2 DEF UpdateFunc
    <3>4. DeepIsPrivate'
      BY <1>3 DEF UpdateFunc
    <3>5. DeepFollowsCopy'
      BY <1>3, <2>2, <3>1 DEF UpdateFunc
    <3> QED BY <3>3, <3>4, <3>5
  <2> QED BY <2>1, <2>2
<1>4. ASSUME NEW u \in Updaters, UpdateCas(u) PROVE Inv'
  BY <1>4 DEF UpdateCas
<1>5. ASSUME NEW u \in Updaters, UpdateRetry(u) PROVE Inv'
  BY <1>5 DEF UpdateRetry
<1>6. ASSUME NEW s \in Users, Load(s) PROVE Inv'
  BY <1>6 DEF Load
<1>7. ASSUME NEW s \in Users, Store(s) PROVE Inv'
  <2>1. ASSUME NEW a \in Free, heap' = [heap EXCEPT ![a] = <<s>>], sp' = a
        PROVE Inv'
    <3>1. <<s>> \in Value
      BY DEF Value, Threads
    <3> QED BY <1>7, <2>1, <3>1 DEF Store, Free
  <2>2. CASE sp' \in {Null, held[s]} /\ UNCHANGED heap
    BY <1>7, <2>2 DEF Store
  <2> QED BY <1>7, <2>1, <2>2 DEF Store
<1>8. CASE UNCHANGED vars
  BY <1>8 DEF vars
<1> QED
  BY <1>1, <1>2, <1>3, <1>4, <1>5, <1>6, <1>7, <1>8 DEF Next, UpdateStep

\* The invariant holds in every reachable state.
THEOREM Invariance == Spec => []Inv
  BY InitInv, NextInv, PTL DEF Spec

\* Pointers point to objects or to nothing, and objects hold values.
THEOREM TypeCorrect == Spec => []TypeOK
<1>1. Inv => TypeOK
  BY DEF Inv
<1> QED BY <1>1, Invariance, PTL

\* A swap that succeeds installs the current object plus its own change: the
\* shared_ptr kept in sp_copy rules the ABA problem out.
THEOREM NoAba == Spec => []SwapIsCurrent
<1>1. Inv => SwapIsCurrent
  BY RcuAssumption DEF Inv, TypeOK, DeepFollowsCopy, SwapIsCurrent
<1> QED BY <1>1, Invariance, PTL
-----------------------------------------------------------------------------
\* An object somebody else can see is never written.
LEMMA VisibleUnwritten ==
  ASSUME Inv, [Next]_vars, NEW a \in Addr,
         a = sp \/ a \in {held[s] : s \in Users}
  PROVE  heap'[a] = heap[a]
<1> USE DEF Inv, TypeOK
<1>1. ASSUME NEW u \in Updaters, UpdateCopy(u) PROVE heap'[a] = heap[a]
  BY <1>1 DEF UpdateCopy, Free
<1>2. ASSUME NEW u \in Updaters, UpdateFunc(u) PROVE heap'[a] = heap[a]
  BY <1>2 DEF UpdateFunc, DeepIsPrivate
<1>3. ASSUME NEW s \in Users, Store(s) PROVE heap'[a] = heap[a]
  BY <1>3 DEF Store, Free
<1> QED
  BY <1>1, <1>2, <1>3
     DEF Next, UpdateStep, UpdateLoad, UpdateCas, UpdateRetry, Load, vars

\* Snapshots handed out by Load never change.
THEOREM Immutable == Spec => SnapshotsAreImmutable
<1>1. Inv /\ [Next]_vars =>
        [\A a \in Addr : a = sp \/ a \in {held[s] : s \in Users}
            => heap'[a] = heap[a]]_vars
  BY VisibleUnwritten
<1> QED BY <1>1, Invariance, PTL DEF Spec, SnapshotsAreImmutable
-----------------------------------------------------------------------------
\* Every step of rcu_ptr is a step of the atomic cell or leaves it unchanged.
LEMMA NextRefines == Inv /\ [Next]_vars => [Cell!Next]_(Cell!vars)
<1> SUFFICES ASSUME Inv, [Next]_vars PROVE Cell!Next \/ UNCHANGED Cell!vars
  OBVIOUS
<1> USE RcuAssumption DEF Inv, TypeOK, Ptr
<1>v. ASSUME NEW p \in Ptr, p = sp \/ p \in {held[s] : s \in Users}
      PROVE  IF p = Null THEN TRUE ELSE heap'[p] = heap[p]
  BY <1>v, VisibleUnwritten
<1>1. ASSUME NEW u \in Updaters, sp' = sp, held' = held, stored' = stored,
             pc[u] # "done", \E q \in {"copy", "func", "cas"} :
                                pc' = [pc EXCEPT ![u] = q]
      PROVE  UNCHANGED Cell!vars
  <2>1. {v \in Updaters : pc'[v] = "done"} = {v \in Updaters : pc[v] = "done"}
    BY <1>1
  <2> QED BY <1>1, <1>v, <2>1 DEF Cell!vars, Read
<1>2. ASSUME NEW u \in Updaters, UpdateCas(u) PROVE Cell!Apply(u)
  <2>1. {v \in Updaters : pc'[v] = "done"}
          = {v \in Updaters : pc[v] = "done"} \cup {u}
    BY <1>2 DEF UpdateCas
  <2>2. u \notin {v \in Updaters : pc[v] = "done"} \cup stored
    BY <1>2 DEF UpdateCas
  <2>3. Read(sp)' = IF Read(sp) = Null THEN Null ELSE Append(Read(sp), u)
    <3>1. CASE sp = Null
      BY <1>2, <3>1 DEF UpdateCas, DeepFollowsCopy, Read
    <3>2. CASE sp # Null
      <4>1. heap[sp] \in Value /\ heap[sp] # Null
        BY <3>2 DEF Value, Threads
      <4>2. deep[u] # Null /\ heap[deep[u]] = Append(heap[sp], u)
        BY <1>2, <3>2 DEF UpdateCas, DeepFollowsCopy
      <4> QED BY <1>2, <3>2, <4>1, <4>2 DEF UpdateCas, Read
    <3> QED BY <3>1, <3>2
  <2> QED BY <1>2, <2>1, <2>2, <2>3 DEF UpdateCas, Cell!Apply, Read
<1>3. ASSUME NEW s \in Users, Load(s) PROVE Cell!Get(s)
  BY <1>3 DEF Load, Cell!Get, Read
<1>4. ASSUME NEW s \in Users, Store(s) PROVE Cell!Put(s)
  <2>1. \A r \in Users : Read(held[r])' = Read(held[r])
    BY <1>4, <1>v DEF Store, Read
  <2>2. Read(sp)' \in {Null, <<s>>, Read(held[s])}
    BY <1>4, <1>v DEF Store, Read, Free
  <2>3. s \notin {v \in Updaters : pc[v] = "done"} \cup stored
    BY <1>4 DEF Store
  <2> QED BY <1>4, <2>1, <2>2, <2>3 DEF Store, Cell!Put
<1>5. CASE UNCHANGED vars
  BY <1>5 DEF vars, Cell!vars, Read
<1>6. ASSUME NEW u \in Updaters,
             UpdateLoad(u) \/ UpdateCopy(u) \/ UpdateFunc(u) \/ UpdateRetry(u)
      PROVE  UNCHANGED Cell!vars
  BY <1>1, <1>6 DEF UpdateLoad, UpdateCopy, UpdateFunc, UpdateRetry
<1> QED
  BY <1>2, <1>3, <1>4, <1>5, <1>6 DEF Next, UpdateStep, Cell!Next

\* rcu_ptr implements the atomic cell: no update is lost, none is applied
\* twice or to a stale value, and loaded snapshots keep their value.
THEOREM Refinement == Spec => ImplementsAtomicCell
<1>1. Init => Cell!Init
  BY DEF Init, Cell!Init, Read, Ptr
<1> QED
  BY <1>1, NextRefines, Invariance, PTL
     DEF Spec, ImplementsAtomicCell, Cell!Spec
=============================================================================
