------------------------------- MODULE RcuPtr -------------------------------
(***************************************************************************)
(* util::rcu_ptr<T> (src/rcu_ptr/rcu_ptr.h): a shared_ptr<const T> that    *)
(* readers load atomically, storers replace atomically, and updaters       *)
(* replace by a modified deep copy with compare-and-swap.                  *)
(*                                                                         *)
(* Objects live at addresses.  An address is free again as soon as no      *)
(* shared_ptr holds it, so an address may come back with another object:   *)
(* whether the compare-and-swap is safe against that is part of what is    *)
(* checked.  A value of T is the sequence of the operations that made it.  *)
(***************************************************************************)
EXTENDS Naturals, Sequences

CONSTANTS Updaters,  \* threads that call Update once, with their own func
          Users,     \* threads that Load, hold the result, and Store once
          Addr,      \* addresses of heap objects
          Null       \* the empty shared_ptr

ASSUME RcuAssumption == /\ Updaters \cap Users = {}
                        /\ Null \notin Addr \cup Seq(Updaters \cup Users)

VARIABLES sp,      \* sp_
          heap,    \* heap[a]: the object at address a
          pc,      \* updater: "load", "copy", "func", "cas", "done"
          copy,    \* sp_copy of an updater
          deep,    \* sp_deep_copy of an updater
          held,    \* the shared_ptr a user got from its last Load
          stored   \* users that have called Store

vars == <<sp, heap, pc, copy, deep, held, stored>>

Threads == Updaters \cup Users
Ptr == Addr \cup {Null}
Value == Seq(Threads)

\* MUTANT: sp_copy does not keep its object alive (a raw pointer).
Free_RawCopy == Addr \ ({sp} \cup {deep[u] : u \in Updaters}
                             \cup {held[s] : s \in Users})

\* Addresses that no shared_ptr holds.
Free == Addr \ ({sp} \cup {copy[u] : u \in Updaters}
                     \cup {deep[u] : u \in Updaters}
                     \cup {held[s] : s \in Users})

\* Either constructor: no object, or an object with its initial value.
Init == /\ sp \in Ptr
        /\ heap = [a \in Addr |-> <<>>]
        /\ pc = [u \in Updaters |-> "load"]
        /\ copy = [u \in Updaters |-> Null]
        /\ deep = [u \in Updaters |-> Null]
        /\ held = [s \in Users |-> Null]
        /\ stored = {}
-----------------------------------------------------------------------------
\* atomic_load of sp_ into sp_copy.
UpdateLoad(u) == /\ pc[u] = "load"
                 /\ copy' = [copy EXCEPT ![u] = sp]
                 /\ pc' = [pc EXCEPT ![u] = "copy"]
                 /\ UNCHANGED <<sp, heap, deep, held, stored>>

\* MUTANT: the object is shared instead of copied.
UpdateCopy_Shared(u) ==
  /\ pc[u] = "copy"
  /\ deep' = [deep EXCEPT ![u] = copy[u]]
  /\ pc' = [pc EXCEPT ![u] = "func"]
  /\ UNCHANGED <<sp, heap, copy, held, stored>>

\* if (sp_copy) sp_deep_copy = make_shared<T>(*sp_copy);
UpdateCopy(u) == /\ pc[u] = "copy"
                 /\ \/ /\ copy[u] = Null
                       /\ UNCHANGED <<heap, deep>>
                    \/ /\ copy[u] # Null
                       /\ \E a \in Free :
                            /\ heap' = [heap EXCEPT ![a] = heap[copy[u]]]
                            /\ deep' = [deep EXCEPT ![u] = a]
                 /\ pc' = [pc EXCEPT ![u] = "func"]
                 /\ UNCHANGED <<sp, copy, held, stored>>

\* func(sp_deep_copy.get()): a func that accepts nullptr and leaves it alone,
\* and otherwise records its own operation in the copy.
UpdateFunc(u) == /\ pc[u] = "func"
                 /\ heap' = IF deep[u] = Null THEN heap
                            ELSE [heap EXCEPT ![deep[u]] = Append(@, u)]
                 /\ pc' = [pc EXCEPT ![u] = "cas"]
                 /\ UNCHANGED <<sp, copy, deep, held, stored>>

\* MUTANT: a plain store instead of the compare-and-swap.
UpdateCas_PlainStore(u) ==
  /\ pc[u] = "cas"
  /\ sp' = deep[u]
  /\ copy' = [copy EXCEPT ![u] = Null]
  /\ deep' = [deep EXCEPT ![u] = Null]
  /\ pc' = [pc EXCEPT ![u] = "done"]
  /\ UNCHANGED <<heap, held, stored>>

\* The compare-and-swap succeeds: sp_deep_copy is moved into sp_ and the
\* locals are released.
UpdateCas(u) == /\ pc[u] = "cas"
                /\ sp = copy[u]
                /\ sp' = deep[u]
                /\ copy' = [copy EXCEPT ![u] = Null]
                /\ deep' = [deep EXCEPT ![u] = Null]
                /\ pc' = [pc EXCEPT ![u] = "done"]
                /\ UNCHANGED <<heap, held, stored>>

\* It fails: the copy that was moved into the call is released, sp_copy is
\* reloaded, and the loop runs again.
UpdateRetry(u) == /\ pc[u] = "cas"
                  /\ sp # copy[u]
                  /\ copy' = [copy EXCEPT ![u] = sp]
                  /\ deep' = [deep EXCEPT ![u] = Null]
                  /\ pc' = [pc EXCEPT ![u] = "copy"]
                  /\ UNCHANGED <<sp, heap, held, stored>>

-----------------------------------------------------------------------------
\* Load: a shared_ptr to the current object; the one held before is released.
Load(s) == /\ held' = [held EXCEPT ![s] = sp]
           /\ UNCHANGED <<sp, heap, pc, copy, deep, stored>>

\* Store of a new object, of an empty pointer, or of a pointer loaded before.
Store(s) == /\ s \notin stored
            /\ \/ \E a \in Free : /\ heap' = [heap EXCEPT ![a] = <<s>>]
                                  /\ sp' = a
               \/ /\ sp' \in {Null, held[s]}
                  /\ UNCHANGED heap
            /\ stored' = stored \cup {s}
            /\ UNCHANGED <<pc, copy, deep, held>>
-----------------------------------------------------------------------------
UpdateStep(u) == \/ UpdateLoad(u) \/ UpdateCopy(u) \/ UpdateFunc(u)
                 \/ UpdateCas(u) \/ UpdateRetry(u)

Next == \/ \E u \in Updaters : UpdateStep(u)
        \/ \E s \in Users : Load(s) \/ Store(s)

Spec == Init /\ [][Next]_vars
-----------------------------------------------------------------------------
\* The type invariant of the pointer, its objects and the threads around it.
TypeOK == /\ sp \in Ptr
          /\ heap \in [Addr -> Value]
          /\ pc \in [Updaters -> {"load", "copy", "func", "cas", "done"}]
          /\ copy \in [Updaters -> Ptr]
          /\ deep \in [Updaters -> Ptr]
          /\ held \in [Users -> Ptr]
          /\ stored \subseteq Users

\* Pointer equality is value equality at the compare-and-swap: when an
\* updater's swap would succeed, what it installs is the current object with
\* exactly its own change, even if the pointer went away and came back.
SwapIsCurrent ==
  \A u \in Updaters :
     pc[u] = "cas" /\ sp = copy[u] =>
       IF sp = Null THEN deep[u] = Null
       ELSE deep[u] # Null /\ heap[deep[u]] = Append(heap[sp], u)

\* Whoever holds a pointer from Load holds a snapshot: the object behind it,
\* and the published object, never change.
SnapshotsAreImmutable ==
  [][\A a \in Addr : a = sp \/ a \in {held[s] : s \in Users}
        => heap'[a] = heap[a]]_vars

\* What is behind a pointer.
Read(p) == IF p = Null THEN Null ELSE heap[p]

\* rcu_ptr implements the atomic cell: an update takes effect at its swap, a
\* store at its store, and what Load returned stays what it was.
Cell == INSTANCE AtomicCell
          WITH val <- Read(sp),
               seen <- [s \in Users |-> Read(held[s])],
               done <- {u \in Updaters : pc[u] = "done"} \cup stored
ImplementsAtomicCell == Cell!Spec
=============================================================================
