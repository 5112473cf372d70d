--------------------------- MODULE LockFreeStack ----------------------------
(***************************************************************************)
(* LockFreeStack<T> (src/lockfree/lockfree_stack.cpp): an intrusive stack  *)
(* of caller-owned nodes.  Push and Pop load head_, prepare, and swap it   *)
(* with compare_exchange_weak until that succeeds.                         *)
(*                                                                         *)
(* The code leaves open when a popped node may be pushed again, so here a  *)
(* caller may do it at once.  A Pop that is still working with that node   *)
(* is then stale: its swap cannot tell the node's two lives apart.  The    *)
(* history variable aba records a stale swap that succeeds; the stack is   *)
(* not followed further.                                                   *)
(***************************************************************************)
EXTENDS Naturals, Sequences, FiniteSets

CONSTANTS Threads, Nodes, Null

ASSUME StackAssumption == Null \notin Nodes

VARIABLES head,    \* head_
          next,    \* next[n]: the link inside node n
          mine,    \* mine[t]: nodes that thread t owns
          pc,      \* "idle", "pushLoad", "pushLink", "pushCas",
                   \* "popLoad", "popNext", "popCas"
          node,    \* new_node of a Push
          old,     \* original_head of a Push, old_head of a Pop
          new,     \* new_head of a Pop
          freed,   \* nodes the destructor has deleted
          alive,   \* FALSE once the destructor runs
          stack,   \* history: the nodes by the swaps that succeeded, top first
          stale,   \* history: threads in a Pop whose old_head was pushed again
          aba      \* history: a stale Pop has swapped

vars == <<head, next, mine, pc, node, old, new, freed, alive, stack, stale, aba>>

Ptr == Nodes \cup {Null}

\* An empty stack; every node belongs to one thread.
Init == /\ head = Null
        /\ next = [n \in Nodes |-> Null]
        /\ \E owner \in [Nodes -> Threads] :
              mine = [t \in Threads |-> {n \in Nodes : owner[n] = t}]
        /\ pc = [t \in Threads |-> "idle"]
        /\ node = [t \in Threads |-> Null]
        /\ old = [t \in Threads |-> Null]
        /\ new = [t \in Threads |-> Null]
        /\ freed = {}
        /\ alive = TRUE
        /\ stack = <<>>
        /\ stale = {} /\ aba = FALSE

Goto(t, where) == pc' = [pc EXCEPT ![t] = where]

ghosts == <<stale, aba>>
-----------------------------------------------------------------------------
PushCall(t, n) == /\ alive /\ pc[t] = "idle"
                  /\ n \in mine[t]
                  /\ Goto(t, "pushLoad")
                  /\ mine' = [mine EXCEPT ![t] = @ \ {n}]
                  /\ node' = [node EXCEPT ![t] = n]
                  /\ UNCHANGED <<head, next, old, new, freed, alive, stack, ghosts>>

PushLoad(t) == /\ pc[t] = "pushLoad"
               /\ Goto(t, "pushLink")
               /\ old' = [old EXCEPT ![t] = head]
               /\ UNCHANGED <<head, next, mine, node, new, freed, alive, stack, ghosts>>

PushLink(t) == /\ pc[t] = "pushLink"
               /\ Goto(t, "pushCas")
               /\ next' = [next EXCEPT ![node[t]] = old[t]]
               /\ UNCHANGED <<head, mine, node, old, new, freed, alive, stack, ghosts>>

\* The new node becomes the head.
PushTop(t) == /\ pc[t] = "pushCas"
              /\ Goto(t, "idle")
              /\ head' = node[t]
              /\ stack' = <<node[t]>> \o stack
              /\ node' = [node EXCEPT ![t] = Null]
              /\ stale' = stale \cup {u \in Threads : /\ pc[u] \in {"popNext", "popCas"}
                                                     /\ old[u] = node[t]}
              /\ UNCHANGED <<next, mine, old, new, freed, alive, aba>>

\* MUTANT: a store instead of the compare-and-swap.
PushCas_Store(t) == PushTop(t)

PushCas(t) == head = old[t] /\ PushTop(t)

\* The swap fails, also spuriously: load again.
PushFail(t) == /\ pc[t] = "pushCas"
               /\ Goto(t, "pushLoad")
               /\ UNCHANGED <<head, next, mine, node, old, new, freed, alive, stack, ghosts>>
-----------------------------------------------------------------------------
PopCall(t) == /\ alive /\ pc[t] = "idle"
              /\ Goto(t, "popLoad")
              /\ UNCHANGED <<head, next, mine, node, old, new, freed, alive, stack, ghosts>>

\* An empty stack: return nullptr.
PopEmpty(t) == /\ pc[t] = "popLoad"
               /\ head = Null
               /\ Goto(t, "idle")
               /\ UNCHANGED <<head, next, mine, node, old, new, freed, alive, stack, ghosts>>

PopLoad(t) == /\ pc[t] = "popLoad"
              /\ head # Null
              /\ Goto(t, "popNext")
              /\ old' = [old EXCEPT ![t] = head]
              /\ stale' = stale \ {t}
              /\ UNCHANGED <<head, next, mine, node, new, freed, alive, stack, aba>>

PopNext(t) == /\ pc[t] = "popNext"
              /\ Goto(t, "popCas")
              /\ new' = [new EXCEPT ![t] = next[old[t]]]
              /\ UNCHANGED <<head, next, mine, node, old, freed, alive, stack, ghosts>>

\* The head moves on and the caller gets the old one.
PopTop(t) == /\ pc[t] = "popCas"
             /\ Goto(t, "idle")
             /\ head' = new[t]
             /\ stack' = IF stack = <<>> THEN <<>> ELSE Tail(stack)
             /\ mine' = [mine EXCEPT ![t] = @ \cup {old[t]}]
             /\ aba' = (t \in stale)
             /\ UNCHANGED <<next, node, old, new, freed, alive, stale>>

\* MUTANT: a store instead of the compare-and-swap.
PopCas_Store(t) == PopTop(t)

PopCas(t) == head = old[t] /\ PopTop(t)

PopFail(t) == /\ pc[t] = "popCas"
              /\ Goto(t, "popLoad")
              /\ UNCHANGED <<head, next, mine, node, old, new, freed, alive, stack, ghosts>>
-----------------------------------------------------------------------------
\* The destructor, run when no thread is inside: pop and delete until empty.
Destroy == /\ \A t \in Threads : pc[t] = "idle"
           /\ alive' = FALSE
           /\ head # Null
           /\ head' = next[head]
           /\ stack' = Tail(stack)
           /\ freed' = freed \cup {head}
           /\ UNCHANGED <<next, mine, pc, node, old, new, ghosts>>
-----------------------------------------------------------------------------
ThreadStep(t) == \/ \E n \in Nodes : PushCall(t, n)
                 \/ PushLoad(t) \/ PushLink(t) \/ PushCas(t) \/ PushFail(t)
                 \/ PopCall(t) \/ PopEmpty(t) \/ PopLoad(t) \/ PopNext(t)
                 \/ PopCas(t) \/ PopFail(t)

Next == ~aba /\ ((\E t \in Threads : ThreadStep(t)) \/ Destroy)

Spec == Init /\ [][Next]_vars
-----------------------------------------------------------------------------
\* The type invariant of the nodes, the head and the threads around them.
TypeOK == /\ head \in Ptr
          /\ next \in [Nodes -> Ptr]
          /\ mine \in [Threads -> SUBSET Nodes]
          /\ pc \in [Threads -> {"idle", "pushLoad", "pushLink", "pushCas",
                                 "popLoad", "popNext", "popCas"}]
          /\ node \in [Threads -> Ptr]
          /\ old \in [Threads -> Ptr]
          /\ new \in [Threads -> Ptr]
          /\ freed \subseteq Nodes
          /\ alive \in BOOLEAN
          /\ stack \in Seq(Nodes)
          /\ stale \subseteq Threads /\ aba \in BOOLEAN

\* The chain of next links from head_ spells exactly the nodes pushed and not
\* popped, last in first, unless a stale Pop has swapped: reuse of a popped node
\* is the only way in which concurrent swaps cut nodes off or link others in.
OnlyAbaBreaksChain ==
  \/ aba
  \/ /\ head = IF stack = <<>> THEN Null ELSE stack[1]
     /\ \A i \in 1..Len(stack) :
           next[stack[i]] = IF i = Len(stack) THEN Null ELSE stack[i + 1]

\* What a walk along the links from head_ reaches: the least set that holds head_
\* and with each node its next.
Reached == {p \in Ptr : \A S \in SUBSET Ptr :
                          head \in S /\ (\A m \in S \ {Null} : next[m] \in S)
                            => p \in S}

\* Who has node n: each thread that owns it or is pushing it, the chain from
\* head_, the destructor.
Hands(n) == Cardinality({t \in Threads : n \in mine[t]})
            + Cardinality({t \in Threads : node[t] = n})
            + (IF n \in Reached THEN 1 ELSE 0)
            + (IF n \in freed THEN 1 ELSE 0)

\* The chain from head_ ends, and every node is in exactly one hand: none is lost
\* from the chain, handed to two callers or left in the chain while a caller has
\* it, none is deleted while a caller has it.  Excepted is the stale swap of a
\* Pop: it may bring back a node that has an owner and lose others.
NodesConserved ==
  \/ aba
  \/ Null \in Reached /\ \A n \in Nodes : Hands(n) = 1
=============================================================================
