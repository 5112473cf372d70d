-------------------------- MODULE SharedMemoryProofs --------------------------
(***************************************************************************)
(* Proofs about SharedMemory, for any number of processes, threads and     *)
(* readers, any sizes asked for and any width of the size arithmetic.      *)
(***************************************************************************)
EXTENDS SharedMemory, TLAPS

Bytes == 0..(Wrap - 1)

\* Two threads of one process are not inside at once, as both says.  Threads of
\* different processes may be: a closed descriptor takes the lock from a thread
\* inside.  But only once the segment has its size.
OneInside ==
  ~both => /\ \A v, w \in Writers :
                Inside(v) /\ Inside(w) /\ Process[v] = Process[w] => v = w
           /\ shm = 0 => \A w \in Writers : Inside(w) => holder = Process[w]

\* A process whose receive_fatal_ is set has a thread on its way out.
FatalExits ==
  ~both => \A p \in fatal : \E w \in Writers : Process[w] = p /\ pc[w] = "exit"

\* What a writer has seen of the segment is still true of it.
SeenSize ==
  ~both => \A w \in Writers :
     /\ pc[w] = "truncate" => size[w] = shm
     /\ pc[w] \in {"unlock", "close", "ready"} => map[w] = shm /\ shm # 0
     /\ release /\ pc[w] \in {"map", "unlock", "close", "ready"} => shm = Desired(w)

Inv == TypeOK /\ OneInside /\ FatalExits /\ SeenSize /\ MappingBacked
-----------------------------------------------------------------------------
\* Remainders are below the divisor, and numbers below it are their own.
LEMMA ModFacts ==
  ASSUME NEW a \in Nat, NEW n \in Nat \ {0}
  PROVE  /\ a % n \in 0..(n - 1)
         /\ a < n => a % n = a
  BY Z3

\* The size a writer asks for, computed in uint32_t.
LEMMA DesiredType ==
  ASSUME TypeOK, NEW w \in Writers
  PROVE  /\ Desired(w) \in Bytes
         /\ mb[w] * MB < Wrap => Desired(w) = mb[w] * MB
<1>1. mb[w] * MB \in Nat
  BY ShmAssumption DEF TypeOK, Bytes
<1>2. Wrap \in Nat \ {0}
  BY ShmAssumption
<1> QED BY <1>1, <1>2, ModFacts DEF Desired, Bytes

\* The invariant holds initially.
LEMMA InitInv == Init => Inv
<1> SUFFICES ASSUME Init PROVE Inv
  OBVIOUS
<1> USE ShmAssumption
<1>1. mb \in [Writers -> Nat]
  BY DEF Init
<1>2. 0 \in Bytes
  BY DEF Bytes
<1>3. TypeOK
  BY <1>1, <1>2 DEF Init, TypeOK, Bytes, None
<1> QED
  BY <1>3 DEF Inv, Init, OneInside, FatalExits, SeenSize, MappingBacked,
              Inside, None

\* Every step of a writer, its death included, preserves the invariant.
LEMMA WriterInv ==
  ASSUME Inv, NEW w \in Writers, WriterStep(w) \/ Crash(w)
  PROVE  Inv'
<1> USE ShmAssumption DEF Inv, TypeOK, Bytes, Inside, Goto, reading
<1>1. CASE Lock(w)
  <2>1. TypeOK'
    BY <1>1 DEF Lock
  <2>2. OneInside'
    BY <1>1 DEF Lock, OneInside
  <2>3. FatalExits' /\ SeenSize' /\ MappingBacked'
    BY <1>1 DEF Lock, FatalExits, SeenSize, MappingBacked, Desired
  <2> QED BY <2>1, <2>2, <2>3
<1>2. CASE NoLockFile(w)
  BY <1>2 DEF NoLockFile, OneInside, FatalExits, SeenSize, MappingBacked, Desired
<1>3. CASE Size(w)
  BY <1>3 DEF Size, Fatal, OneInside, FatalExits, SeenSize, MappingBacked, Desired
<1>4. CASE Truncate(w)
  <2>1. Desired(w) \in Bytes
    BY DesiredType
  <2>2. TypeOK'
    BY <1>4, <2>1 DEF Truncate
  <2>3. ~both => shm = 0 \/ shm' = shm
    BY <1>4 DEF Truncate, SeenSize
  <2>4. OneInside' /\ FatalExits'
    BY <1>4, <2>3 DEF Truncate, OneInside, FatalExits
  <2>5. SeenSize'
    BY <1>4, <2>3 DEF Truncate, OneInside, SeenSize, Desired
  <2>6. MappingBacked'
    BY <1>4, <2>1, <2>3 DEF Truncate, MappingBacked, Bytes
  <2> QED BY <2>2, <2>4, <2>5, <2>6
<1>5. CASE Recheck(w)
  <2>1. TypeOK'
    BY <1>5 DEF Recheck, Fatal, Bytes
  <2>2. OneInside' /\ FatalExits' /\ MappingBacked'
    BY <1>5 DEF Recheck, Fatal, OneInside, FatalExits, MappingBacked
  <2>3. ~both => Process[w] \notin fatal
    BY <1>5 DEF Recheck, OneInside, FatalExits
  <2>4. SeenSize'
    BY <1>5, <2>3 DEF Recheck, Fatal, OneInside, SeenSize, Desired
  <2> QED BY <2>1, <2>2, <2>4
<1>6. CASE Map(w)
  BY <1>6 DEF Map, OneInside, FatalExits, SeenSize, MappingBacked, Desired, Bytes
<1>7. CASE Throw(w)
  BY <1>7 DEF Throw, Release, OneInside, FatalExits, SeenSize, MappingBacked,
              Desired
<1>8. CASE Unlock(w)
  BY <1>8 DEF Unlock, Release, OneInside, FatalExits, SeenSize, MappingBacked,
              Desired
<1>9. CASE Close(w)
  BY <1>9 DEF Close, Release, OneInside, FatalExits, SeenSize, MappingBacked,
              Desired
<1>10. CASE Dies(w)
  BY <1>10 DEF Dies, Release, OneInside, FatalExits, SeenSize, MappingBacked,
              Desired, Bytes
<1> QED
  BY <1>1, <1>2, <1>3, <1>4, <1>5, <1>6, <1>7, <1>8, <1>9, <1>10
     DEF WriterStep, Exit, Crash

\* Every step of a reader preserves the invariant.
LEMMA ReaderInv ==
  ASSUME Inv, NEW r \in Readers, ReaderStep(r)
  PROVE  Inv'
<1> USE ShmAssumption DEF Inv, TypeOK, Bytes, RGoto, writing
<1>1. OneInside' /\ FatalExits' /\ SeenSize'
  BY DEF ReaderStep, ROpenFails, ROpen, RMap, RThrow, Reopen, Read, Expired,
         Invalid, OneInside, FatalExits, SeenSize, Inside, Desired
<1>2. CASE ROpenFails(r) \/ ROpen(r) \/ RThrow(r) \/ Reopen(r) \/ Expired(r)
           \/ Invalid(r)
  <2>1. TypeOK'
    BY <1>2 DEF ROpenFails, ROpen, RThrow, Reopen, Expired, Invalid
  <2>2. MappingBacked'
    BY <1>2 DEF ROpenFails, ROpen, RThrow, Reopen, Expired, Invalid, MappingBacked
  <2> QED BY <1>1, <2>1, <2>2
<1>3. CASE RMap(r)
  BY <1>1, <1>3 DEF RMap, MappingBacked, Bytes
<1>4. CASE Read(r)
  <2>1. PICK nd \in Nodes : InMapping(r, nd) /\ copy' = [copy EXCEPT ![r] = nd]
    BY <1>4 DEF Read
  <2>2. nd.offset \in Nat /\ nd.length \in Nat /\ nd.offset + nd.length \in Nat
    OBVIOUS
  <2>3. nd.offset + nd.length < Wrap64 => nd.offset + nd.length <= rmap[r]
    BY <2>1, <2>2, ModFacts DEF InMapping
  <2>4. TypeOK'
    BY <1>4, <2>1 DEF Read
  <2>5. MappingBacked'
    BY <1>4, <2>1, <2>2, <2>3 DEF Read, MappingBacked, Bytes
  <2> QED BY <1>1, <2>4, <2>5
<1> QED BY <1>2, <1>3, <1>4 DEF ReaderStep

\* Every step preserves the invariant.
LEMMA NextInv == Inv /\ [Next]_vars => Inv'
<1> SUFFICES ASSUME Inv, [Next]_vars PROVE Inv'
  OBVIOUS
<1>1. CASE UNCHANGED vars
  BY <1>1 DEF vars, writing, reading, Inv, TypeOK, Inside, OneInside, FatalExits,
              SeenSize, MappingBacked, Desired
<1> QED BY <1>1, WriterInv, ReaderInv DEF Next

\* The invariant holds in every reachable state.
THEOREM Invariance == Spec => []Inv
  BY InitInv, NextInv, PTL DEF Spec

\* The segment, the lock and the mappings keep their types.
THEOREM TypeCorrect == Spec => []TypeOK
<1>1. Inv => TypeOK
  BY DEF Inv
<1> QED BY <1>1, Invariance, PTL

\* While the segment has no size, nobody else is between lock and unlock, unless
\* two threads of a process were inside at once: closing a descriptor takes a
\* sibling's lock only when the segment has been sized, and so two processes
\* never size it both.
THEOREM SizingExclusive ==
  Spec => [](both \/ shm # 0 \/ \A v, w \in Writers : Inside(v) /\ Inside(w) => v = w)
<1>1. Inv => both \/ shm # 0 \/ \A v, w \in Writers : Inside(v) /\ Inside(w) => v = w
  BY DEF Inv, OneInside
<1> QED BY <1>1, Invariance, PTL

\* No access through a mapping, or by a checked read, is behind the end of the
\* segment, for every pattern of sizes, crashes and restarts of the writers.
THEOREM NoBusError == Spec => []MappingBacked
<1>1. Inv => MappingBacked
  BY DEF Inv
<1> QED BY <1>1, Invariance, PTL

\* A release build never works with a segment of another size than it asked.
THEOREM AskedSize == Spec => []SizeAsAsked
<1>1. Inv => SizeAsAsked
  BY DesiredType DEF Inv, SeenSize, SizeAsAsked
<1> QED BY <1>1, Invariance, PTL
=============================================================================
