------------------------- MODULE DoubleBufferProofs -------------------------
(***************************************************************************)
(* Proofs about DoubleBuffer, for any finite number of readers and writers *)
(* and without a bound on the number of loads.                             *)
(***************************************************************************)
EXTENDS DoubleBuffer, FiniteSetTheorems, TLAPS

\* A writer past Lock and not yet out of Update.
Inside(w) == wpc[w] \in {"spin", "take", "write", "swap"}

\* write_mtx_ is owned by the one writer that is inside.
MutexOwned == \A w \in Writers : Inside(w) <=> mutex = w

\* Which round a writer is in and which buffer it holds, by its position.
WriterHolds ==
  \A w \in Writers :
     /\ wpc[w] \in {"idle", "lock", "swap"} => pass[w] = 1
     /\ wpc[w] \in {"idle", "lock", "done"} => wbuf[w] = None
     /\ wpc[w] \in {"spin", "take"} =>
           wbuf[w] = IF pass[w] = 1 THEN None ELSE readIdx
     /\ wpc[w] \in {"write", "swap"} => wbuf[w] = 1 - readIdx

\* A reader that no swap has overtaken has the index that is published, and
\* once the writer has seen a use_count of 1 it holds that buffer only.
ReadersOnPublished ==
  \A r \in Readers : r \notin stale =>
     /\ rpc[r] = "idx" => ridx[r] = readIdx
     /\ rpc[r] = "hold" =>
           \A w \in Writers : wpc[w] \in {"take", "write"} => ridx[r] = readIdx

\* How far the two buffers have followed the log, by the position of the
\* writer that is inside.
BuffersFollowLog ==
  ~torn =>
     /\ mutex = None => \A i \in Idx : data[i] = log
     /\ \A w \in Writers :
          /\ Inside(w) /\ wpc[w] # "swap" /\ pass[w] = 1 =>
                \A i \in Idx : data[i] = log
          /\ wpc[w] = "swap" => /\ data[1 - readIdx] = log
                                /\ log = Updated(w, data[readIdx])
          /\ Inside(w) /\ pass[w] = 2 => /\ data[readIdx] = log
                                         /\ log = Updated(w, data[1 - readIdx])

Inv == /\ TypeOK /\ MutexOwned /\ WriterHolds /\ ReadersOnPublished
       /\ BuffersFollowLog
-----------------------------------------------------------------------------
\* A use_count of 1 means that neither a reader nor a writer holds the buffer.
LEMMA UseCountOne ==
  ASSUME NEW i \in Idx, UseCount(i) = 1
  PROVE  /\ \A r \in Readers : ~(rpc[r] = "hold" /\ ridx[r] = i)
         /\ \A w \in Writers : wbuf[w] # i
<1> DEFINE R == {r \in Readers : rpc[r] = "hold" /\ ridx[r] = i}
           W == {w \in Writers : wbuf[w] = i}
<1>1. IsFiniteSet(R) /\ IsFiniteSet(W)
  BY BufferAssumption, FS_Subset
<1>2. Cardinality(R) \in Nat /\ Cardinality(W) \in Nat
  BY <1>1, FS_CardinalityType
<1>3. 1 + Cardinality(R) + Cardinality(W) = 1
  BY DEF UseCount
<1> HIDE DEF R, W
<1>4. Cardinality(R) = 0 /\ Cardinality(W) = 0
  BY <1>2, <1>3
<1>5. R = {} /\ W = {}
  BY <1>1, <1>4, FS_EmptySet
<1> QED BY <1>5 DEF R, W

\* An updater makes a value of a value.
LEMMA UpdatedType ==
  ASSUME NEW w \in Writers, NEW v \in Seq(Writers)
  PROVE  Updated(w, v) \in Seq(Writers)
  BY DEF Updated

\* The invariant holds initially.
LEMMA InitInv == Init => Inv
<1> SUFFICES ASSUME Init PROVE Inv
  OBVIOUS
<1>1. TypeOK
  BY DEF Init, TypeOK, Idx
<1> QED
  BY <1>1, BufferAssumption
     DEF Inv, Init, MutexOwned, Inside, WriterHolds, ReadersOnPublished,
         BuffersFollowLog

\* Every step of a reader or a writer preserves the invariant.
LEMMA NextInv == Inv /\ [Next]_vars => Inv'
<1> SUFFICES ASSUME Inv, [Next]_vars PROVE Inv'
  OBVIOUS
<1> USE BufferAssumption DEF Inv, TypeOK, Idx, Inside
<1>1. ASSUME NEW r \in Readers, LoadIdx(r) PROVE Inv'
  BY <1>1 DEF LoadIdx, MutexOwned, WriterHolds, ReadersOnPublished,
              BuffersFollowLog
<1>2. ASSUME NEW r \in Readers, LoadCopy(r) PROVE Inv'
  BY <1>2 DEF LoadCopy, MutexOwned, WriterHolds, ReadersOnPublished,
              BuffersFollowLog
<1>3. ASSUME NEW r \in Readers, Release(r) PROVE Inv'
  BY <1>3 DEF Release, MutexOwned, WriterHolds, ReadersOnPublished,
              BuffersFollowLog
<1>4. ASSUME NEW w \in Writers, UpdateCall(w) PROVE Inv'
  BY <1>4 DEF UpdateCall, readers, MutexOwned, WriterHolds,
              ReadersOnPublished, BuffersFollowLog
<1>5. ASSUME NEW w \in Writers, Lock(w) PROVE Inv'
  BY <1>5 DEF Lock, readers, MutexOwned, WriterHolds,
              ReadersOnPublished, BuffersFollowLog
<1>6. ASSUME NEW w \in Writers, Spin(w) PROVE Inv'
  <2>1. \A r \in Readers : ~(rpc[r] = "hold" /\ ridx[r] = 1 - readIdx)
    BY <1>6, UseCountOne DEF Spin
  <2>2. ReadersOnPublished'
    BY <1>6, <2>1 DEF Spin, readers, ReadersOnPublished
  <2> QED
    BY <1>6, <2>2 DEF Spin, readers, MutexOwned, WriterHolds, BuffersFollowLog
<1>7. ASSUME NEW w \in Writers, Take(w) PROVE Inv'
  BY <1>7 DEF Take, readers, MutexOwned, WriterHolds,
              ReadersOnPublished, BuffersFollowLog
<1>8. ASSUME NEW w \in Writers, Write(w) PROVE Inv'
  <2>1. /\ wbuf[w] = 1 - readIdx /\ wbuf[w] \in Idx /\ wpc[w] = "write"
        /\ UNCHANGED <<readIdx, pass, torn, rpc, ridx, stale>>
    BY <1>8 DEF Write, readers, WriterHolds
  <2>2. data' = [data EXCEPT ![1 - readIdx] = Updated(w, data[1 - readIdx])]
    BY <1>8, <2>1 DEF Write
  <2>3. /\ Updated(w, data[1 - readIdx]) \in Seq(Writers)
        /\ Updated(w, log) \in Seq(Writers)
    BY <2>1, UpdatedType
  <2>4. CASE /\ pass[w] = 1
             /\ wpc' = [wpc EXCEPT ![w] = "swap"]
             /\ log' = Updated(w, log)
             /\ UNCHANGED <<wbuf, mutex>>
    <3>1. TypeOK'
      BY <2>1, <2>2, <2>3, <2>4
    <3>2. MutexOwned' /\ WriterHolds' /\ ReadersOnPublished'
      BY <2>1, <2>4 DEF MutexOwned, WriterHolds, ReadersOnPublished
    <3>3. BuffersFollowLog'
      BY <2>1, <2>2, <2>4 DEF MutexOwned, BuffersFollowLog
    <3> QED BY <3>1, <3>2, <3>3
  <2>5. CASE pass[w] = 2 /\ Leave(w) /\ UNCHANGED log
    <3>1. TypeOK'
      BY <2>1, <2>2, <2>3, <2>5 DEF Leave
    <3>2. MutexOwned' /\ WriterHolds' /\ ReadersOnPublished'
      BY <2>1, <2>5 DEF Leave, MutexOwned, WriterHolds, ReadersOnPublished
    <3>3. BuffersFollowLog'
      BY <2>1, <2>2, <2>5 DEF Leave, MutexOwned, BuffersFollowLog
    <3> QED BY <3>1, <3>2, <3>3
  <2> QED BY <1>8, <2>4, <2>5 DEF Write
<1>9. ASSUME NEW w \in Writers, WriteThrows(w) PROVE Inv'
  <2>1. /\ wbuf[w] = 1 - readIdx /\ wbuf[w] \in Idx /\ wpc[w] = "write"
        /\ Updated(w, data[1 - readIdx]) \in Seq(Writers)
        /\ UNCHANGED <<readIdx, pass, log, rpc, ridx, stale>>
        /\ Leave(w)
    BY <1>9, UpdatedType DEF WriteThrows, readers, WriterHolds
  <2>2. PICK late \in BOOLEAN :
          /\ data' = IF late THEN [data EXCEPT ![1 - readIdx] =
                                     Updated(w, data[1 - readIdx])]
                             ELSE data
          /\ torn' = (torn \/ late = (pass[w] = 1))
    BY <1>9, <2>1 DEF WriteThrows
  <2>3. TypeOK'
    BY <2>1, <2>2 DEF Leave
  <2>4. MutexOwned' /\ WriterHolds' /\ ReadersOnPublished'
    BY <2>1 DEF Leave, MutexOwned, WriterHolds, ReadersOnPublished
  <2>5. BuffersFollowLog'
    <3>1. SUFFICES ASSUME ~torn' PROVE \A i \in Idx : data'[i] = log
      BY <2>1 DEF Leave, MutexOwned, BuffersFollowLog
    <3>2. pass[w] \in {1, 2}
      OBVIOUS
    <3>3. ~torn /\ late # (pass[w] = 1)
      BY <2>2, <3>1
    <3>4. CASE late /\ pass[w] = 2
      <4>1. log = Updated(w, data[1 - readIdx]) /\ data[readIdx] = log
        BY <2>1, <3>4, <3>3 DEF BuffersFollowLog
      <4>2. data' = [data EXCEPT ![1 - readIdx] = log]
        BY <2>2, <3>4, <4>1
      <4> QED BY <4>1, <4>2
    <3>5. CASE ~late /\ pass[w] = 1
      BY <2>1, <2>2, <3>5, <3>3 DEF BuffersFollowLog
    <3> QED BY <3>4, <3>5, <3>2, <3>3
  <2> QED BY <2>3, <2>4, <2>5
<1>10. ASSUME NEW w \in Writers, Swap(w) PROVE Inv'
  <2>1. TypeOK' /\ MutexOwned' /\ WriterHolds' /\ BuffersFollowLog'
    BY <1>10 DEF Swap, MutexOwned, WriterHolds, BuffersFollowLog
  <2>2. ReadersOnPublished'
    BY <1>10 DEF Swap, MutexOwned, ReadersOnPublished
  <2> QED BY <2>1, <2>2
<1>11. CASE UNCHANGED vars
  BY <1>11 DEF vars, MutexOwned, WriterHolds, ReadersOnPublished,
               BuffersFollowLog, Updated
<1> QED
  BY <1>1, <1>2, <1>3, <1>4, <1>5, <1>6, <1>7, <1>8, <1>9, <1>10, <1>11
     DEF Next, ReaderReturns, WriterStep

\* The invariant holds in every reachable state.
THEOREM Invariance == Spec => []Inv
  BY InitInv, NextInv, PTL DEF Spec

\* Indices, positions and buffers keep their types.
THEOREM TypeCorrect == Spec => []TypeOK
<1>1. Inv => TypeOK
  BY DEF Inv
<1> QED BY <1>1, Invariance, PTL

\* A writer never modifies the buffer a reader holds, unless a swap overtook
\* the reader between the two halves of its Load.
THEOREM ReadersUndisturbed == Spec => []OnlyOvertakenReadersConflict
<1>1. Inv => OnlyOvertakenReadersConflict
  BY DEF Inv, TypeOK, Idx, WriterHolds, ReadersOnPublished, Conflict,
         OnlyOvertakenReadersConflict
<1> QED BY <1>1, Invariance, PTL

\* When no writer is inside and no updater has thrown between the two rounds,
\* both buffers hold the outcome of all Updates in their order.
THEOREM BuffersAgree == Spec => []BothBuffersCurrent
<1>1. Inv => BothBuffersCurrent
  BY DEF Inv, BuffersFollowLog, BothBuffersCurrent
<1> QED BY <1>1, Invariance, PTL
-----------------------------------------------------------------------------
\* What a step does to the published value.
Forward == \/ data'[readIdx'] = data[readIdx]
           \/ \E w \in Writers : /\ data'[readIdx'] = Updated(w, data[readIdx])
                                 /\ readIdx' # readIdx

\* The published buffer is left alone by every step but Swap, which replaces
\* it by one that is a single Update ahead.
LEMMA StepForward == Inv /\ [Next]_vars => (~torn => Forward)
<1> SUFFICES ASSUME Inv, [Next]_vars, ~torn PROVE Forward
  OBVIOUS
<1> USE DEF Inv, TypeOK, Idx
<1>1. ASSUME UNCHANGED <<readIdx, data>> PROVE Forward
  BY <1>1 DEF Forward
<1>2. ASSUME NEW w \in Writers, Write(w) \/ WriteThrows(w) PROVE Forward
  <2>1. readIdx' = readIdx /\ wbuf[w] = 1 - readIdx
    BY <1>2 DEF Write, WriteThrows, WriterHolds
  <2>2. data' = data \/ data' = [data EXCEPT ![1 - readIdx] =
                                    Updated(w, data[1 - readIdx])]
    BY <1>2, <2>1 DEF Write, WriteThrows
  <2>3. data'[readIdx] = data[readIdx]
    BY <2>2
  <2> QED BY <2>1, <2>3 DEF Forward
<1>3. ASSUME NEW w \in Writers, Swap(w) PROVE Forward
  <2>1. readIdx' = 1 - readIdx /\ readIdx' # readIdx /\ data' = data
    BY <1>3 DEF Swap
  <2>2. data[1 - readIdx] = Updated(w, data[readIdx])
    BY <1>3 DEF Swap, BuffersFollowLog
  <2> QED BY <2>1, <2>2 DEF Forward
<1> QED
  BY <1>1, <1>2, <1>3
     DEF Next, ReaderReturns, WriterStep, LoadIdx, LoadCopy, Release,
         UpdateCall, Lock, Spin, Take, vars

\* The value that Load gets moves forward by one whole Update at a time and is
\* never taken back.
THEOREM Monotone == Spec => PublishedMovesForward
<1>1. Inv /\ [Next]_vars => [~torn => Forward]_vars
  BY StepForward
<1> QED BY <1>1, Invariance, PTL DEF Spec, PublishedMovesForward, Forward
=============================================================================
