---------------------------- MODULE DoubleBuffer ----------------------------
(***************************************************************************)
(* util::DoubleBuffer<T> (src/double_buffer/double_buffer.h): two shared   *)
(* buffers and the atomic index of the one to read.  Load reads the index, *)
(* then copies the shared_ptr (which raises its use_count): two steps.     *)
(* A writer waits until nobody else uses the buffer that is not read,      *)
(* updates it, swaps, and does the same to the other one.  The sleep that  *)
(* used to follow the swap is commented out in the code.                   *)
(*                                                                         *)
(* A value of T is the sequence of the operations that made it.  A writer  *)
(* calls Update (or Reset) once; a reader calls Load again and again.      *)
(***************************************************************************)
EXTENDS Naturals, Sequences, FiniteSets

CONSTANTS Readers,
          Updaters,   \* writers that call Update
          Resetters,  \* writers that call Reset
          None

Writers == Updaters \cup Resetters
Idx == {0, 1}

ASSUME BufferAssumption == /\ Readers \cap Writers = {}
                           /\ Updaters \cap Resetters = {}
                           /\ None \notin Idx \cup Writers
                           /\ IsFiniteSet(Readers)  \* threads of one process
                           /\ IsFiniteSet(Writers)

VARIABLES
  readIdx,   \* read_idx_
  data,      \* data[i]: what *buffers_[i] holds
  mutex,     \* write_mtx_: the writer that owns it, or None
  rpc,       \* reader: "idle", "idx" (index read), "hold" (shared_ptr copied)
  ridx,      \* the index a reader has read
  wpc,       \* writer: "idle", "lock", "spin", "take", "write", "swap", "done"
  pass,      \* which of the two rounds of Update a writer is in
  wbuf,      \* write_buffer: the buffer the writer holds, or None
  stale,     \* history: readers overtaken by a swap between index and copy
  log,       \* history: the value a sequential run of the Updates gives
  torn       \* history: an updater threw and left the two buffers different

vars == <<readIdx, data, mutex, rpc, ridx, wpc, pass, wbuf, stale, log, torn>>

readers == <<rpc, ridx, stale>>

Init == /\ readIdx = 0
        /\ data = [i \in Idx |-> <<>>]
        /\ mutex = None
        /\ rpc = [r \in Readers |-> "idle"]
        /\ ridx = [r \in Readers |-> 0]
        /\ wpc = [w \in Writers |-> "idle"]
        /\ pass = [w \in Writers |-> 1]
        /\ wbuf = [w \in Writers |-> None]
        /\ stale = {}
        /\ log = <<>>
        /\ torn = FALSE

\* use_count of buffers_[i]: itself, the readers and the writer that hold it.
UseCount(i) == 1 + Cardinality({r \in Readers : rpc[r] = "hold" /\ ridx[r] = i})
                 + Cardinality({w \in Writers : wbuf[w] = i})

\* What the updater of writer w makes of value v; Reset assigns.
Updated(w, v) == IF w \in Resetters THEN <<w>> ELSE Append(v, w)
-----------------------------------------------------------------------------
\* Load, first half: the value of read_idx_.
LoadIdx(r) == /\ rpc[r] = "idle"
              /\ rpc' = [rpc EXCEPT ![r] = "idx"]
              /\ ridx' = [ridx EXCEPT ![r] = readIdx]
              /\ stale' = stale \ {r}
              /\ UNCHANGED <<readIdx, data, mutex, wpc, pass, wbuf, log, torn>>

\* Load, second half: copy buffers_[idx]; the caller now reads the buffer.
LoadCopy(r) == /\ rpc[r] = "idx"
               /\ rpc' = [rpc EXCEPT ![r] = "hold"]
               /\ UNCHANGED <<readIdx, data, mutex, ridx, wpc, pass, wbuf,
                              stale, log, torn>>

\* The caller gives the shared_ptr back.
Release(r) == /\ rpc[r] = "hold"
              /\ rpc' = [rpc EXCEPT ![r] = "idle"]
              /\ UNCHANGED <<readIdx, data, mutex, ridx, wpc, pass, wbuf,
                             stale, log, torn>>
-----------------------------------------------------------------------------
UpdateCall(w) == /\ wpc[w] = "idle"
                 /\ wpc' = [wpc EXCEPT ![w] = "lock"]
                 /\ UNCHANGED <<readIdx, data, mutex, pass, wbuf, log, torn,
                                readers>>

Lock(w) == /\ wpc[w] = "lock"
           /\ mutex = None
           /\ mutex' = w
           /\ wpc' = [wpc EXCEPT ![w] = "spin"]
           /\ UNCHANGED <<readIdx, data, pass, wbuf, log, torn, readers>>

\* MUTANT: do not wait for the readers.
Spin_NoWait(w) == /\ wpc[w] = "spin"
                  /\ wpc' = [wpc EXCEPT ![w] = "take"]
                  /\ UNCHANGED <<readIdx, data, mutex, pass, wbuf, log, torn,
                                 readers>>

\* MUTANT: wait for a use_count of 0.
Spin_ForZero(w) == /\ wpc[w] = "spin"
                   /\ UseCount(1 - readIdx) = 0
                   /\ wpc' = [wpc EXCEPT ![w] = "take"]
                   /\ UNCHANGED <<readIdx, data, mutex, pass, wbuf, log, torn,
                                  readers>>

\* monopolizer_writer_buffer: poll until the use_count is 1.
Spin(w) == /\ wpc[w] = "spin"
           /\ UseCount(1 - readIdx) = 1
           /\ wpc' = [wpc EXCEPT ![w] = "take"]
           /\ UNCHANGED <<readIdx, data, mutex, pass, wbuf, log, torn, readers>>

\* MUTANT: the write index is the read index.
Take_ReadBuffer(w) == /\ wpc[w] = "take"
                      /\ wbuf' = [wbuf EXCEPT ![w] = readIdx]
                      /\ wpc' = [wpc EXCEPT ![w] = "write"]
                      /\ UNCHANGED <<readIdx, data, mutex, pass, log, torn,
                                     readers>>

\* ... and return a copy of it, which releases the buffer held before.
Take(w) == /\ wpc[w] = "take"
           /\ wbuf' = [wbuf EXCEPT ![w] = 1 - readIdx]
           /\ wpc' = [wpc EXCEPT ![w] = "write"]
           /\ UNCHANGED <<readIdx, data, mutex, pass, log, torn, readers>>

\* Leaving Update: the lock and the local shared_ptr are released.
Leave(w) == /\ wpc' = [wpc EXCEPT ![w] = "done"]
            /\ wbuf' = [wbuf EXCEPT ![w] = None]
            /\ mutex' = None

\* The updater has run on the buffer: the first time on to the swap, the
\* second time out of Update.
Write(w) == /\ wpc[w] = "write"
            /\ data' = [data EXCEPT ![wbuf[w]] = Updated(w, @)]
            /\ \/ /\ pass[w] = 1
                  /\ wpc' = [wpc EXCEPT ![w] = "swap"]
                  /\ log' = Updated(w, log)
                  /\ UNCHANGED <<wbuf, mutex>>
               \/ /\ pass[w] = 2
                  /\ Leave(w)
                  /\ UNCHANGED log
            /\ UNCHANGED <<readIdx, pass, torn, readers>>

\* The updater throws, with its change made or not, and Update unwinds.  The
\* buffers part if it threw early in its second call or late in its first.
WriteThrows(w) ==
  /\ wpc[w] = "write"
  /\ \E late \in BOOLEAN :
        /\ data' = IF late THEN [data EXCEPT ![wbuf[w]] = Updated(w, @)] ELSE data
        /\ torn' = (torn \/ late = (pass[w] = 1))
  /\ Leave(w)
  /\ UNCHANGED <<readIdx, pass, log, readers>>

\* MUTANT: only the buffer that gets published is updated.
Swap_Once(w) == /\ wpc[w] = "swap"
                /\ readIdx' = 1 - readIdx
                /\ Leave(w)
                /\ stale' = stale \cup {r \in Readers : rpc[r] = "idx"}
                /\ UNCHANGED <<data, pass, log, torn, rpc, ridx>>

\* swap_buffer: the updated buffer is the one to read, on to the second round.
Swap(w) == /\ wpc[w] = "swap"
           /\ readIdx' = 1 - readIdx
           /\ pass' = [pass EXCEPT ![w] = 2]
           /\ wpc' = [wpc EXCEPT ![w] = "spin"]
           /\ stale' = stale \cup {r \in Readers : rpc[r] = "idx"}
           /\ UNCHANGED <<data, mutex, wbuf, log, torn, rpc, ridx>>
-----------------------------------------------------------------------------
ReaderReturns(r) == LoadCopy(r) \/ Release(r)

WriterStep(w) == \/ Lock(w) \/ Spin(w) \/ Take(w) \/ Swap(w)
                 \/ Write(w) \/ WriteThrows(w)

Next == \/ \E r \in Readers : LoadIdx(r) \/ ReaderReturns(r)
        \/ \E w \in Writers : UpdateCall(w) \/ WriterStep(w)

Spec == Init /\ [][Next]_vars

\* Readers give their pointers back, a writer keeps polling, and the mutex is
\* not withheld from a writer for ever.
FairSpec == /\ Spec
            /\ \A r \in Readers : WF_vars(ReaderReturns(r))
            /\ \A w \in Writers : WF_vars(WriterStep(w)) /\ SF_vars(Lock(w))
-----------------------------------------------------------------------------
\* The type invariant of the buffers and of the threads around them.
TypeOK == /\ readIdx \in Idx
          /\ data \in [Idx -> Seq(Writers)]
          /\ mutex \in Writers \cup {None}
          /\ rpc \in [Readers -> {"idle", "idx", "hold"}]
          /\ ridx \in [Readers -> Idx]
          /\ wpc \in [Writers -> {"idle", "lock", "spin", "take", "write",
                                  "swap", "done"}]
          /\ pass \in [Writers -> {1, 2}]
          /\ wbuf \in [Writers -> Idx \cup {None}]
          /\ stale \subseteq Readers
          /\ log \in Seq(Writers)
          /\ torn \in BOOLEAN

\* Reader r reads the buffer that the updater of writer w is modifying.
Conflict(r, w) == /\ rpc[r] = "hold"
                  /\ wpc[w] = "write"
                  /\ ridx[r] = wbuf[w]

\* "Get read_buffer and you can read it without restriction": waiting for
\* use_count 1 keeps writers out of the buffer of every reader but those that
\* a swap has overtaken between the two halves of Load.
OnlyOvertakenReadersConflict ==
  \A r \in Readers, w \in Writers : Conflict(r, w) => r \in stale

\* Update "will block until it update both two buffers successfully": when no
\* writer is inside, both buffers hold the outcome of all Updates in order,
\* unless an updater threw and left them apart.
BothBuffersCurrent ==
  mutex = None /\ ~torn => \A i \in Idx : data[i] = log

\* What Load gets only moves forward, by one whole Update at a time, and no
\* Update that readers could see is taken back.
PublishedMovesForward ==
  [][~torn => \/ data'[readIdx'] = data[readIdx]
               \/ \E w \in Writers : /\ data'[readIdx'] = Updated(w, data[readIdx])
                                     /\ readIdx' # readIdx]_vars

\* A call of Update returns when readers return their pointers.
UpdateReturns == \A w \in Writers : wpc[w] = "lock" ~> wpc[w] = "done"
=============================================================================
