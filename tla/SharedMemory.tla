----------------------------- MODULE SharedMemory -----------------------------
(***************************************************************************)
(* ReadWriteSharedMemory and ReadOnlySharedMemory (src/lockfree/           *)
(* ipc_message_queue/shared_memory): one named segment that writers create *)
(* and size under a file lock, and readers map whenever it is there.       *)
(*                                                                         *)
(* The lock belongs to the process (fcntl): threads of one process do not  *)
(* keep each other out, and the first to unlock the file, or to close a    *)
(* descriptor of it, takes the lock from all of them.                      *)
(* A process may die at any step; the segment outlives it.                 *)
(***************************************************************************)
EXTENDS Naturals

CONSTANTS Writers,   \* threads that construct a ReadWriteSharedMemory
          Process,   \* Process[w]: the process of w
          Asks,      \* Asks[w]: the sizes w may ask for, in MB
          Readers,   \* ReadOnlySharedMemory objects, in processes of their own
          MB,        \* bytes in an MB, 2^20 in the code
          Wrap,      \* 2^32: sizes are computed in uint32_t
          Nodes,     \* [offset, length] of the reads
          Wrap64     \* 2^64: ends of nodes are computed in uint64_t

ASSUME ShmAssumption == /\ \A w \in Writers : Process[w] # "free"
                        /\ Asks \in [Writers -> SUBSET (Nat \ {0})]
                        /\ {MB, Wrap, Wrap64} \subseteq Nat \ {0}
                        /\ Nodes \subseteq [offset : Nat, length : Nat]

VARIABLES release,   \* built with NDEBUG
          lockFile,  \* the lock file exists; no code creates it
          shm,       \* size of the segment; 0 also when there is none, which is
                     \* the same to writers and readers
          holder,    \* the process that holds the lock, or "free"
          fatal,     \* processes whose receive_fatal_ is set
          pc,        \* where each writer is in OpenSharedMemory
          mb,        \* shared_memory_size_mb_
          size,      \* current_size_bytes between its two uses
          map,       \* mapped_region_ of a writer: its size, 0 for nullptr
          rpc,       \* where each reader is
          rmap,      \* mapped_region_ of a reader
          avail,     \* readers whose is_available_ is set
          copy,      \* the node a reader has copied last
          both       \* history: two threads of a process held the lock

writing == <<holder, fatal, pc, mb, size, map, both>>
reading == <<rpc, rmap, avail, copy>>
vars == <<release, lockFile, shm, writing, reading>>

None == [offset |-> 0, length |-> 0]

Init == /\ release \in BOOLEAN /\ lockFile \in BOOLEAN
        /\ shm = 0
        /\ holder = "free" /\ fatal = {} /\ both = FALSE
        /\ pc = [w \in Writers |-> "new"]
        /\ mb \in {f \in [Writers -> UNION {Asks[w] : w \in Writers}] :
                   \A w \in Writers : f[w] \in Asks[w]}
        /\ size = [w \in Writers |-> 0]
        /\ map = [w \in Writers |-> 0]
        /\ rpc = [r \in Readers |-> "open"]
        /\ rmap = [r \in Readers |-> 0]
        /\ avail = {}
        /\ copy = [r \in Readers |-> None]

Goto(w, l) == pc' = [pc EXCEPT ![w] = l]

\* desired_size_bytes = shared_memory_size_mb_ << 20
Desired(w) == (mb[w] * MB) % Wrap

\* MUTANT: a FATAL line does not end the process.
Fatal_Log(w, l) == UNCHANGED fatal /\ Goto(w, l)

\* A FATAL line: the first one of a process built for release ends it; all
\* others are logged and the thread goes on to l.
Fatal(w, l) == IF release /\ Process[w] \notin fatal
                 THEN fatal' = fatal \cup {Process[w]} /\ Goto(w, "exit")
                 ELSE UNCHANGED fatal /\ Goto(w, l)
-----------------------------------------------------------------------------
(***************************************************************************)
(* ReadWriteSharedMemory::OpenSharedMemory                                 *)
(***************************************************************************)
Inside(w) == pc[w] \in {"size", "truncate", "recheck", "map", "unlock", "exit"}

\* The lock file is opened and locked.
Lock(w) == /\ pc[w] = "new" /\ lockFile
           /\ holder \in {"free", Process[w]}
           /\ holder' = Process[w]
           /\ both' = (both \/ \E v \in Writers : Inside(v) /\ Process[v] = Process[w])
           /\ Goto(w, "size")
           /\ UNCHANGED <<release, lockFile, shm, fatal, mb, size, map, reading>>

\* The lock file is missing: the constructor throws.
NoLockFile(w) == /\ pc[w] = "new" /\ ~lockFile
                 /\ Goto(w, "threw")
                 /\ UNCHANGED <<release, lockFile, shm, holder, fatal, mb, size,
                                map, both, reading>>

\* MUTANT: a segment of another size is resized.
Size_Resize(w) == /\ pc[w] = "size"
                  /\ size' = [size EXCEPT ![w] = IF shm = Desired(w)
                                                   THEN shm ELSE 0]
                  /\ Goto(w, "truncate")
                  /\ UNCHANGED <<release, lockFile, shm, holder, fatal, mb, map,
                                 both, reading>>

\* open_or_create; a segment of another size is FATAL.
Size(w) == /\ pc[w] = "size"
           /\ size' = [size EXCEPT ![w] = shm]
           /\ IF shm \notin {0, Desired(w)} THEN Fatal(w, "truncate")
              ELSE Goto(w, "truncate") /\ UNCHANGED fatal
           /\ UNCHANGED <<release, lockFile, shm, holder, mb, map, both, reading>>

\* A segment that had size 0 is sized.
Truncate(w) == /\ pc[w] = "truncate"
               /\ shm' = IF size[w] = 0 THEN Desired(w) ELSE shm
               /\ Goto(w, "recheck")
               /\ UNCHANGED <<release, lockFile, holder, fatal, mb, size, map,
                              both, reading>>

\* CHECK_EQ(current_size_bytes, desired_size_bytes)
Recheck(w) == /\ pc[w] = "recheck"
              /\ size' = [size EXCEPT ![w] = 0]
              /\ IF shm # Desired(w) THEN Fatal(w, "map")
                 ELSE Goto(w, "map") /\ UNCHANGED fatal
              /\ UNCHANGED <<release, lockFile, shm, holder, mb, map, both, reading>>

\* The whole segment is mapped.
Map(w) == /\ pc[w] = "map" /\ shm # 0
          /\ map' = [map EXCEPT ![w] = shm]
          /\ Goto(w, "unlock")
          /\ UNCHANGED <<release, lockFile, shm, holder, fatal, mb, size, both, reading>>

\* fcntl lets go of the lock of the process.
Release(w) == holder' = IF holder = Process[w] THEN "free" ELSE holder

\* truncate throws, or the mapping, of no bytes or for other reasons; the
\* destructor of file_lock releases the lock.
Throw(w) == /\ pc[w] = "map" \/ (pc[w] = "truncate" /\ size[w] = 0)
            /\ Release(w)
            /\ Goto(w, "threw")
            /\ UNCHANGED <<release, lockFile, shm, fatal, mb, size, map, both, reading>>

Unlock(w) == /\ pc[w] = "unlock"
             /\ Release(w)
             /\ Goto(w, "close")
             /\ UNCHANGED <<release, lockFile, shm, fatal, mb, size, map, both, reading>>

\* The destructor of file_lock closes the descriptor.  A lock that another thread
\* of the process has taken since Unlock goes with it.
Close(w) == /\ pc[w] = "close"
            /\ Release(w)
            /\ Goto(w, "ready")
            /\ UNCHANGED <<release, lockFile, shm, fatal, mb, size, map, both, reading>>

\* MUTANT: a lock in shared memory (named_mutex) that outlives its process.
Dies_NamedMutex(w) ==
  LET siblings == {v \in Writers : Process[v] = Process[w]}
  IN /\ pc' = [v \in Writers |-> IF v \in siblings THEN "dead" ELSE pc[v]]
     /\ map' = [v \in Writers |-> IF v \in siblings THEN 0 ELSE map[v]]
     /\ fatal' = fatal \ {Process[w]}
     /\ UNCHANGED <<release, lockFile, shm, holder, mb, size, both, reading>>

\* The process of w ends: its lock and its mappings are gone.
Dies(w) == LET siblings == {v \in Writers : Process[v] = Process[w]}
           IN /\ pc' = [v \in Writers |-> IF v \in siblings THEN "dead" ELSE pc[v]]
              /\ map' = [v \in Writers |-> IF v \in siblings THEN 0 ELSE map[v]]
              /\ Release(w)
              /\ fatal' = fatal \ {Process[w]}
              /\ UNCHANGED <<release, lockFile, shm, mb, size, both, reading>>

\* ... after a FATAL line, or at any time.  (Where open_or_create fails, the null
\* pointer is used next unless the FATAL line ends the process: a crash too.)
Exit(w) == pc[w] = "exit" /\ Dies(w)
Crash(w) == pc[w] # "dead" /\ Dies(w)

WriterStep(w) == \/ Lock(w) \/ NoLockFile(w) \/ Size(w) \/ Truncate(w)
                 \/ Recheck(w) \/ Map(w) \/ Throw(w) \/ Unlock(w) \/ Close(w)
                 \/ Exit(w)
-----------------------------------------------------------------------------
(***************************************************************************)
(* ReadOnlySharedMemory.  At "open" it is in the constructor or in a Read  *)
(* that has found the segment unavailable, at "map" it is about to map, at *)
(* "idle" it has no call under way.                                        *)
(***************************************************************************)
RGoto(r, l) == rpc' = [rpc EXCEPT ![r] = l]

\* OpenSharedMemory: no segment, or one without bytes.
ROpenFails(r) == /\ rpc[r] = "open" /\ shm = 0
                 /\ RGoto(r, "idle")
                 /\ UNCHANGED <<release, lockFile, shm, writing, rmap, avail, copy>>

\* It is there and not empty.
ROpen(r) == /\ rpc[r] = "open" /\ shm # 0
            /\ RGoto(r, "map")
            /\ UNCHANGED <<release, lockFile, shm, writing, rmap, avail, copy>>

RMap(r) == /\ rpc[r] = "map" /\ shm # 0
           /\ rmap' = [rmap EXCEPT ![r] = shm]
           /\ avail' = avail \cup {r}
           /\ RGoto(r, "idle")
           /\ UNCHANGED <<release, lockFile, shm, writing, copy>>

\* The mapping throws, of no bytes or for other reasons, and nothing catches it.
RThrow(r) == /\ rpc[r] = "map"
             /\ RGoto(r, "threw")
             /\ UNCHANGED <<release, lockFile, shm, writing, rmap, avail, copy>>

\* MUTANT: a reader that has failed to open the segment does not try again.
Reopen_Not(r) == /\ rpc[r] = "idle" /\ r \notin avail
                 /\ UNCHANGED <<release, lockFile, shm, writing, rpc, rmap, avail, copy>>

\* Read without an available segment opens it first.
Reopen(r) == /\ rpc[r] = "idle" /\ r \notin avail
             /\ RGoto(r, "open")
             /\ UNCHANGED <<release, lockFile, shm, writing, rmap, avail, copy>>

\* node_info.offset + node_info.length <= mapped_region_->get_size()
InMapping(r, nd) == (nd.offset + nd.length) % Wrap64 <= rmap[r]

\* Read copies the node.  (The overload for vectors then returns false.)
Read(r) == \E nd \in Nodes :
             /\ rpc[r] = "idle" /\ r \in avail
             /\ InMapping(r, nd)
             /\ copy' = [copy EXCEPT ![r] = nd]
             /\ UNCHANGED <<release, lockFile, shm, writing, rpc, rmap, avail>>

\* The node has expired: nothing is copied.
Expired(r) == /\ rpc[r] = "idle" /\ r \in avail
              /\ UNCHANGED <<release, lockFile, shm, writing, rpc, rmap, avail, copy>>

\* It ends behind the mapping: the next Read opens the segment again.
Invalid(r) == \E nd \in Nodes :
                /\ rpc[r] = "idle" /\ r \in avail
                /\ ~InMapping(r, nd)
                /\ avail' = avail \ {r}
                /\ UNCHANGED <<release, lockFile, shm, writing, rpc, rmap, copy>>

ReaderStep(r) == \/ ROpenFails(r) \/ ROpen(r) \/ RMap(r) \/ RThrow(r) \/ Reopen(r)
                 \/ Read(r) \/ Expired(r) \/ Invalid(r)
-----------------------------------------------------------------------------
Next == \/ \E w \in Writers : WriterStep(w) \/ Crash(w)
        \/ \E r \in Readers : ReaderStep(r)

\* Threads run, and readers go on reading.
Spec == /\ Init /\ [][Next]_vars
        /\ \A w \in Writers : WF_vars(WriterStep(w))
        /\ \A r \in Readers : WF_vars(ReaderStep(r))
-----------------------------------------------------------------------------
\* The type invariant of the segment and its users.
TypeOK == /\ release \in BOOLEAN /\ lockFile \in BOOLEAN /\ both \in BOOLEAN
          /\ shm \in 0..(Wrap - 1)
          /\ holder \in {"free"} \cup {Process[w] : w \in Writers}
          /\ pc \in [Writers -> {"new", "size", "truncate", "recheck", "map", "unlock",
                                 "close", "exit", "ready", "threw", "dead"}]
          /\ mb \in [Writers -> Nat]
          /\ size \in [Writers -> 0..(Wrap - 1)]
          /\ map \in [Writers -> 0..(Wrap - 1)]
          /\ fatal \subseteq {Process[w] : w \in Writers}
          /\ rpc \in [Readers -> {"open", "map", "idle", "threw"}]
          /\ rmap \in [Readers -> 0..(Wrap - 1)]
          /\ avail \subseteq Readers
          /\ copy \in [Readers -> [offset : Nat, length : Nat]]

\* No mapping, of a writer or a reader, and nothing a reader copies reaches
\* behind the end of the segment, where an access is a bus error, unless two
\* threads of one process have opened it at the same time: the file lock does
\* not keep them apart.  Nodes whose end does not fit into 64 bits are excepted.
MappingBacked ==
  ~both => /\ \A w \in Writers : map[w] <= shm
           /\ \A r \in Readers :
                /\ rmap[r] <= shm
                /\ copy[r].offset + copy[r].length < Wrap64
                     => copy[r].offset + copy[r].length <= shm

\* A writer built for release whose constructor has returned has the size it
\* asked for, with the same exception and unless that size does not fit into
\* 32 bits.
SizeAsAsked ==
  release /\ ~both => \A w \in Writers :
     pc[w] = "ready" /\ mb[w] * MB < Wrap => map[w] = mb[w] * MB

\* The constructor of a writer returns, throws or ends the process, whoever
\* dies while holding the lock.
OpenReturns == \A w \in Writers : <>(pc[w] \in {"ready", "threw", "dead"})

\* A reader that came before the segment was there gets hold of it later, unless
\* the system refuses it the mapping, and with the same exception.
ReaderConnects ==
  \A r \in Readers : shm # 0 ~> r \in avail \/ rpc[r] = "threw" \/ both
=============================================================================
