---------------------------- MODULE MCSharedMemory ----------------------------
(***************************************************************************)
(* Processes and nodes of the instance of SharedMemory that TLC checks.    *)
(***************************************************************************)
EXTENDS SharedMemory

\* Two threads of one process and another process.
TwoAndOne == <<"p", "p", "q">>

\* An MB has two bytes and sizes wrap at 8: the first thread asks for 4 bytes
\* or for 10, which is computed as 2, the second for 2, and the other process
\* for 2 or for 8, which is computed as 0.
SomeAsks == <<{2, 5}, {1}, {1, 4}>>

\* A node in the first MB, one that ends in the second, and one whose end is
\* not a number of 64 bits.
SomeNodes == {[offset |-> 0, length |-> 2], [offset |-> 1, length |-> 2],
              [offset |-> 15, length |-> 3]}
=============================================================================
