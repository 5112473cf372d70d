# A TLA+ model of CppUtil

CppUtil is a library of independent C++ components.  This directory models the
ones whose correctness depends on interleavings, partial failures or long
sequences of calls, checks them with TLC on small instances, and proves the
central results about ten of them with TLAPS for every value of the constants.

Each module names the source file it models in its header; `PROJECT.json` maps
every definition to source lines, and lists runs, mutants, findings, hazards
and theorems.

## 1. Inventory

| Component | State | Operations | What is hard | What makes it correct |
|---|---|---|---|---|
| ThreadPool (`src/threadpool`) | `tasks_`, `stop_`, workers, one mutex, one condition variable | constructor, worker loop, `Enqueue`, destructor | `notify_one` after the unlock, tasks that enqueue or wait for others, destruction while tasks are queued | no lost wakeup; FIFO; the destructor drains and returns; every future gets an outcome |
| rcu_ptr (`src/rcu_ptr`) | one atomic `shared_ptr<const T>` | `Load`, `Store`, `Update` | CAS on addresses that are reused, a retry that runs `func` again | every operation is atomic; snapshots do not change |
| DoubleBuffer (`src/double_buffer`) | two buffers, `read_idx_`, writer mutex | `Load`, `Update`, `Reset` | `Load` is two steps; `use_count` polling; throwing updaters | readers and writers do not meet; both buffers end equal; `Update` returns |
| LockFreeStack (`src/lockfree`) | `head_`, links inside caller-owned nodes | `Push`, `Pop`, destructor | CAS loops, spurious failures, ABA | no node is lost or handed out twice |
| HTTP server (`src/http/http_server`) | per connection: request buffer, response and its read position, epoll registration | accept, read, write, close | edge-triggered events, partial reads and sends, resets, keep-alive | no lost event; no unit repeated or skipped; requests are answered |
| TCP relay server (`src/tcp/tcp_server`) | table of sockets, `is_stop_`, a thread | accept, relay, disconnect, `Stop` | edge-triggered events read once, short and failing writes | order per sender; `Stop` returns |
| TCP client (`src/tcp/tcp_client`) | socket, receive thread, one static buffer per process | connect, send, receive and print, disconnect | the receive thread against `Disconnect`, clients that share the buffer, reads that fill it | `Disconnect` returns; a client prints what it has read |
| FileAppender (`src/logger`) | stream, `last_hour_suffix_`, `history_files_`, mutex | `Init`, `Write` with `CutIfNeed` and `DeleteOverdueFile` | a test outside the mutex, crashes between rename and reopen, failing file operations, arithmetic on date digits | no line is destroyed, no line filed under an earlier hour, archives live as long as configured |
| Logger front end (`src/logger`) | level, two appenders, counters of the rate-limit macros | `Init`, `Log`, signal handlers, `LOG_EVERY_N` | signals that arrive while a line is written, FATAL lines of several threads, a counter tested and changed in separate steps, appenders whose Init failed | FATAL and signals end the process after a backtrace; every N-th call logs |
| RedisProxy (`src/redis_proxy`) | one hiredis connection | connect, single commands, pipelines | timeouts, late replies, pipelines that fail in the middle | replies belong to their commands; acknowledged writes hold; calls return |
| SegmentTree (`src/data_structure/segment_tree`) | sums and lazy marks | range update, point update, query | marks pushed down at different times | queries agree with the array |
| Ring buffer queue, Trie (`src/data_structure`) | containers | push, pop; insert, search | - | sequential |
| Shared memory segments (`src/lockfree/ipc_message_queue/shared_memory`) | a named segment, a lock file, mappings | open and size under the lock; open late, read | processes and threads that open at once, death with the lock held, sizes that wrap, reads through old mappings | nothing reaches behind the segment; opening ends; a reader connects in the end |
| json_helper (`src/json_helper`) | none that lasts | `Marshal`, `Unmarshal`, by recursion over the type | ranges and signs, uninitialised temporaries, exceptions half way, objects that hold old values | what comes back; `true` means all was read |
| IPC message queue (`src/lockfree/ipc_message_queue`) | - | unfinished, does not compile | - | not modelled |
| HTTP client, util | none that lasts | one blocking request; helpers | - | not modelled |

Interactions.  The components call one another little: all of them log, the
logger writes through FileAppender, TcpServer and TcpClient meet over a
socket (module TcpChat), and a FATAL line of the logger may end the opening of a
shared memory segment.  Inside a component the actors are threads that share
fields (pool, rcu_ptr, buffers, stack, appender, the clients' buffer), processes
that share a segment, or one thread and the kernel's sockets (the two servers,
the Redis client).

## 2. Plan

Done: the concurrent core (ThreadPool, rcu_ptr, DoubleBuffer, LockFreeStack),
the event loops (HTTP and TCP servers), the TCP client and its composition with
the server, FileAppender, Logger, RedisProxy, SegmentTree, the shared memory
segments and json_helper; proofs about ThreadPool, RcuPtr, DoubleBuffer,
LockFreeStack, SegmentTree, SharedMemory, TcpChat, HttpServer, FileAppender,
Logger and RedisProxy: every invariant that a run checks is proved, but those
of JsonHelper.

Next:

1. JsonHelper with recursive functions over the depth of a type in place of
   RECURSIVE operators, as in SegmentTree, and `RoundTrip` by induction over
   that depth;
2. action properties that the invariants already carry but that are not stated
   yet, such as that a Redis connection once closed is never read again;
3. `LOG_FIRST_N` beside `LOG_EVERY_N` in Logger.

## 3. Modules

| Module | Models | Abstract specification | Proofs |
|---|---|---|---|
| ThreadPool, MCThreadPool | `src/threadpool/threadpool.h` | Executor | ThreadPoolProofs |
| RcuPtr | `src/rcu_ptr/rcu_ptr.h` | AtomicCell | RcuPtrProofs |
| DoubleBuffer | `src/double_buffer/double_buffer.h` | - | DoubleBufferProofs |
| LockFreeStack | `src/lockfree/lockfree_stack.cpp` | - | DataStructureProofs |
| HttpServer, MCHttpServer | `src/http/http_server/*` | - | HttpServerProofs |
| TcpServer | `src/tcp/tcp_server/*` | - | - |
| TcpClient | `src/tcp/tcp_client/*` | - | - |
| TcpChat, MCTcpChat | TcpServer and TcpClient over sockets | - | NetworkProofs |
| FileAppender | `src/logger/file_appender.*` | - | LoggingProofs |
| Logger | `src/logger/logger.*`, `log.h`, `log_capture.cc` | - | LoggingProofs |
| RedisProxy | `src/redis_proxy/*` | - | NetworkProofs |
| SegmentTree | `src/data_structure/segment_tree/*` | (the array, as `arr`) | DataStructureProofs |
| SharedMemory, MCSharedMemory | `read_write_` and `read_only_shared_memory.h` | - | SharedMemoryProofs |
| JsonHelper, MCJsonHelper | `src/json_helper/*` | (`Kept`: which values come back) | - |

An operator whose name ends in `_Something` and whose comment begins with
MUTANT is no part of a specification: it is a plausible bug in the operator it
is named after, and a property must fail when it takes that operator's place.

**ThreadPool.**  One critical section is one step; `notify_one` and
`notify_all` are steps of their own, as in the code.  `wpc`, `cur` are the
workers, `call`, `arg` the threads inside `Enqueue` (clients and running
tasks), `owner` the destructor.  A task may wait for the futures of others
(`Awaits`); its worker is then `Blocked`, and a pool whose workers all are is
`Starved`.  `accepted` and `started` are histories.
`Executor` knows only futures and the phases open, closing, gone; the mapping
takes `future` for `status` and collapses the owner's positions to phases.

**RcuPtr.**  Objects lie at addresses; an address is free when no `shared_ptr`
holds it and may be used again.  A value of T is the sequence of operations
that made it, so a lost or repeated update shows.  `AtomicCell` applies each
operation in one step; the mapping reads through the pointers.  The pointer may
be empty; the `func` that is then handed `nullptr` is one that accepts it.

**DoubleBuffer.**  `Load` is two steps (index, copy of the pointer), `Update`
the steps lock, poll, take, write, swap and again poll, take, write.  An updater
may throw before or after its change.  `stale` remembers the readers that a
swap has overtaken between their two steps; `torn` that a throw has left the
buffers different.

**LockFreeStack.**  Loads, the link assignment and the CAS are separate steps; a
weak CAS may fail for no reason.  Popped nodes may be pushed again at once.
`stale` marks a Pop whose node was pushed again since it read it; once such a
Pop swaps (`aba`) the model stops.  Access to memory a caller has freed is not
modelled.

**HttpServer.**  One dispatched event is one step: `HandleReadable` is the recv,
`HttpRequest::OnReadable`, and for a complete request the handler that fills the
response; `HandleWriteable` is `HttpResponse::OnWriteable`, the send, Rollback,
and what `EpollSocket` does with the status.  Requests are sequences of tokens,
responses a number of units.  Edge-triggered epoll is the pair (`arm`, `edge`).

**TcpServer.**  The same view of sockets, but a socket is registered once.  A
message is a run of numbered units; every write may take a part.  The module has
the server's actions and its kernel side; `TcpChat` makes a system of them.

**TcpClient.**  The receive thread: the flag and select, memset, read, the zero
behind the data, split and print are separate steps, since all clients of a
process use one buffer.  `mixed` and `over` record the clients whose buffer
another one has used, and those that wrote behind it.  Every failure is the end
of the process with all its clients.  `Lines` is what `Split` keeps of a
text: all of it but the newlines.

**TcpChat.**  The server's `out` is what the clients read.  A socket holds
`SockCap` units, and a full or closed one makes the server's write come up short
or fail.  Disconnect leaves the socket open, as in the code.

**FileAppender.**  `Write` is prefix, unlocked test, lock, second test, rename,
reopen, expiry, unlock, lock, append.  `Suffix` computes the digits the code
compares, with the day for yyyymmdd.  Rename, open and remove may fail.  A crash
keeps only the disk.  `left` records the archives that nobody will remove any
more: those of a process that has died and those whose remove failed.

**Logger.**  A thread calls `Log` at some level or the macro `LOG_EVERY_N`, whose
four accesses to the counter are four steps.  `Log` passes through the two
appenders, of which only the mutex is kept (`locks`), and for FATAL through Backtrace.
A signal may hit a thread at any of these steps; the handler logs a FATAL line
from there and never returns to what it interrupted.  `app` holds what
`Logger::Init` left: no appender, an appender whose own Init failed ("raw", its
mutex possibly "garbage"), or one in order.  `begun` and `traced` record
backtraces, `mixed`, `since` and `wrapped` how calls of the macro overlapped.

**RedisProxy.**  A call is connect, send, replies, return.  The server executes
what was sent on a connection in order and at any time, also after the proxy
has closed it.  Commands carry the number of their call, so a reply that answers
another command shows.  A value stands for a payload and whether it is set with
`ex`; those in `Expiring` may vanish at any time after they were stored.

**SegmentTree.**  The member functions as functions of the tree (a record of sums
and marks), the node and the first element it covers, one for every height of a
node, each from the one below; checked against the array the tree stands for.
The length is `2^Height`, as the constructor demands.  A mark of 0 needs no early
return in `PushDown`: pushing it changes nothing.

**SharedMemory.**  `OpenSharedMemory` of a writer is lock, look at the size,
truncate, look again, map, unlock, close; each may be the last step of its
process.  A segment of size 0 and none at all are the same to both programs.  The
lock is one per process, and the first thread to unlock it, or to close a
descriptor of the lock file (`~file_lock` at the end of the function), takes it
from all.  `both` records that two threads of a process were inside at once.  A
thread that closes after it has unlocked may thus take the lock that a sibling
has just got, and another process comes in beside it; that is not in `both`, and
the properties hold of it, since the segment has its size by then.  Any mapping
may fail, a reader's too, and then throws.  FATAL lines follow `Logger::Log`: the
first of a release build ends the process, others are only logged.  A reader
opens, maps, and reads nodes given by offset and length; a node behind its
mapping makes it open the segment again.

**JsonHelper.**  Types are records, `Marshal` and `Unmarshal` recursive operators
over them that return what the code returns and what they leave in `root` or
the object.  Unmarshal may also throw (jsoncpp's conversions, `stoi` and its
kin), and a temporary that was never assigned is `Junk`.  An enumerator is cast to
int and back to its type, which is of any width and sign (`CastTo`).  `Kept` says,
from the value and the object alone, whether it will come back: of enumerators
all those of up to 32 bits do, and of wider ones those that int extends to.

## 4. Runs

All bounds are constants in the `.cfg` files.

| Run | Instance | Shows |
|---|---|---|
| threadpool | 2 workers, 2 clients, 3 tasks, two of which wait for the third | FIFO, no lost wakeup, futures, end of the destructor, refinement of Executor; two workers are needed for a notification to reach the wrong one and for all to wait, three tasks for a queue longer than one beside a running task |
| rcu_ptr | 2 updaters, 1 user, 6 addresses | atomicity, no ABA; six addresses never run out, and freed ones are used again |
| double_buffer | 2 readers, 2 updaters, 1 resetter | only overtaken readers meet a writer, buffers end equal, published values move forward by one update, Update returns |
| lockfree_stack | 2 threads, 3 nodes | until an ABA swap the chain from head_ is the stack, and each node is in the chain, with one caller or deleted; ABA needs a node with another beneath it and a third in its place |
| http_server | 1 connection, 5 scripts, responses of 2, 3, 5 and 6 units in chunks of 3 | no lost edge, right send position, responses cut in the last chunk only, requests answered; connections share nothing but the loop |
| tcp_chat | 2 clients of one process that send 3 and 1 units, reads and sockets of 2 units | order, stalls only behind a full read, clients print what they read, every join returns; two clients share the buffer, and three units fill a buffer, a socket and a read and leave one over |
| file_appender | 2 threads, hours 0 to 3 in days of three hours, 3 lines, 1 crash | no line destroyed or filed early, no archive kept too long but those left by a crash or a failed remove, none removed too early within a day, Write returns; midnight comes once |
| logger | 2 threads, N = 3, a counter modulo 8, 2 lines, 8 calls of the macro, 1 signal | FATAL and signals end the process unless a thread is stuck at a mutex, no exit without a backtrace, the macro falls silent only after its counter wrapped or N signals came; three calls one by one and two that overlap make it wrap, three more show the silence |
| redis_proxy | 1 key, 2 values of which one expires, 3 calls, pipelines of 2 | replies belong to their commands, acknowledged writes hold until they expire, calls return; three calls are a timed-out one, one that is overtaken by its late commands, and one that reads |
| segment_tree | height 2 (4 elements), increments 1 and 3, 4 operations | queries agree with the array until a point update goes below a mark; three levels let a mark be pushed twice |
| shared_memory | 2 threads of a process, 1 other process, 1 reader; an MB of 2 bytes, sizes modulo 8, node ends modulo 16; both builds, with and without the lock file | no mapping or read behind the segment, sizes as asked, opening ends, the reader connects; sizes that agree, differ, wrap, and wrap to 0 |
| json | integers of 2 and 3 bits for 32 and 64, 33 types nested up to twice, values at the ends of their ranges, all enumerators of 1, 2 and 3 bits, containers of up to 2 elements, JSON of depth up to 3 | which values survive the way to JSON and back, and that `true` means read; of the widths it matters only which is smaller |

`CHECK_DEADLOCK FALSE` stands where the system may stop: clients that have
nothing left to do, a server that has exited, an exhausted bound.  ThreadPool
and RcuPtr are checked for deadlock.

### Fairness

- ThreadPool: weak fairness of each worker, each thread inside `Enqueue` and the
  owner inside the destructor.  Each stands for a thread that the scheduler
  runs, a task that ends, and a mutex that is always released after a few
  instructions.  Nobody is obliged to call `Enqueue` or to destroy the pool.
- DoubleBuffer: readers give their pointers back (what the README of the
  component asks of them), writers run, and strong fairness of the mutex:
  `std::mutex` promises no order, but does not withhold itself for ever.
- HttpServer, TcpChat: weak fairness of the loop per connection (epoll_wait
  reports up to a batch of ready sockets and the loop goes through all), of the
  flag test (epoll_wait has a timeout of one second) and, for HTTP, of clients
  that read.  Clients need not send or close.  In TcpChat the clients' receive
  threads run as well (select has a timeout of one second).
- SharedMemory: weak fairness of each writer's thread until its constructor has
  returned, and of readers, which keep calling Read.  Nobody is obliged to die.
- FileAppender: weak fairness of each writer.  Weak is enough since the lines
  are bounded and so the mutex is eventually free for good.
- Logger: weak fairness of each thread inside `Log` or the macro, for the same
  reason.  Calls and signals need not come.
- RedisProxy: weak fairness of the caller's thread, read timeout included (the
  timeout is always set before a command is sent); none of the server.

## 5. Proofs

**ThreadPoolProofs** proves for any set of workers, clients and tasks, from
`ThreadAssumption` (there is a worker; workers and clients are different
threads; `None` is no task; tasks wait for tasks):

- `TypeCorrect`, `WakeupsKept`, `JoinFindsNoSleeper`, `DestructorDrains`,
  `Fifo`: the invariants TypeOK, NoLostWakeup, NoSleeperAtJoin,
  DrainedAtDestruction and FifoExactlyOnce (the first, third and fourth are
  proved only: no run repeats what the proof shows for every instance);
- `Refinement`: every behaviour of the pool is one of Executor.

The inductive invariant `Inv` says where a task without outcome is: with a
caller before the push, in the queue, or with the worker that runs it
(`OpenTaskIsSomewhere`), in one place only (`PlacesAreDisjoint`), and places
hold only such tasks (`PlacesHoldOpenTasks`).  Together with "an exited worker
saw stop_ and an empty queue, and nobody pushes once stop_ is set"
(`ExitedMeansDrained`, `OwnerOrder`) this gives DrainedAtDestruction, which by
itself is not inductive: it says nothing about the states before the last join.
NoLostWakeup needs `ExitedMeansDrained` for the same reason.  FIFO rests on a
second invariant (`FifoInv`): no accepted task has an unused future or is still with a
caller, so none is accepted twice.

**RcuPtrProofs** proves for any threads and addresses, from `RcuAssumption`
(updaters and users are different threads; `Null` is neither an address nor a
value):

- `NoAba` (SwapIsCurrent), `Immutable` (SnapshotsAreImmutable), `TypeCorrect`;
- `Refinement`: rcu_ptr implements AtomicCell.

The invariant: a deep copy is reachable from its updater only
(`DeepIsPrivate`), and it holds the copied object, before `func` unchanged and
after it with one operation more (`DeepFollowsCopy`).  SwapIsCurrent alone is
not inductive, since it says nothing of an updater before its CAS.  That an
address in `sp_copy` is not free is what excludes ABA.

**DoubleBufferProofs** proves for any finite sets of readers and writers (use
counts are cardinalities; threads of one process are finitely many) and any
number of loads:

- `ReadersUndisturbed` (OnlyOvertakenReadersConflict), `BuffersAgree`
  (BothBuffersCurrent), `Monotone` (PublishedMovesForward), `TypeCorrect`.

The invariant ties each writer's position to the buffer it holds and the round
it is in (`WriterHolds`), the mutex to the one writer inside (`MutexOwned`), the
readers that no swap has overtaken to the published buffer
(`ReadersOnPublished`), and the contents of both buffers to the log of updates
(`BuffersFollowLog`).  The step that matters is the end of the polling loop: a
use count of 1 means that nobody else holds the buffer (`UseCountOne`), and only
a reader that already has the index, and will therefore be overtaken, can take
it afterwards.  `BothBuffersCurrent` speaks only of states without a writer
inside; how far each buffer has come in the middle is what the proof needs.

**DataStructureProofs** proves of LockFreeStack, for any threads and nodes:

- `ChainIntact` (OnlyAbaBreaksChain), `Conservation` (NodesConserved),
  `TypeCorrect`.

Each node is in exactly one place (`NodeSomewhere`, `NodeOnce`), and a Pop that
has read the link of its node still has the right link as long as the node is
on the stack and was not pushed again (`Positions`).  Together they say that a
successful CAS of a Pop that is not stale removes the top node and leaves the
chain of the rest.  NodesConserved counts what a walk along the links from head_
reaches (`Reached`, a least fixed point), not the history `stack`; that the two
are the same nodes is `WalkIsStack`, by induction along the stack.  Both theorems
except the state after a stale swap (`aba`): there head_ may be a node that a
caller owns, and nodes may be lost.

Of SegmentTree it proves, for a tree of any height, any integer increments and
any number of operations, from `SegmentTreeAssumption` (types only):

- `QueriesCorrect` (QueriesAgree).

`StandsFor(h, t, n, a, A)` says that node n of height h, which covers the elements
from a on, stands for array A there: its sum is A's, and its children stand for A
less the node's mark.  The invariant `TreeInv` is that the root stands for `arr`
until a point update has gone below a mark; QueriesAgree speaks of the results
only and says nothing of the marks an update leaves behind.  Four kinds of lemmas
carry the proof.  `Covers` fixes where a node lies from its number
(`n * Size[h] = Length - 1 + a`), so that no index leaves the arrays
(`CoversType`, `CoversBelow`).  `Below` is the set of the nodes under one; those
under two siblings are disjoint (`BelowDisjoint`), and what a node stands for
depends on nothing else (`StandsLocal`).  `NodeStands`, `PushDownStands` and
`PushUpStands` say what marking, pushing down and pushing up do.  `AddsLevel`,
`AsksLevel` and `AddsAtLevel` take one operation from one height to the next;
`RangeAdded`, `RangeAsked` and `PointAdded` conclude for the root by induction.
The point update wants that no node above its leaf has a mark: the exception in
the property is the hypothesis of the proof.

Induction over the naturals is proved here (`Induction`) for a set of numbers,
from the least element that `WFMin` yields for every non-empty set; the
library's schemes take an operator and cannot be cited.  A recursive function is
a CHOOSE; that its equation has a solution is proved by the same induction
(`StandExist`, `AddsExist`, `AsksExist`, `CutsExist` and their like).

**SharedMemoryProofs** proves for any processes, threads, readers, sizes and
widths, from `ShmAssumption` (sizes are positive; "free" is no process):

- `NoBusError` (MappingBacked), `AskedSize` (SizeAsAsked), `SizingExclusive`,
  `TypeCorrect`.

The lock does not give mutual exclusion: a closed descriptor may take it from a
thread inside.  What it gives is `OneInside`: as long as no two threads of one
process were inside at once, everybody inside has the lock while the segment has
no size, for whoever unlocks or closes has mapped it.  Further, a set `receive_fatal_` belongs to a process that is leaving
(`FatalExits`), and what a writer saw of the segment is still true (`SeenSize`).
The size therefore changes only from 0, and no mapping is ever cut short.

**NetworkProofs** proves of the relay server and its clients (TcpChat), for any clients, amounts of
data and sizes of writes, from `ChatAssumption` (buffer and sockets hold at
least one unit; no unit that a client sends is a zero byte):

- `InOrder` (RelayInOrder), `StallsBehindFullReads` (StallNeedsFullRead),
  `PrintsAll` (PrintsWhatItReads).

A socket's input is the last part of what its client has sent (`InputInOrder`),
and nothing is written to anyone that has not been read (`OutputRead`): what a
short write leaves out is skipped, never sent later, so order is kept.  Without
the two, RelayInOrder does not survive a relay, as it says nothing of units that
are still unread.

PrintsWhatItReads needs to know what is in the buffer from the read to the print:
for a client that is alone with it and has not filled it, the units it has taken
last and zeros behind them (`BufferHolds`).  The string the split finds is then
exactly those units (`StringRead`; here a zero byte among them would matter), and
what is printed of a text and of one that follows it is what is printed of both
together (`LinesConcat`, by induction over the second), so it does not matter how
the stream was cut.  A step of one client leaves the others' buffer alone or
counts them as mixed (`OthersSound`), and what the server writes only extends
what there is to read (`WritesGrow`, `Untouched`).

The same module proves of RedisProxy, for any calls, keys,
values and lengths of pipelines, from `RedisAssumption` (`None` is no value,
the expiring values are values, and there is room for a call and a command):

- `RepliesOwn` (RepliesAreOwn), `AcknowledgedHolds` (AcknowledgedSetHolds).

The connection is clean outside a call (`CleanBetweenCalls`); inside one, the
replies read, the replies at hand and the commands on their way are, in this
order, the commands of the call (`AnswersInOrder`).  A Set on its way on a closed
connection belongs to a call that returned false (`LateIsUnsure`), so what the
server executes late changes no other key.  `StoreKnown` follows a key through
the call: it holds what was acknowledged last or what the last executed Set of
the pipeline has put there, unless the server refused one, and then the call
returns false.  Only what was set with an expiry expires (`ExpiredByRight`).
AcknowledgedSetHolds speaks of the states between calls only and
is not inductive.

**HttpServerProofs** proves for any connections, scripts, responses and chunk
sizes, from `HttpAssumption` (scripts are sequences of tokens; the buffers are
not empty):

- `CursorExact` (CursorTracksSocket), `CutBounded` (OnlyLastChunkCut),
  `EdgesKept` (NoLostEdge), `TypeCorrect`.

The invariant is one predicate on a connection, `Good`; events of one
connection leave the others alone (`SetGood`).  Besides the three properties it
says that a connection armed for output is in the middle of a response
(`Writing`) and that new ones are armed for input: that is why the first send of
a response starts at its beginning.

**LoggingProofs** proves of FileAppender, for any writers, hours, lines, crashes and
retention, and days of up to 100 hours, from `AppenderAssumption` ("free" is no
writer):

- `FiledInTime` (NeverFiledEarly), `OverdueRemoved` (NoOverdueKept),
  `LinesSurvive` (NoLineDestroyed), `YoungKept` (YoungArchiveKept),
  `TypeCorrect`.

Suffixes are first shown to be in the order of their hours, at least as far
apart as these, and on one day equally far apart (`SuffixGap`, `SuffixOrder`);
the steps use nothing else about the digits.  The invariant orders line, writer,
file and clock by their suffixes (`SeenInOrder`, `FileInOrder`), keeps archives
before the file's own hour unless a cut is under way (`ArchivesPast`), and
recorded archives within the retention (`HistoryFresh`).  NoOverdueKept is about
the disk: every archive there is on record, is being recorded or is in `left`
(`Recorded`).  A rename therefore
finds its name unused (`NameFree`), because the test was repeated under the
mutex; after a restart it does because the new process takes the current hour.

Of Logger it proves, for any threads, levels and
signals, from `LoggerAssumption` (finitely many threads, which are no values of
the mutex; N is at least 1 and fits the counter):

- `ExitTraced` (ExitLeavesTrace), `EveryNth` (OnlyUnderflowSilences),
  `LoggerTypes`.

ExitLeavesTrace needs that a handler only logs, at level FATAL, and that a set
`receive_fatal_` means a backtrace has begun (`HandlersLog`).
OnlyUnderflowSilences is about the macro's counter.  It stays below N plus the
callers between increment and subtraction plus the calls a signal cut off there
(`CountBounded`, which counts threads and therefore wants them finite); calls
that do not overlap are in the macro one at a time (`OneCaller`); and after s of
them without a line the counter is at s + 1 or more, up to N, or it is above N
by as much (`Follows`, `SinceFollowed`), so the N-th finds it where it logs.
The proof showed two cases that the property must except and that no run had met:
N signals, each between an increment and its subtraction, leave the counter N
too high, and the increment may itself wrap the counter to 0.

LoggingProofs, NetworkProofs and DataStructureProofs each extend two components,
so Logger, RedisProxy and SegmentTree name their state and their specification
apart from the other (`LoggerSpec` and `TreeSpec` beside `Spec`, `ProxySpec`
beside `ChatSpec`).  The assumptions on
constants are evaluated by TLC in the run of each component.

Only model-checked:

- all liveness properties (the provers do not handle fairness here);
- `RoundTrip` and `TrueMeansRead` of JsonHelper: `Marshal` and `Unmarshal` are
  RECURSIVE operators that call each other over types, and the prover has no SMT
  backend in a module that reaches such an operator.

## 6. Findings

Shown by a passing run whose property excepts exactly the case:

- http_server: a partial send of the last chunk ends the response
  (`http_epoll_event_handler.cpp:85`); the rest is lost;
- file_appender: retention is added to date digits (`file_appender.cc:154`);
  the first cut after midnight removes all archives of the day before;
- double_buffer: `Load` (`double_buffer.h:39`) may be overtaken between index
  and copy; the reader then reads a buffer that a writer is changing;
- logger: two threads may subtract N for the same N calls, the unsigned counter
  wraps (`log.h:34`), and the macro is silent for a very long time (the same
  happens when N signals each cut off a call before its subtraction);
- logger: a signal that hits a thread inside `FileAppender::Write` makes its
  handler wait for the mutex the thread holds (`logger.cc:45`), and an appender
  whose Init failed stays in use with an uninitialised mutex (`logger.cc:114`);
- segment_tree: a point update below a lazy mark gives wrong sums
  (`segment_tree.cc:61`);
- tcp_chat: what does not fit one read stays unread until the client sends
  more (`tcp_server.cc:175`);
- tcp_chat: clients of one process share a static buffer (`tcp_client.cc:91`),
  and a read that fills it puts the zero behind it (105);
- shared_memory: sizes of 4096 MB and more wrap (`read_write_shared_memory.h:90`);
  the file lock does not keep threads of one process apart (96);
- json: empty containers do not come back (`marshal.h:168`); structures from
  something that is no object, numbers out of range and odd member names throw
  instead of returning false (`unmarshal.h:93`);
- http_server: on a kept-alive connection whose response ends at a chunk
  boundary the request is not cleared, and no later request is answered.

Without a run: a POST with a body is never complete (`http_request.cpp:101`);
log files are cut without RetainHours as well (`file_appender.cc:92`); `Read` of
a read-only segment into a vector returns false after success
(`read_only_shared_memory.h:37`); `Unmarshal` into `std::map<uint32_t, T>` does
not compile (`unmarshal.h:330`); `RandInt` excludes its upper end
(`random.h:16`).

## 7. Not modelled

- Memory models weaker than sequential consistency.  The atomics of
  LockFreeStack use the default order; rcu_ptr uses release and consume on one
  variable; `last_hour_suffix_` is read in a race, as a load of the old or the
  new value.
- Reads of freed nodes in LockFreeStack, and a `func` of rcu_ptr that
  dereferences nullptr: both are the caller's duty.
- Formatting, printing, header and URL parsing, backtraces, the text of JSON,
  the precision of floating-point numbers, TOML, string helpers.
- Misuse of the TCP server: its destructor joins without setting `is_stop_`, and
  a second Stop joins a thread that is gone.  The interruption of `epoll_wait`
  by a signal ends the HTTP server's loop; liveness is stated for a loop that
  runs.
- Archives of an earlier process: `history_files_` is empty after a restart, so
  they are never removed, and no document says that they should be.
- Set-up failures of the servers before their loops run.
- `Logger::Init` while other threads log: Logger starts after it, with each of
  its outcomes.  exit(0) is one step: destructors that run during it are left out.
- In FileAppender a failing mkdir or stat at start, the lengths of months, and
  `is_cut_` = false, which is the behaviour in which the clock never leaves an
  hour.
- The HTTP client (one blocking request whose substance is its text), Trie and
  ring buffer queue (small sequential containers nobody else uses, covered by
  their unit tests), util (stateless).
- The IPC message queue above the segments.  It does not compile:
  `ring_buffer_shared_memory.h` declares `current_size_bytes` twice (90, 95),
  and `IpcMessageQueue` constructs a `RingBufferSharedMemory` with an argument
  missing; its Read and Write are declared only.
- Vendored libraries.  What hiredis, jsoncpp, boost::interprocess, epoll, sockets,
  the file system and the standard library do is modelled from how the code uses them
  and marked external in `PROJECT.json`.
