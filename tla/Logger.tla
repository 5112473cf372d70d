-------------------------------- MODULE Logger --------------------------------
(***************************************************************************)
(* logger::Logger (src/logger): the calls of Log by several threads, the   *)
(* FATAL level and the signal handlers that end the process, and the macro *)
(* that logs every N-th time.  The two appenders, for all lines and for    *)
(* FATAL lines, are modelled by their mutex: what they do with a line is   *)
(* the matter of module FileAppender.                                      *)
(*                                                                         *)
(* Logger::Init runs before there are other threads.                       *)
(***************************************************************************)
EXTENDS Integers, FiniteSets

CONSTANTS Threads,
          Levels,      \* levels of the plain calls, of 0 (DEBUG) .. 4 (FATAL)
          Priorities,  \* what Init may set priority_ to, of 0 (its default) .. 3
          N,           \* of LOG_INFO_EVERY(N)
          Wrap,        \* its counter counts modulo Wrap, 2^32 in the code
          MaxCalls,    \* bound: plain calls of Log
          MaxEvery,    \* bound: calls of the macro
          MaxSignals   \* bound: signals delivered

INFO == 1
FATAL == 4

ASSUME LoggerAssumption == /\ Levels \subseteq 0..FATAL
                           /\ Priorities \subseteq 0..3
                           /\ {Wrap, MaxCalls, MaxEvery, MaxSignals} \subseteq Nat
                           /\ N \in 1..(Wrap - 1)
                           /\ Threads \cap {"free", "garbage"} = {}
                           /\ IsFiniteSet(Threads)

VARIABLES
  release,   \* built with NDEBUG
  app,       \* file_appender_ and crash_file_appender_: "null", "raw" (made,
             \* its Init failed) or "ready"
  priority,  \* priority_
  locks,     \* write_mutex_ of each: its holder, "free", or "garbage"
  exited,    \* exit(0) was called
  at,        \* where each thread is
  lvl,       \* the level a thread logs at
  trace,     \* threads that log the lines of Backtrace
  handler,   \* threads in the signal handler
  fatal,     \* receive_fatal_
  cnt,       \* cnt of the macro
  calls,     \* plain calls so far
  every,     \* calls of the macro so far
  signals,   \* signals so far
  begun,     \* history: threads that have entered Backtrace and not left it
  traced,    \* history: a Backtrace has returned
  mixed,     \* history: calls of the macro overlap
  since,     \* history: calls of the macro since it logged or calls overlapped
  wrapped    \* history: cnt has wrapped, mostly by N taken off less than N

loggerVars == <<release, app, priority, locks, exited, at, lvl, trace, handler,
                fatal, cnt, calls, every, signals, begun, traced, mixed, since, wrapped>>
config == <<release, app, priority>>
macro == <<cnt, every, mixed, since, wrapped>>
ending == <<handler, signals, fatal, begun, traced, exited>>

\* What Init leaves behind: nothing (no configuration or no FileName), one
\* appender without its Init, one with and one without, or both.
Setups == { [file |-> "null", crash |-> "null"], [file |-> "raw", crash |-> "null"],
            [file |-> "ready", crash |-> "raw"], [file |-> "ready", crash |-> "ready"] }

\* The mutex of an appender whose Init failed is not initialised either.
LoggerInit == /\ release \in BOOLEAN
              /\ app \in Setups
              /\ priority \in Priorities
              /\ locks \in [{"file", "crash"} -> {"free", "garbage"}]
              /\ \A k \in {"file", "crash"} : locks[k] = "garbage" => app[k] = "raw"
              /\ exited = FALSE
              /\ at = [t \in Threads |-> "idle"]
              /\ lvl = [t \in Threads |-> INFO]
              /\ trace = {} /\ handler = {} /\ fatal = FALSE
              /\ cnt = 0 /\ calls = 0 /\ every = 0 /\ signals = 0
              /\ begun = {} /\ traced = FALSE
              /\ mixed = FALSE /\ since = 0 /\ wrapped = FALSE

Jump(t, l) == at' = [at EXCEPT ![t] = l]

At(t, l) == ~exited /\ at[t] = l
-----------------------------------------------------------------------------
(***************************************************************************)
(* __LOG_EVERY_N__: four accesses to the atomic counter.                   *)
(***************************************************************************)
Inside(t) == at[t] \in {"test", "sub", "hit"}
OthersInside(t) == \E u \in Threads \ {t} : Inside(u)

\* ++cnt
Increment(t) == /\ At(t, "idle") /\ every < MaxEvery
                /\ cnt' = (cnt + 1) % Wrap
                /\ wrapped' = (wrapped \/ cnt + 1 = Wrap)
                /\ mixed' = (mixed \/ OthersInside(t))
                /\ every' = every + 1
                /\ Jump(t, "test")
                /\ UNCHANGED <<config, locks, lvl, trace, ending, calls, since>>

\* if (cnt > N)
TestCount(t) == /\ At(t, "test")
                /\ Jump(t, IF cnt > N THEN "sub" ELSE "hit")
                /\ UNCHANGED <<config, locks, lvl, trace, ending, macro, calls>>

\* MUTANT: cnt = 0
Subtract_Zero(t) == /\ At(t, "sub")
                    /\ cnt' = 0
                    /\ Jump(t, "hit")
                    /\ UNCHANGED <<config, locks, lvl, trace, ending, calls, every,
                                   mixed, since, wrapped>>

\* cnt -= N
Subtract(t) == /\ At(t, "sub")
               /\ cnt' = (cnt - N) % Wrap
               /\ wrapped' = (wrapped \/ cnt < N)
               /\ Jump(t, "hit")
               /\ UNCHANGED <<config, locks, lvl, trace, ending, calls, every, mixed,
                              since>>

\* if (cnt == 1) log
Hit(t) == /\ At(t, "hit")
          /\ mixed' = (mixed /\ OthersInside(t))
          /\ \/ /\ cnt = 1
                /\ since' = 0
                /\ lvl' = [lvl EXCEPT ![t] = INFO]
                /\ Jump(t, "enter")
             \/ /\ cnt # 1
                /\ since' = IF mixed THEN 0 ELSE since + 1
                /\ Jump(t, "idle")
                /\ UNCHANGED lvl
          /\ UNCHANGED <<config, locks, trace, ending, calls, every, cnt, wrapped>>
-----------------------------------------------------------------------------
(***************************************************************************)
(* Logger::Log.                                                            *)
(***************************************************************************)
Call(t) == /\ At(t, "idle") /\ calls < MaxCalls
           /\ \E l \in Levels : lvl' = [lvl EXCEPT ![t] = l]
           /\ calls' = calls + 1
           /\ Jump(t, "enter")
           /\ UNCHANGED <<config, locks, trace, ending, macro>>

\* MUTANT: the handler returns to the code that was interrupted.
Return_Resume(t) == Jump(t, "idle") /\ UNCHANGED exited

\* Log returns, to its caller or to the handler, which calls exit(0).
Return(t) == IF t \in handler THEN exited' = TRUE /\ UNCHANGED at
             ELSE Jump(t, "idle") /\ UNCHANGED exited

\* Lines below priority_ are dropped; others are printed, if due, and go on.
Enter(t) == /\ At(t, "enter")
            /\ \/ /\ lvl[t] < priority
                  /\ Return(t)
               \/ /\ lvl[t] >= priority
                  /\ Jump(t, "file")
                  /\ UNCHANGED exited
            /\ UNCHANGED <<config, locks, lvl, trace, handler, signals, fatal,
                           begun, traced, macro, calls>>

\* All lines go to the file; FATAL lines and Backtrace also to the crash file.
Wanted(t, k) == /\ app[k] # "null"
                /\ k = "crash" => t \in trace \/ lvl[t] = FATAL

After(k) == IF k = "file" THEN "crash" ELSE "done"
Held(k) == IF k = "file" THEN "fileHeld" ELSE "crashHeld"

Skip(t, k) == /\ At(t, k) /\ ~Wanted(t, k)
              /\ Jump(t, After(k))
              /\ UNCHANGED <<config, locks, lvl, trace, ending, macro, calls>>

\* FileAppender::Write takes the mutex ...
LockAppender(t, k) == /\ At(t, k) /\ Wanted(t, k) /\ locks[k] = "free"
                      /\ locks' = [locks EXCEPT ![k] = t]
                      /\ Jump(t, Held(k))
                      /\ UNCHANGED <<config, lvl, trace, ending, macro, calls>>

\* ... and releases it.
UnlockAppender(t, k) == /\ At(t, Held(k))
                        /\ locks' = [locks EXCEPT ![k] = "free"]
                        /\ Jump(t, After(k))
                        /\ UNCHANGED <<config, lvl, trace, ending, macro, calls>>

\* A line that is not FATAL: Log returns.
Logged(t) == /\ At(t, "done") /\ t \notin trace /\ lvl[t] # FATAL
             /\ Return(t)
             /\ UNCHANGED <<config, locks, lvl, trace, handler, signals, fatal,
                            begun, traced, macro, calls>>

\* A FATAL line enters Backtrace, in a release build only the first one.
EnterBacktrace(t) == /\ At(t, "done") /\ t \notin trace /\ lvl[t] = FATAL
                     /\ ~release \/ ~fatal
                     /\ fatal' = (fatal \/ release)
                     /\ begun' = begun \cup {t}
                     /\ Jump(t, "dump")
                     /\ UNCHANGED <<config, locks, lvl, trace, handler, signals,
                                    traced, exited, macro, calls>>

\* MUTANT: whoever comes second exits.
SecondFatal_Exit(t) == /\ At(t, "done") /\ t \notin trace /\ lvl[t] = FATAL
                       /\ release /\ fatal
                       /\ exited' = TRUE
                       /\ UNCHANGED <<at, config, locks, lvl, trace, handler,
                                      signals, fatal, begun, traced, macro, calls>>

\* Whoever comes second in a release build returns from Log.
SecondFatal(t) == /\ At(t, "done") /\ t \notin trace /\ lvl[t] = FATAL
                  /\ release /\ fatal
                  /\ Return(t)
                  /\ UNCHANGED <<config, locks, lvl, trace, handler, signals,
                                 fatal, begun, traced, macro, calls>>

\* The stack is written to both files, or cannot be dumped.
Dump(t) == /\ At(t, "dump")
           /\ trace' = trace \cup {t}
           /\ \E l \in {"file", "done"} : Jump(t, l)
           /\ UNCHANGED <<config, locks, lvl, ending, macro, calls>>

\* Backtrace returns: exit(0) in a release build, else Log returns.
LeaveBacktrace(t) == /\ At(t, "done") /\ t \in trace
                     /\ trace' = trace \ {t}
                     /\ begun' = begun \ {t}
                     /\ traced' = TRUE
                     /\ IF release THEN exited' = TRUE /\ UNCHANGED at
                        ELSE Return(t)
                     /\ UNCHANGED <<config, locks, lvl, handler, signals, fatal,
                                    macro, calls>>
-----------------------------------------------------------------------------
\* SIGSEGV or another signal with a handler hits a thread wherever it is; the
\* handler calls Log and never returns.
Signal(t) == /\ ~exited /\ signals < MaxSignals /\ t \notin handler
             /\ signals' = signals + 1
             /\ handler' = handler \cup {t}
             /\ lvl' = [lvl EXCEPT ![t] = FATAL]
             /\ trace' = trace \ {t}
             /\ since' = IF Inside(t) THEN 0 ELSE since
             /\ Jump(t, "enter")
             /\ UNCHANGED <<config, locks, fatal, begun, traced, exited, calls,
                            every, cnt, mixed, wrapped>>
-----------------------------------------------------------------------------
WriteAppender(t) == \E k \in {"file", "crash"} :
                       Skip(t, k) \/ LockAppender(t, k) \/ UnlockAppender(t, k)

LoggerStep(t) == \/ TestCount(t) \/ Subtract(t) \/ Hit(t)
                 \/ Enter(t) \/ WriteAppender(t) \/ Logged(t)
                 \/ EnterBacktrace(t) \/ SecondFatal(t) \/ Dump(t) \/ LeaveBacktrace(t)

LoggerNext == \E t \in Threads : Increment(t) \/ Call(t) \/ LoggerStep(t) \/ Signal(t)

\* A thread inside Log or the macro is scheduled, and takes a mutex that stays
\* free.  Calls and signals need not come.
LoggerSpec == /\ LoggerInit /\ [][LoggerNext]_loggerVars
              /\ \A t \in Threads : WF_loggerVars(LoggerStep(t))
-----------------------------------------------------------------------------
\* The type invariant of the logger and the threads around it.
LoggerTypeOK == /\ release \in BOOLEAN /\ app \in Setups /\ priority \in 0..3
                /\ locks \in [{"file", "crash"} -> Threads \cup {"free", "garbage"}]
                /\ at \in [Threads -> {"idle", "test", "sub", "hit", "enter", "file",
                              "fileHeld", "crash", "crashHeld", "done", "dump"}]
                /\ lvl \in [Threads -> 0..FATAL]
                /\ {trace, handler, begun} \subseteq SUBSET Threads
                /\ {fatal, traced, mixed, wrapped, exited} \subseteq BOOLEAN
                /\ cnt \in 0..(Wrap - 1)
                /\ calls \in 0..MaxCalls /\ every \in 0..MaxEvery
                /\ signals \in 0..MaxSignals
                /\ since \in Nat

\* LOG_EVERY_N logs at least every N-th of the calls that do not overlap,
\* whatever overlapping calls came before, unless two of those have taken N off
\* the counter for the same N calls and made it wrap, or N calls have been cut
\* off by signals before they could take N off.
OnlyUnderflowSilences == since < N \/ wrapped \/ signals >= N

\* A thread waits for a mutex that it holds itself (the signal came while it
\* was writing), or that was never initialised.
Stuck == \E t \in Threads, k \in {"file", "crash"} :
            At(t, k) /\ Wanted(t, k) /\ locks[k] \in {t, "garbage"}

\* "Exiting due to ...": a signal that is handled, and in a release build a
\* FATAL line, ends the process, unless a thread is stuck at a mutex.
FatalEnds == handler # {} \/ (release /\ fatal) ~> exited \/ Stuck

\* FATAL "prints the stack and exits": the process does not exit before a
\* Backtrace has returned, except by a signal handler that found another
\* Backtrace begun.
ExitLeavesTrace == exited => traced \/ (begun # {} /\ handler # {})
=============================================================================
