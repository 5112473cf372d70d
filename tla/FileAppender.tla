----------------------------- MODULE FileAppender -----------------------------
(***************************************************************************)
(* logger::FileAppender (src/logger): threads append lines to one log      *)
(* file.  The first write of a new hour renames the file to                *)
(* <file>.<yyyymmddhh>, opens a new one and removes the archives that have *)
(* become too old.  The hour is tested without the mutex and again with    *)
(* it.  The process may die at any step; its next incarnation appends to   *)
(* the file it finds and knows nothing of the archives.                    *)
(*                                                                         *)
(* Time is counted in hours.  A line is the pair <<hour, number>>: the     *)
(* hour in its prefix and a number that tells the lines apart.             *)
(***************************************************************************)
EXTENDS Naturals, FiniteSets

CONSTANTS Writers,
          RetainHours,  \* retain_hours_
          HoursPerDay,  \* 24
          MaxHour,      \* bound: the last hour of the clock
          MaxLines,     \* bound: lines written
          MaxCrashes    \* bound: deaths of the process

ASSUME AppenderAssumption ==
  /\ {RetainHours, MaxHour, MaxLines, MaxCrashes} \subseteq Nat
  /\ HoursPerDay \in 1..100
  /\ "free" \notin Writers

VARIABLES now,      \* the clock
          up,       \* the process is alive and Init has returned true
          isOpen,   \* file_stream_.is_open()
          last,     \* last_hour_suffix_
          history,  \* history_files_
          mutex,    \* holder of write_mutex_, or "free"
          pc,       \* where each writer is in Write
          line,     \* the line each writer is writing
          seen,     \* now_hour_suffix of each writer
          cur,      \* the lines of the file <file>
          arch,     \* arch[s]: the lines of <file>.<s>; its domain, the archives
          left,     \* history: archives that a process which has died has made,
                    \* or that a remove has failed to remove
          lines,    \* number of lines so far
          crashes

vars == <<now, up, isOpen, last, history, mutex, pc, line, seen, cur, arch,
          left, lines, crashes>>
proc == <<up, isOpen, last, history>>
disk == <<cur, arch, left>>
count == <<lines, crashes>>

\* GenHourSuffix: the digits of day and hour.  Days stand for yyyymmdd.
Suffix(h) == (h \div HoursPerDay) * 100 + (h % HoursPerDay)

\* The hour a suffix stands for.
HourOf(s) == (s \div 100) * HoursPerDay + (s % 100)

NoLine == <<0, 0>>

Suffixes == {Suffix(h) : h \in 0..MaxHour}

Init == /\ now = 0
        /\ up = TRUE /\ isOpen = TRUE
        /\ last = Suffix(0) /\ history = {}
        /\ mutex = "free"
        /\ pc = [w \in Writers |-> "idle"]
        /\ line = [w \in Writers |-> NoLine]
        /\ seen = [w \in Writers |-> 0]
        /\ cur = {} /\ arch = [s \in {} |-> {}] /\ left = {}
        /\ lines = 0 /\ crashes = 0

Goto(w, l) == pc' = [pc EXCEPT ![w] = l]

\* pthread_mutex_lock by a writer that waits at l1 and goes on at l2.
Lock(w, l1, l2) == /\ up /\ pc[w] = l1 /\ mutex = "free"
                   /\ mutex' = w
                   /\ Goto(w, l2)
-----------------------------------------------------------------------------
\* Logger::Log puts the hour in the line's prefix and calls Write.
Write(w) == /\ up /\ pc[w] = "idle" /\ lines < MaxLines
            /\ line' = [line EXCEPT ![w] = <<now, lines + 1>>]
            /\ lines' = lines + 1
            /\ Goto(w, "check")
            /\ UNCHANGED <<now, proc, mutex, seen, disk, crashes>>

\* CutIfNeed: the clock is read and last_hour_suffix_ tested without the mutex
\* (a racing 64-bit load, which yields the old value or the new one).
Check(w) == /\ up /\ pc[w] = "check"
            /\ seen' = [seen EXCEPT ![w] = Suffix(now)]
            /\ Goto(w, IF Suffix(now) > last THEN "cutlock" ELSE "writelock")
            /\ UNCHANGED <<now, proc, mutex, line, disk, count>>

CutLock(w) == /\ Lock(w, "cutlock", "recheck")
              /\ UNCHANGED <<now, proc, line, seen, disk, count>>

\* MUTANT: the mutex is taken and the test not repeated.
Recheck_None(w) == /\ up /\ pc[w] = "recheck"
                   /\ Goto(w, "rename")
                   /\ UNCHANGED <<now, proc, mutex, line, seen, disk, count>>

\* MUTANT: the early way out keeps the mutex.
Recheck_KeepLock(w) ==
  /\ up /\ pc[w] = "recheck"
  /\ Goto(w, IF seen[w] > last THEN "rename" ELSE "writelock")
  /\ UNCHANGED <<now, proc, mutex, line, seen, disk, count>>

\* The test with the mutex held; another writer may have cut the file.
Recheck(w) == /\ up /\ pc[w] = "recheck"
              /\ \/ /\ seen[w] > last
                    /\ Goto(w, "rename")
                    /\ UNCHANGED mutex
                 \/ /\ ~(seen[w] > last)
                    /\ Goto(w, "writelock")
                    /\ mutex' = "free"
              /\ UNCHANGED <<now, proc, line, seen, disk, count>>

\* rename replaces a file that has the name already.
Archive(w) ==
  /\ arch' = [s \in DOMAIN arch \cup {last} |-> IF s = last THEN cur ELSE arch[s]]
  /\ cur' = {}

\* The file gets the name of the hour that ended; a failure is only reported.
Rename(w) == /\ up /\ pc[w] = "rename"
             /\ Archive(w) \/ UNCHANGED <<cur, arch>>
             /\ Goto(w, "reopen")
             /\ UNCHANGED <<now, proc, mutex, line, seen, left, count>>

\* close and open; nobody looks whether open succeeds.
Reopen(w) == /\ up /\ pc[w] = "reopen"
             /\ isOpen' \in BOOLEAN
             /\ Goto(w, "expire")
             /\ UNCHANGED <<now, up, last, history, mutex, line, seen, disk, count>>

\* MUTANT: the archives are compared with the hour that ended.
Overdue_LastHour(w) == {s \in history \cup {last} : last > s + RetainHours}

\* MUTANT: an archive goes when its retention is just over.
Overdue_AtLimit(w) == {s \in history \cup {last} : seen[w] >= s + RetainHours}

\* DeleteOverdueFile compares the digits of the suffixes.
Overdue(w) == {s \in history \cup {last} : seen[w] > s + RetainHours}

\* history_files_ and the disk after DeleteOverdueFile; a remove that fails
\* goes unnoticed.  With no retention archives are neither recorded nor removed.
Forget(w) ==
  IF RetainHours = 0
  THEN UNCHANGED <<history, arch, left>>
  ELSE LET gone == Overdue(w) IN
       /\ history' = (history \cup {last}) \ gone
       /\ \E removed \in SUBSET (gone \cap DOMAIN arch) :
            /\ arch' = [s \in DOMAIN arch \ removed |-> arch[s]]
            /\ left' = left \cup ((gone \cap DOMAIN arch) \ removed)

\* Archives are recorded and removed, the new hour is noted, the mutex released.
Expire(w) == /\ up /\ pc[w] = "expire"
             /\ Forget(w)
             /\ last' = seen[w]
             /\ mutex' = "free"
             /\ Goto(w, "writelock")
             /\ UNCHANGED <<now, up, isOpen, line, seen, cur, count>>
-----------------------------------------------------------------------------
WriteLock(w) == /\ Lock(w, "writelock", "append")
                /\ UNCHANGED <<now, proc, line, seen, disk, count>>

\* The line is appended and flushed, or left out when no file is open.
Append(w) == /\ up /\ pc[w] = "append"
             /\ cur' = IF isOpen THEN cur \cup {line[w]} ELSE cur
             /\ mutex' = "free"
             /\ Goto(w, "idle")
             /\ line' = [line EXCEPT ![w] = NoLine]
             /\ seen' = [seen EXCEPT ![w] = 0]
             /\ UNCHANGED <<now, proc, arch, left, count>>
-----------------------------------------------------------------------------
Tick == /\ now < MaxHour
        /\ now' = now + 1
        /\ UNCHANGED <<proc, mutex, pc, line, seen, disk, count>>

\* The process dies; the disk stays as it is.
Crash == /\ up /\ crashes < MaxCrashes
         /\ crashes' = crashes + 1
         /\ up' = FALSE
         /\ mutex' = "free"
         /\ pc' = [w \in Writers |-> "idle"]
         /\ line' = [w \in Writers |-> NoLine]
         /\ seen' = [w \in Writers |-> 0]
         /\ isOpen' = FALSE /\ last' = 0 /\ history' = {}
         /\ left' = DOMAIN arch
         /\ UNCHANGED <<now, cur, arch, lines>>

\* A new FileAppender.  Init opens the file in append mode, whatever its age,
\* and does not look whether that succeeds.
Restart == /\ ~up
           /\ up' = TRUE
           /\ isOpen' \in BOOLEAN
           /\ last' = Suffix(now)
           /\ history' = {}
           /\ UNCHANGED <<now, mutex, pc, line, seen, disk, count>>
-----------------------------------------------------------------------------
Step(w) == \/ Check(w) \/ CutLock(w) \/ Recheck(w) \/ Rename(w) \/ Reopen(w)
           \/ Expire(w) \/ WriteLock(w) \/ Append(w)

Next == \/ \E w \in Writers : Write(w) \/ Step(w)
        \/ Tick \/ Crash \/ Restart

Spec == Init /\ [][Next]_vars

\* A thread keeps running; a mutex that stays free is taken.
FairSpec == Spec /\ \A w \in Writers : WF_vars(Step(w))
-----------------------------------------------------------------------------
\* The type invariant of the appender.
TypeOK == /\ now \in 0..MaxHour
          /\ up \in BOOLEAN /\ isOpen \in BOOLEAN
          /\ last \in Suffixes /\ history \subseteq Suffixes
          /\ mutex \in Writers \cup {"free"}
          /\ pc \in [Writers -> {"idle", "check", "cutlock", "recheck", "rename",
                                 "reopen", "expire", "writelock", "append"}]
          /\ line \in [Writers -> (0..MaxHour) \X (0..MaxLines)]
          /\ seen \in [Writers -> Suffixes]
          /\ DOMAIN arch \subseteq Suffixes /\ left \subseteq Suffixes
          /\ lines \in 0..MaxLines /\ crashes \in 0..MaxCrashes

OnDisk == cur \cup UNION {arch[s] : s \in DOMAIN arch}

\* Cutting never destroys a line: what a finished write put on disk stays on
\* disk until DeleteOverdueFile (the step that ends a cut) removes its archive.
\* A rename that meets an existing archive, after a crash or by a writer with
\* an old hour, would break it.
NoLineDestroyed ==
  [][\/ OnDisk \subseteq OnDisk'
     \/ \E w \in Writers : pc[w] = "expire" /\ pc'[w] = "writelock"]_vars

\* A line is never archived under an hour before the one in its prefix: when
\* CutIfNeed has returned the file belongs to that hour or a later one, whoever
\* cut it and in whatever order the writers ran.
NeverFiledEarly == \A s \in DOMAIN arch : \A l \in arch[s] : l[1] <= HourOf(s)

\* No archive on disk is older than the retention at the last cut, if there is a
\* retention: each archive is recorded until it is removed, and comparing digits
\* never takes an old one for a young one.  Excepted are the archives of a process
\* that has died, which its successor does not know, and those whose remove has
\* failed, which nobody tries again.
NoOverdueKept ==
  RetainHours > 0 => \A s \in DOMAIN arch \ left :
                        HourOf(last) <= HourOf(s) + RetainHours

\* An archive is removed only when it is overdue or when the day has changed
\* since.
YoungArchiveKept ==
  [][\A s \in DOMAIN arch \ DOMAIN arch' :
        \/ HourOf(last') > HourOf(s) + RetainHours
        \/ last' \div 100 > s \div 100]_vars

\* Each Write returns, unless the process dies: the mutex is always released.
WriteReturns == \A w \in Writers : pc[w] # "idle" ~> pc[w] = "idle"
=============================================================================
