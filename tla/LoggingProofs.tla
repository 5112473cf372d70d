---------------------------- MODULE LoggingProofs ----------------------------
(***************************************************************************)
(* Proofs about the two modules of src/logger: FileAppender, for any       *)
(* number of writers, hours and crashes and any retention, and Logger, for *)
(* any number of threads and signals, any N and any width of the counter.  *)
(***************************************************************************)
EXTENDS FileAppender, Logger, FiniteSetTheorems, TLAPS

\* A writer between lock and unlock.
Holds(w) == pc[w] \in {"recheck", "rename", "reopen", "expire", "append"}

\* A writer that has renamed the file and not yet noted the new hour.
Cutting(w) == pc[w] \in {"reopen", "expire"}

\* The mutex has one holder, and a dead process no writers.
MutexHeld == /\ \A w \in Writers : Holds(w) <=> mutex = w
             /\ ~up => \A w \in Writers : pc[w] = "idle"

\* The hours that a writer has seen, in the order of their suffixes: its line
\* is from no later hour, and what it found out about last_hour_suffix_ is
\* still true.
SeenInOrder ==
  /\ last <= Suffix(now)
  /\ \A w \in Writers :
       /\ line[w][1] <= now
       /\ seen[w] <= Suffix(now)
       /\ pc[w] \notin {"idle", "check"} => Suffix(line[w][1]) <= seen[w]
       /\ pc[w] \in {"rename", "reopen", "expire"} => last < seen[w]
       /\ pc[w] \in {"writelock", "append"} => seen[w] <= last

\* The lines of the file are not from an hour after the file's.
FileInOrder ==
  \A l \in cur : /\ l \in (0..MaxHour) \X (0..MaxLines)
                 /\ l[1] <= now
                 /\ up => Suffix(l[1]) <= last

\* Archives have the names of past hours; the name of the file's own hour is
\* taken only while a cut is under way.
ArchivesPast ==
  \A s \in DOMAIN arch :
     /\ s < Suffix(now)
     /\ up => s < last \/ (s = last /\ \E w \in Writers : Cutting(w))
     /\ \A l \in arch[s] : l \in (0..MaxHour) \X (0..MaxLines) /\ Suffix(l[1]) <= s

\* The recorded archives are past ones and within the retention, both in the
\* order of their suffixes.
HistoryFresh ==
  /\ RetainHours = 0 => history = {}
  /\ \A s \in history : s < last /\ last <= s + RetainHours

Inv == TypeOK /\ MutexHeld /\ SeenInOrder /\ FileInOrder /\ ArchivesPast
       /\ HistoryFresh
-----------------------------------------------------------------------------
\* Quotient and remainder.
LEMMA DivMod ==
  ASSUME NEW h \in Nat, NEW d \in Nat \ {0}
  PROVE  /\ h \div d \in Nat /\ h % d \in 0..(d - 1)
         /\ h = d * (h \div d) + (h % d)
  BY Z3

\* The digits of a suffix: the day in front, the hour in the last two.
LEMMA SuffixDigits ==
  ASSUME NEW h \in Nat
  PROVE  /\ Suffix(h) \in Nat
         /\ Suffix(h) \div 100 = h \div HoursPerDay
         /\ Suffix(h) % 100 = h % HoursPerDay
<1> DEFINE q == h \div HoursPerDay
           r == h % HoursPerDay
<1>1. HoursPerDay \in Nat \ {0} /\ HoursPerDay <= 100
  BY AppenderAssumption
<1>2. q \in Nat /\ r \in 0..(HoursPerDay - 1)
  BY <1>1, DivMod
<1>3. Suffix(h) = q * 100 + r
  BY DEF Suffix
<1> HIDE DEF q, r
<1>4. r \in 0..99
  BY <1>1, <1>2
<1>5. (q * 100 + r) \div 100 = q /\ (q * 100 + r) % 100 = r /\ q * 100 + r \in Nat
  BY <1>2, <1>4, Z3
<1> QED BY <1>3, <1>5 DEF q, r

\* The hour is read back from a suffix.
LEMMA HourOfSuffix == ASSUME NEW h \in Nat PROVE HourOf(Suffix(h)) = h
<1> DEFINE q == h \div HoursPerDay
           r == h % HoursPerDay
<1>1. HoursPerDay \in Nat \ {0}
  BY AppenderAssumption
<1>2. HourOf(Suffix(h)) = q * HoursPerDay + r
  BY SuffixDigits DEF HourOf
<1>3. q \in Nat /\ r \in Nat /\ h = HoursPerDay * q + r
  BY <1>1, DivMod
<1> HIDE DEF q, r
<1>4. q * HoursPerDay = HoursPerDay * q
  BY <1>1, <1>3
<1> QED BY <1>2, <1>3, <1>4

\* Suffixes are at least as far apart as their hours and in the same order; on
\* one day they are equally far apart.
LEMMA SuffixGap ==
  ASSUME NEW h \in Nat, NEW g \in Nat
  PROVE  /\ h <= g => g - h <= Suffix(g) - Suffix(h)
         /\ Suffix(h) \div 100 = Suffix(g) \div 100 => g - h = Suffix(g) - Suffix(h)
         /\ h < g => Suffix(h) \div 100 <= Suffix(g) \div 100
<1> DEFINE D == HoursPerDay
           a == h \div D
           b == g \div D
           x == h % D
           y == g % D
<1>1. D \in Nat \ {0} /\ D <= 100
  BY AppenderAssumption
<1>2. /\ a \in Nat /\ x \in 0..(D - 1) /\ h = D * a + x
      /\ b \in Nat /\ y \in 0..(D - 1) /\ g = D * b + y
  BY <1>1, DivMod
<1>3. /\ Suffix(h) = a * 100 + x /\ Suffix(g) = b * 100 + y
      /\ Suffix(h) \div 100 = a /\ Suffix(g) \div 100 = b
  BY SuffixDigits DEF Suffix
<1> HIDE DEF D, a, b, x, y
<1>4. h <= g => a <= b
  <2>1. SUFFICES ASSUME h <= g, b < a PROVE FALSE
    BY <1>2
  <2>2. PICK k \in Nat : a = b + 1 + k
    <3>1. a - b - 1 \in Nat /\ a = b + 1 + (a - b - 1)
      BY <1>2, <2>1
    <3> QED BY <3>1
  <2>3. D * a = D * b + D + D * k /\ D * k \in Nat /\ D * b \in Nat
    BY <1>1, <1>2, <2>2
  <2>4. h >= D * b + D
    BY <1>1, <1>2, <2>3
  <2>5. g < D * b + D
    BY <1>1, <1>2, <2>3
  <2> QED BY <1>1, <1>2, <2>1, <2>3, <2>4, <2>5
<1>5. ASSUME h <= g PROVE g - h <= (b * 100 + y) - (a * 100 + x)
  <2>1. PICK k \in Nat : b = a + k
    <3>1. b - a \in Nat /\ b = a + (b - a)
      BY <1>2, <1>4, <1>5
    <3> QED BY <3>1
  <2>2. D * b = D * a + D * k /\ D * k <= 100 * k /\ D * k \in Nat /\ D * a \in Nat
    BY <1>1, <1>2, <2>1
  <2> QED BY <1>1, <1>2, <2>1, <2>2
<1>6. a = b => g - h = (b * 100 + y) - (a * 100 + x)
  <2>1. D * b \in Nat /\ b * 100 \in Nat
    BY <1>1, <1>2
  <2> QED BY <1>2, <2>1
<1> QED BY <1>3, <1>4, <1>5, <1>6

\* The order of hours is the order of their suffixes.
LEMMA SuffixOrder ==
  ASSUME NEW h \in Nat, NEW g \in Nat
  PROVE  /\ Suffix(h) \in Nat
         /\ h <= g <=> Suffix(h) <= Suffix(g)
         /\ h < g <=> Suffix(h) < Suffix(g)
<1>1. Suffix(h) \in Nat /\ Suffix(g) \in Nat
  BY SuffixDigits
<1>2. h <= g => g - h <= Suffix(g) - Suffix(h)
  BY SuffixGap
<1>3. g <= h => h - g <= Suffix(h) - Suffix(g)
  BY SuffixGap
<1> HIDE DEF Suffix
<1> QED BY <1>1, <1>2, <1>3

\* What the steps below use of suffixes, which they do not take apart again.
LEMMA SuffixFacts ==
  /\ \A h \in Nat : Suffix(h) \in Nat
  /\ \A h, g \in Nat : (h <= g <=> Suffix(h) <= Suffix(g))
  /\ Suffixes \subseteq Nat
  /\ 0 \in Suffixes
  /\ \A h \in 0..MaxHour : Suffix(h) \in Suffixes
<1>1. MaxHour \in Nat /\ HoursPerDay \in Nat \ {0}
  BY AppenderAssumption
<1>2. \A h \in Nat : Suffix(h) \in Nat
  BY SuffixOrder
<1>3. \A h, g \in Nat : (h <= g <=> Suffix(h) <= Suffix(g))
  BY SuffixOrder
<1>4. 0 \div HoursPerDay = 0 /\ 0 % HoursPerDay = 0
  <2>1. /\ 0 \div HoursPerDay \in Nat /\ 0 % HoursPerDay \in Nat
        /\ 0 = HoursPerDay * (0 \div HoursPerDay) + (0 % HoursPerDay)
    BY <1>1, DivMod
  <2> DEFINE q == 0 \div HoursPerDay
             r == 0 % HoursPerDay
  <2> HIDE DEF q, r
  <2>2. q \in Nat /\ r \in Nat /\ 0 = HoursPerDay * q + r
    BY <2>1 DEF q, r
  <2>3. q = 0 /\ r = 0
    BY <1>1, <2>2, Z3
  <2> QED BY <2>3 DEF q, r
<1>5. Suffix(0) = 0
  BY <1>4 DEF Suffix
<1> QED BY <1>1, <1>2, <1>3, <1>5 DEF Suffixes

\* The appender starts in the invariant.
LEMMA InitInv == Init => Inv
<1> SUFFICES ASSUME Init PROVE Inv
  OBVIOUS
<1>1. MaxHour \in Nat /\ MaxLines \in Nat /\ MaxCrashes \in Nat /\ RetainHours \in Nat
  BY AppenderAssumption
<1>2. TypeOK
  BY <1>1, SuffixFacts DEF Init, TypeOK, NoLine
<1>3. MutexHeld
  BY AppenderAssumption DEF Init, MutexHeld, Holds
<1>4. SeenInOrder
  BY SuffixFacts DEF Init, SeenInOrder, NoLine
<1>5. FileInOrder /\ ArchivesPast /\ HistoryFresh
  BY DEF Init, FileInOrder, ArchivesPast, HistoryFresh
<1> QED BY <1>2, <1>3, <1>4, <1>5 DEF Inv

\* A line is made, and appended under the mutex.
LEMMA LineInv ==
  ASSUME Inv, NEW w \in Writers, Write(w) \/ WriteLock(w) \/ Append(w)
  PROVE  Inv'
<1> USE AppenderAssumption, SuffixFacts DEF Inv
<1>1. CASE Write(w)
  <2>1. TypeOK'
    BY <1>1 DEF Write, TypeOK, Goto, proc, disk, count
  <2>2. MutexHeld'
    BY <1>1 DEF Write, TypeOK, MutexHeld, Holds, Goto, proc
  <2>3. SeenInOrder'
    BY <1>1 DEF Write, TypeOK, SeenInOrder, Goto, proc
  <2>4. FileInOrder'
    BY <1>1 DEF Write, FileInOrder, proc, disk
  <2>5. ArchivesPast'
    BY <1>1 DEF Write, TypeOK, MutexHeld, Holds, ArchivesPast, Cutting, Goto,
               proc, disk
  <2>6. HistoryFresh'
    BY <1>1 DEF Write, HistoryFresh, proc
  <2> QED BY <2>1, <2>2, <2>3, <2>4, <2>5, <2>6
<1>2. CASE WriteLock(w)
  <2>1. TypeOK'
    BY <1>2 DEF WriteLock, TypeOK, Goto, Lock, proc, disk, count
  <2>2. MutexHeld'
    BY <1>2 DEF WriteLock, TypeOK, MutexHeld, Holds, Goto, Lock, proc
  <2>3. SeenInOrder'
    BY <1>2 DEF WriteLock, TypeOK, SeenInOrder, Goto, Lock, proc
  <2>4. FileInOrder'
    BY <1>2 DEF WriteLock, FileInOrder, proc, disk
  <2>5. ArchivesPast'
    BY <1>2 DEF WriteLock, TypeOK, MutexHeld, Holds, ArchivesPast, Cutting,
               Goto, Lock, proc, disk
  <2>6. HistoryFresh'
    BY <1>2 DEF WriteLock, HistoryFresh, proc
  <2> QED BY <2>1, <2>2, <2>3, <2>4, <2>5, <2>6
<1>3. CASE Append(w)
  <2>1. TypeOK'
    BY <1>3 DEF Append, NoLine, TypeOK, Goto, proc, count
  <2>2. MutexHeld'
    BY <1>3 DEF Append, TypeOK, MutexHeld, Holds, Goto, proc
  <2>3. SeenInOrder'
    BY <1>3 DEF Append, NoLine, TypeOK, SeenInOrder, Goto, proc
  <2>4. FileInOrder'
    <3>1. /\ pc[w] = "append" /\ cur' \subseteq cur \cup {line[w]}
          /\ UNCHANGED <<now, up, last>>
      BY <1>3 DEF Append, proc
    <3>2. /\ line[w] \in (0..MaxHour) \X (0..MaxLines) /\ line[w][1] <= now
          /\ Suffix(line[w][1]) <= seen[w] /\ seen[w] <= last
      BY <3>1 DEF TypeOK, SeenInOrder
    <3>3. Suffix(line[w][1]) \in Nat /\ seen[w] \in Nat /\ last \in Nat
      BY <3>2 DEF TypeOK
    <3>4. Suffix(line[w][1]) <= last
      BY <3>2, <3>3
    <3> QED BY <3>1, <3>2, <3>4 DEF FileInOrder
  <2>5. ArchivesPast'
    BY <1>3 DEF Append, TypeOK, MutexHeld, Holds, ArchivesPast, Cutting, Goto,
               proc
  <2>6. HistoryFresh'
    BY <1>3 DEF Append, HistoryFresh, proc
  <2> QED BY <2>1, <2>2, <2>3, <2>4, <2>5, <2>6
<1> QED BY <1>1, <1>2, <1>3

\* The two tests of the hour.
LEMMA TestInv ==
  ASSUME Inv, NEW w \in Writers, Check(w) \/ CutLock(w) \/ Recheck(w)
  PROVE  Inv'
<1> USE AppenderAssumption, SuffixFacts DEF Inv
<1>1. CASE Check(w)
  <2>1. TypeOK'
    BY <1>1 DEF Check, TypeOK, Goto, proc, disk, count
  <2>2. MutexHeld'
    BY <1>1 DEF Check, TypeOK, MutexHeld, Holds, Goto, proc
  <2>3. SeenInOrder'
    BY <1>1 DEF Check, TypeOK, SeenInOrder, Goto, proc
  <2>4. FileInOrder'
    BY <1>1 DEF Check, FileInOrder, proc, disk
  <2>5. ArchivesPast'
    BY <1>1 DEF Check, TypeOK, MutexHeld, Holds, ArchivesPast, Cutting, Goto,
               proc, disk
  <2>6. HistoryFresh'
    BY <1>1 DEF Check, HistoryFresh, proc
  <2> QED BY <2>1, <2>2, <2>3, <2>4, <2>5, <2>6
<1>2. CASE CutLock(w)
  <2>1. TypeOK'
    BY <1>2 DEF CutLock, TypeOK, Goto, Lock, proc, disk, count
  <2>2. MutexHeld'
    BY <1>2 DEF CutLock, TypeOK, MutexHeld, Holds, Goto, Lock, proc
  <2>3. SeenInOrder'
    BY <1>2 DEF CutLock, TypeOK, SeenInOrder, Goto, Lock, proc
  <2>4. FileInOrder'
    BY <1>2 DEF CutLock, FileInOrder, proc, disk
  <2>5. ArchivesPast'
    BY <1>2 DEF CutLock, TypeOK, MutexHeld, Holds, ArchivesPast, Cutting,
               Goto, Lock, proc, disk
  <2>6. HistoryFresh'
    BY <1>2 DEF CutLock, HistoryFresh, proc
  <2> QED BY <2>1, <2>2, <2>3, <2>4, <2>5, <2>6
<1>3. CASE Recheck(w)
  <2>1. TypeOK'
    BY <1>3 DEF Recheck, TypeOK, Goto, proc, disk, count
  <2>2. MutexHeld'
    BY <1>3 DEF Recheck, TypeOK, MutexHeld, Holds, Goto, proc
  <2>3. SeenInOrder'
    <3>1. \A v \in Writers : v # w => pc'[v] = pc[v]
      BY <1>3 DEF Recheck, TypeOK, Goto
    <3>2. /\ UNCHANGED <<now, last, line, seen>> /\ pc[w] = "recheck"
          /\ \/ pc'[w] = "rename" /\ last < seen[w]
             \/ pc'[w] = "writelock" /\ seen[w] <= last
      <4>1. last \in Nat /\ seen[w] \in Nat
        BY DEF TypeOK
      <4> QED BY <1>3, <4>1 DEF Recheck, TypeOK, Goto, proc
    <3> HIDE AppenderAssumption, SuffixFacts
    <3> QED BY <3>1, <3>2 DEF SeenInOrder
  <2>4. FileInOrder'
    BY <1>3 DEF Recheck, FileInOrder, proc, disk
  <2>5. ArchivesPast'
    BY <1>3 DEF Recheck, TypeOK, MutexHeld, Holds, ArchivesPast, Cutting,
               Goto, proc, disk
  <2>6. HistoryFresh'
    BY <1>3 DEF Recheck, HistoryFresh, proc
  <2> QED BY <2>1, <2>2, <2>3, <2>4, <2>5, <2>6
<1> QED BY <1>1, <1>2, <1>3

\* The cut.
LEMMA CutInv ==
  ASSUME Inv, NEW w \in Writers, Rename(w) \/ Reopen(w) \/ Expire(w)
  PROVE  Inv'
<1> USE AppenderAssumption, SuffixFacts DEF Inv
<1>1. CASE Rename(w)
  <2>1. TypeOK'
    BY <1>1 DEF Rename, Archive, TypeOK, Goto, proc, count
  <2>2. MutexHeld'
    BY <1>1 DEF Rename, TypeOK, MutexHeld, Holds, Goto, proc
  <2>3. SeenInOrder'
    BY <1>1 DEF Rename, TypeOK, SeenInOrder, Goto, proc
  <2>4. FileInOrder'
    BY <1>1 DEF Rename, Archive, FileInOrder, proc
  <2>5. ArchivesPast'
    <3>1. /\ up /\ pc[w] = "rename" /\ last < seen[w] /\ seen[w] <= Suffix(now)
          /\ UNCHANGED <<now, up, last>> /\ pc'[w] = "reopen"
      BY <1>1 DEF Rename, Goto, proc, TypeOK, SeenInOrder
    <3>2. \E v \in Writers : Cutting(v)'
      BY <3>1 DEF Cutting
    <3>3. last \in Nat /\ seen[w] \in Nat /\ Suffix(now) \in Nat /\ DOMAIN arch \subseteq Nat
      BY DEF TypeOK
    <3>4. \A s \in DOMAIN arch' :
             \/ s \in DOMAIN arch /\ arch'[s] = arch[s]
             \/ s = last /\ arch'[s] = cur
      BY <1>1 DEF Rename, Archive
    <3>5. \A s \in DOMAIN arch' : s < Suffix(now) /\ (s < last \/ s = last)
      BY <3>1, <3>3, <3>4 DEF ArchivesPast
    <3>6. \A s \in DOMAIN arch' : \A l \in arch'[s] :
             l \in (0..MaxHour) \X (0..MaxLines) /\ Suffix(l[1]) <= s
      BY <3>1, <3>4 DEF ArchivesPast, FileInOrder
    <3> QED BY <3>1, <3>2, <3>5, <3>6 DEF ArchivesPast
  <2>6. HistoryFresh'
    BY <1>1 DEF Rename, HistoryFresh, proc
  <2> QED BY <2>1, <2>2, <2>3, <2>4, <2>5, <2>6
<1>2. CASE Reopen(w)
  <2>1. TypeOK'
    BY <1>2 DEF Reopen, TypeOK, Goto, disk, count
  <2>2. MutexHeld'
    BY <1>2 DEF Reopen, TypeOK, MutexHeld, Holds, Goto
  <2>3. SeenInOrder'
    BY <1>2 DEF Reopen, TypeOK, SeenInOrder, Goto
  <2>4. FileInOrder'
    BY <1>2 DEF Reopen, FileInOrder, disk
  <2>5. ArchivesPast'
    BY <1>2 DEF Reopen, TypeOK, MutexHeld, Holds, ArchivesPast, Cutting, Goto,
               disk
  <2>6. HistoryFresh'
    BY <1>2 DEF Reopen, HistoryFresh
  <2> QED BY <2>1, <2>2, <2>3, <2>4, <2>5, <2>6
<1>3. CASE Expire(w)
  <2>1. /\ up /\ pc[w] = "expire" /\ last < seen[w] /\ seen[w] \in Suffixes
        /\ last' = seen[w] /\ mutex' = "free" /\ pc' = [pc EXCEPT ![w] = "writelock"]
        /\ UNCHANGED <<now, up, isOpen, line, seen, cur, lines, crashes>>
    BY <1>3 DEF Expire, Goto, count, SeenInOrder, TypeOK
  <2>2. /\ history' \subseteq history \cup {last}
        /\ \A s \in history' : s < seen[w] /\ seen[w] <= s + RetainHours
        /\ RetainHours = 0 => history' = {}
    <3>1. CASE RetainHours = 0
      BY <1>3, <3>1 DEF Expire, Forget, HistoryFresh
    <3>2. CASE RetainHours # 0
      <4>1. history' = {s \in history \cup {last} : ~(seen[w] > s + RetainHours)}
        BY <1>3, <3>2 DEF Expire, Forget, Overdue
      <4>2. seen[w] \in Nat /\ last \in Nat /\ history \subseteq Nat /\ RetainHours \in Nat
        BY <2>1 DEF TypeOK
      <4>3. \A s \in history \cup {last} : s \in Nat /\ s < seen[w]
        BY <2>1, <4>2 DEF HistoryFresh
      <4> QED BY <3>2, <4>1, <4>2, <4>3
    <3> QED BY <3>1, <3>2
  <2>3. /\ DOMAIN arch' \subseteq DOMAIN arch
        /\ \A s \in DOMAIN arch' : arch'[s] = arch[s]
        /\ left' \subseteq left \cup DOMAIN arch
    BY <1>3 DEF Expire, Forget
  <2>4. \A v \in Writers \ {w} :
           pc'[v] = pc[v] /\ pc[v] \notin {"recheck", "rename", "reopen", "expire", "append"}
    BY <2>1 DEF MutexHeld, Holds, TypeOK
  <2>5. TypeOK'
    BY <2>1, <2>2, <2>3 DEF TypeOK
  <2>6. MutexHeld'
    BY <2>1, <2>4, <2>5 DEF MutexHeld, Holds, TypeOK
  <2>7. SeenInOrder'
    <3>1. last' <= Suffix(now')
      BY <2>1 DEF SeenInOrder
    <3>2. ASSUME NEW v \in Writers, v # w
          PROVE  /\ line'[v][1] <= now' /\ seen'[v] <= Suffix(now')
                 /\ pc'[v] \notin {"idle", "check"} => Suffix(line'[v][1]) <= seen'[v]
                 /\ pc'[v] \in {"rename", "reopen", "expire"} => last' < seen'[v]
                 /\ pc'[v] \in {"writelock", "append"} => seen'[v] <= last'
      <4>1. last \in Nat /\ seen[w] \in Nat /\ seen[v] \in Nat
        BY DEF TypeOK
      <4> QED BY <2>1, <2>4, <3>2, <4>1 DEF SeenInOrder
    <3>3. /\ line'[w][1] <= now' /\ seen'[w] <= Suffix(now')
          /\ Suffix(line'[w][1]) <= seen'[w]
          /\ pc'[w] = "writelock" /\ seen'[w] <= last'
      <4>1. seen[w] \in Nat
        BY DEF TypeOK
      <4> QED BY <2>1, <4>1 DEF SeenInOrder, TypeOK
    <3> QED BY <3>1, <3>2, <3>3 DEF SeenInOrder
  <2>8. FileInOrder'
    <3>1. \A l \in cur : Suffix(l[1]) \in Nat
      BY DEF FileInOrder
    <3>2. last \in Nat /\ seen[w] \in Nat
      BY DEF TypeOK
    <3> QED BY <2>1, <3>1, <3>2 DEF FileInOrder
  <2>9. ArchivesPast'
    <3>1. \A s \in DOMAIN arch' : s < Suffix(now') /\ s < last'
      <4>1. last \in Nat /\ seen[w] \in Nat /\ DOMAIN arch \subseteq Nat
        BY DEF TypeOK
      <4> QED BY <2>1, <2>3, <4>1 DEF ArchivesPast
    <3> QED BY <2>3, <3>1 DEF ArchivesPast
  <2>10. HistoryFresh'
    BY <2>1, <2>2 DEF HistoryFresh
  <2> QED BY <2>5, <2>6, <2>7, <2>8, <2>9, <2>10
<1> QED BY <1>1, <1>2, <1>3

\* The clock goes on; the process dies and starts again.
LEMMA ClockInv ==
  ASSUME Inv, Tick \/ Crash \/ Restart
  PROVE  Inv'
<1> USE AppenderAssumption, SuffixFacts DEF Inv
<1>1. CASE Tick
  <2>1. /\ now' = now + 1 /\ now \in Nat /\ now' \in 0..MaxHour
        /\ UNCHANGED <<proc, mutex, pc, line, seen, disk, count>>
    BY <1>1 DEF Tick, TypeOK
  <2>2. Suffix(now) <= Suffix(now') /\ Suffix(now) \in Nat /\ Suffix(now') \in Nat
    BY <2>1
  <2>3. TypeOK'
    BY <2>1 DEF TypeOK, proc, disk, count
  <2>4. MutexHeld'
    BY <2>1 DEF MutexHeld, Holds, proc
  <2>5. SeenInOrder'
    <3>1. last \in Nat /\ \A w \in Writers : seen[w] \in Nat
      BY DEF TypeOK
    <3>2. \A w \in Writers : line[w] \in (0..MaxHour) \X (0..MaxLines)
      BY DEF TypeOK
    <3>3. \A w \in Writers : line[w][1] \in Nat
      BY <3>2
    <3> QED BY <2>1, <2>2, <3>1, <3>3 DEF SeenInOrder, proc
  <2>6. FileInOrder'
    BY <2>1 DEF FileInOrder, proc, disk
  <2>7. ArchivesPast'
    <3>1. DOMAIN arch \subseteq Nat
      BY DEF TypeOK
    <3> QED BY <2>1, <2>2, <3>1 DEF ArchivesPast, Cutting, proc, disk
  <2>8. HistoryFresh'
    BY <2>1 DEF HistoryFresh, proc
  <2> QED BY <2>3, <2>4, <2>5, <2>6, <2>7, <2>8
<1>2. CASE Crash
  <2>1. TypeOK'
    <3>1. {MaxHour, MaxLines, MaxCrashes} \subseteq Nat
      OBVIOUS
    <3>2. NoLine \in (0..MaxHour) \X (0..MaxLines)
      BY <3>1 DEF NoLine
    <3>3. line' \in [Writers -> (0..MaxHour) \X (0..MaxLines)]
      BY <1>2, <3>2 DEF Crash
    <3>4. pc' \in [Writers -> {"idle"}] /\ seen' \in [Writers -> Suffixes]
      BY <1>2 DEF Crash
    <3>5. crashes' \in 0..MaxCrashes
      BY <1>2, <3>1 DEF Crash, TypeOK
    <3> QED BY <1>2, <3>3, <3>4, <3>5 DEF Crash, TypeOK, disk
  <2>2. MutexHeld'
    BY <1>2 DEF Crash, MutexHeld, Holds
  <2>3. SeenInOrder'
    <3>1. now \in Nat /\ Suffix(now) \in Nat
      BY DEF TypeOK
    <3> QED BY <1>2, <3>1 DEF Crash, SeenInOrder, NoLine
  <2>4. FileInOrder'
    BY <1>2 DEF Crash, FileInOrder, disk
  <2>5. ArchivesPast'
    BY <1>2 DEF Crash, ArchivesPast, disk
  <2>6. HistoryFresh'
    BY <1>2 DEF Crash, HistoryFresh
  <2> QED BY <2>1, <2>2, <2>3, <2>4, <2>5, <2>6
<1>3. CASE Restart
  <2>1. TypeOK'
    BY <1>3 DEF Restart, TypeOK, disk, count
  <2>2. MutexHeld'
    BY <1>3 DEF Restart, MutexHeld, Holds
  <2>3. SeenInOrder'
    <3>1. now \in Nat /\ Suffix(now) \in Nat
      BY DEF TypeOK
    <3> QED BY <1>3, <3>1 DEF Restart, SeenInOrder, MutexHeld
  <2>4. FileInOrder'
    <3>1. now \in Nat /\ \A l \in cur : l[1] \in Nat
      BY DEF TypeOK, FileInOrder
    <3> QED BY <1>3, <3>1 DEF Restart, FileInOrder, disk
  <2>5. ArchivesPast'
    BY <1>3 DEF Restart, ArchivesPast, disk
  <2>6. HistoryFresh'
    BY <1>3 DEF Restart, HistoryFresh
  <2> QED BY <2>1, <2>2, <2>3, <2>4, <2>5, <2>6
<1> QED BY <1>1, <1>2, <1>3

\* Every step keeps it.
LEMMA NextInv == Inv /\ [Next]_vars => Inv'
<1> SUFFICES ASSUME Inv, [Next]_vars PROVE Inv'
  OBVIOUS
<1>1. CASE \E w \in Writers : Write(w) \/ Step(w)
  BY <1>1, LineInv, TestInv, CutInv DEF Step
<1>2. CASE Tick \/ Crash \/ Restart
  BY <1>2, ClockInv
<1>3. CASE UNCHANGED vars
  BY <1>3 DEF vars, Inv, TypeOK, MutexHeld, Holds, SeenInOrder, FileInOrder,
              ArchivesPast, Cutting, HistoryFresh
<1> QED BY <1>1, <1>2, <1>3 DEF Next

\* The bookkeeping of CutIfNeed holds whatever the writers, the clock and the
\* crashes do.
THEOREM Invariance == Spec => []Inv
<1> QED BY InitInv, NextInv, PTL DEF Spec

\* Every variable of the appender keeps its type.
THEOREM TypeCorrect == Spec => []TypeOK
<1>1. Inv => TypeOK
  BY DEF Inv
<1> QED BY Invariance, <1>1, PTL

\* No line is in an archive of an hour before its own.
THEOREM FiledInTime == Spec => []NeverFiledEarly
<1>1. Inv => NeverFiledEarly
  <2> SUFFICES ASSUME Inv, NEW s \in DOMAIN arch, NEW l \in arch[s]
               PROVE  l[1] <= HourOf(s)
    BY DEF NeverFiledEarly
  <2>1. PICK h \in 0..MaxHour : s = Suffix(h)
    BY DEF Inv, TypeOK, Suffixes
  <2>2. h \in Nat /\ MaxHour \in Nat
    BY AppenderAssumption
  <2>3. l[1] \in Nat /\ Suffix(l[1]) <= Suffix(h)
    BY <2>1 DEF Inv, ArchivesPast
  <2>4. l[1] <= h
    BY <2>2, <2>3, SuffixFacts
  <2> QED BY <2>1, <2>2, <2>4, HourOfSuffix
<1> QED BY Invariance, <1>1, PTL

\* Every archive on disk is on record, or is being recorded, or has been left
\* behind; a dead process has left them all.
Recorded == /\ ~up => DOMAIN arch \subseteq left
            /\ RetainHours > 0 => DOMAIN arch \subseteq left \cup history \cup {last}

\* Every step keeps the record.
LEMMA RecordedNext == Recorded /\ [Next]_vars => Recorded'
<1> SUFFICES ASSUME Recorded, [Next]_vars PROVE Recorded'
  OBVIOUS
<1>1. CASE UNCHANGED <<up, arch, left, history, last>>
  BY <1>1 DEF Recorded
<1>2. CASE \E w \in Writers : Rename(w)
  BY <1>2 DEF Rename, Archive, Recorded, proc
<1>3. CASE \E w \in Writers : Expire(w)
  <2>1. PICK w \in Writers : Expire(w)
    BY <1>3
  <2>2. CASE RetainHours = 0
    BY <2>1, <2>2 DEF Expire, Forget, Recorded
  <2>3. CASE RetainHours # 0
    <3>1. /\ history' = (history \cup {last}) \ Overdue(w)
          /\ \E removed \in SUBSET (Overdue(w) \cap DOMAIN arch) :
                /\ arch' = [s \in DOMAIN arch \ removed |-> arch[s]]
                /\ left' = left \cup ((Overdue(w) \cap DOMAIN arch) \ removed)
      BY <2>1, <2>3 DEF Expire, Forget
    <3>2. DOMAIN arch' \subseteq DOMAIN arch
          /\ DOMAIN arch' \cap Overdue(w) \subseteq left' /\ left \subseteq left'
      BY <3>1
    <3>3. up' /\ up
      BY <2>1 DEF Expire
    <3> QED BY <3>1, <3>2, <3>3 DEF Recorded
  <2> QED BY <2>2, <2>3
<1>4. CASE Crash \/ Restart
  BY <1>4 DEF Crash, Restart, Recorded, disk
<1>5. CASE \E w \in Writers : Write(w) \/ Check(w) \/ CutLock(w) \/ Recheck(w)
                              \/ Reopen(w) \/ WriteLock(w) \/ Append(w)
  BY <1>1, <1>5 DEF Write, Check, CutLock, Recheck, Reopen, WriteLock, Append,
                    proc, disk
<1>6. CASE Tick \/ UNCHANGED vars
  BY <1>1, <1>6 DEF Tick, vars, proc, disk
<1> QED BY <1>2, <1>3, <1>4, <1>5, <1>6 DEF Next, Step

\* No archive on disk that has not been left behind by a crash or by a failed
\* remove is older than the retention: every one is on record, and the digits of
\* two suffixes are at least as far apart as their hours.
THEOREM OverdueRemoved == Spec => []NoOverdueKept
<1>1. Inv /\ Recorded => NoOverdueKept
  <2> SUFFICES ASSUME Inv, Recorded, RetainHours > 0, NEW s \in DOMAIN arch \ left
               PROVE  HourOf(last) <= HourOf(s) + RetainHours
    BY DEF NoOverdueKept
  <2>1. PICK h \in 0..MaxHour : s = Suffix(h)
    BY DEF Inv, TypeOK, Suffixes
  <2>2. PICK g \in 0..MaxHour : last = Suffix(g)
    BY DEF Inv, TypeOK, Suffixes
  <2>3. h \in Nat /\ g \in Nat /\ RetainHours \in Nat
    BY AppenderAssumption
  <2>4. HourOf(s) = h /\ HourOf(last) = g
    BY <2>1, <2>2, <2>3, HourOfSuffix
  <2>5. CASE s = last
    BY <2>3, <2>4, <2>5
  <2>6. CASE s \in history
    <3>1. Suffix(h) < Suffix(g) /\ Suffix(g) <= Suffix(h) + RetainHours
      BY <2>1, <2>2, <2>6 DEF Inv, HistoryFresh
    <3>2. h < g /\ Suffix(h) \in Nat /\ Suffix(g) \in Nat
      BY <2>3, <3>1, SuffixOrder
    <3>3. g - h <= Suffix(g) - Suffix(h)
      BY <2>3, <3>2, SuffixGap
    <3>4. g <= h + RetainHours
      BY <2>3, <3>1, <3>2, <3>3
    <3> QED BY <2>4, <3>4
  <2> QED BY <2>5, <2>6 DEF Recorded
<1>2. Init => Recorded
  BY DEF Init, Recorded
<1>3. Spec => []Recorded
  BY <1>2, RecordedNext, PTL DEF Spec
<1> QED BY Invariance, <1>1, <1>3, PTL

\* The name under which a cut files the log is free.
LEMMA NameFree ==
  ASSUME Inv, NEW w \in Writers, up, pc[w] = "rename"
  PROVE  last \notin DOMAIN arch
<1>1. \A v \in Writers : ~Cutting(v)
  BY DEF Inv, MutexHeld, Holds, Cutting
<1>2. last \in Nat
  BY SuffixFacts DEF Inv, TypeOK
<1> QED BY <1>1, <1>2 DEF Inv, ArchivesPast

\* No step but the end of a cut takes a line from the disk: rename never meets
\* an archive of the same hour, be it from before a crash or from another
\* writer.
THEOREM LinesSurvive == Spec => NoLineDestroyed
<1> DEFINE Ends == \E w \in Writers : pc[w] = "expire" /\ pc'[w] = "writelock"
<1>1. ASSUME Inv, [Next]_vars PROVE OnDisk \subseteq OnDisk' \/ Ends
  <2>1. CASE UNCHANGED <<cur, arch>>
    BY <2>1 DEF OnDisk
  <2>2. CASE \E w \in Writers : Rename(w)
    <3>1. PICK w \in Writers : Rename(w)
      BY <2>2
    <3>2. CASE Archive(w)
      <4>1. last \notin DOMAIN arch
        BY <3>1, <1>1, NameFree DEF Rename
      <4>2. /\ \A s \in DOMAIN arch : s \in DOMAIN arch' /\ arch'[s] = arch[s]
            /\ last \in DOMAIN arch' /\ arch'[last] = cur
        BY <3>2, <4>1 DEF Archive
      <4> QED BY <4>2 DEF OnDisk
    <3> QED BY <3>1, <3>2, <2>1 DEF Rename
  <2>3. CASE \E w \in Writers : Append(w)
    BY <2>3 DEF Append, OnDisk
  <2>4. CASE \E w \in Writers : Expire(w)
    BY <1>1, <2>4 DEF Expire, Goto, Inv, TypeOK
  <2>5. CASE \E w \in Writers : Write(w) \/ Check(w) \/ CutLock(w) \/ Recheck(w)
                                 \/ Reopen(w) \/ WriteLock(w)
    BY <2>5, <2>1 DEF Write, Check, CutLock, Recheck, Reopen, WriteLock, disk
  <2>6. CASE Tick \/ Crash \/ Restart \/ UNCHANGED vars
    BY <2>6, <2>1 DEF Tick, Crash, Restart, vars, disk
  <2> QED BY <1>1, <2>2, <2>3, <2>4, <2>5, <2>6 DEF Next, Step
<1>2. Inv /\ [Next]_vars => [OnDisk \subseteq OnDisk' \/ Ends]_vars
  BY <1>1
<1> QED BY Invariance, <1>2, PTL DEF Spec, NoLineDestroyed

\* An archive that goes is overdue, or of an earlier day.
THEOREM YoungKept == Spec => YoungArchiveKept
<1> DEFINE May(s) == \/ HourOf(last') > HourOf(s) + RetainHours
                     \/ last' \div 100 > s \div 100
<1>1. ASSUME Inv, [Next]_vars, NEW s \in DOMAIN arch \ DOMAIN arch' PROVE May(s)
  <2>1. ~UNCHANGED arch
    BY <1>1
  <2>2. CASE \E w \in Writers : Rename(w)
    BY <1>1, <2>2 DEF Rename, Archive
  <2>3. CASE \E w \in Writers : Expire(w)
    <3>1. PICK w \in Writers : Expire(w)
      BY <2>3
    <3>2. last' = seen[w] /\ last' > s + RetainHours
      BY <1>1, <3>1 DEF Expire, Forget, Overdue
    <3>3. PICK h \in 0..MaxHour : s = Suffix(h)
      BY <1>1 DEF Inv, TypeOK, Suffixes
    <3>4. PICK g \in 0..MaxHour : last' = Suffix(g)
      BY <1>1, <3>2 DEF Inv, TypeOK, Suffixes
    <3>5. h \in Nat /\ g \in Nat /\ RetainHours \in Nat
      BY AppenderAssumption
    <3>6. Suffix(g) > Suffix(h) + RetainHours
      BY <3>2, <3>3, <3>4
    <3>7. Suffix(h) \in Nat /\ Suffix(g) \in Nat
      BY <3>5, SuffixOrder
    <3>8. Suffix(h) < Suffix(g)
      BY <3>5, <3>6, <3>7
    <3>9. h < g
      BY <3>5, <3>8, SuffixOrder
    <3>10. CASE Suffix(h) \div 100 = Suffix(g) \div 100
      <4>1. g - h = Suffix(g) - Suffix(h)
        BY <3>5, <3>10, SuffixGap
      <4>2. g > h + RetainHours
        BY <3>5, <3>6, <3>7, <4>1
      <4>3. HourOf(last') = g /\ HourOf(s) = h
        BY <3>3, <3>4, <3>5, HourOfSuffix
      <4> QED BY <4>2, <4>3
    <3>11. CASE Suffix(h) \div 100 # Suffix(g) \div 100
      <4>1. Suffix(h) \div 100 <= Suffix(g) \div 100
        BY <3>5, <3>9, SuffixGap
      <4>2. Suffix(h) \div 100 \in Nat /\ Suffix(g) \div 100 \in Nat
        BY <3>7, Z3
      <4>3. Suffix(g) \div 100 > Suffix(h) \div 100
        BY <3>11, <4>1, <4>2
      <4> QED BY <3>3, <3>4, <4>3
    <3> QED BY <3>10, <3>11
  <2>4. CASE \E w \in Writers : Write(w) \/ Check(w) \/ CutLock(w) \/ Recheck(w)
                                 \/ Reopen(w) \/ WriteLock(w) \/ Append(w)
    BY <2>1, <2>4 DEF Write, Check, CutLock, Recheck, Reopen, WriteLock, Append, disk
  <2>5. CASE Tick \/ Crash \/ Restart \/ UNCHANGED vars
    BY <2>1, <2>5 DEF Tick, Crash, Restart, vars, disk
  <2> QED BY <1>1, <2>2, <2>3, <2>4, <2>5 DEF Next, Step
<1>2. Inv /\ [Next]_vars => [\A s \in DOMAIN arch \ DOMAIN arch' : May(s)]_vars
  BY <1>1
<1> QED BY Invariance, <1>2, PTL DEF Spec, YoungArchiveKept
-----------------------------------------------------------------------------
(***************************************************************************)
(* The front end: Logger, with its variables under their own names but for *)
(* those that FileAppender has too.                                        *)
(***************************************************************************)
\* Where a thread is that calls the macro, and where one that logs.
InMacro == {"test", "sub", "hit"}
InLog == {"enter", "file", "fileHeld", "crash", "crashHeld", "done", "dump"}

FrontTypes == /\ release \in BOOLEAN /\ priority \in 0..3
              /\ at \in [Threads -> {"idle"} \cup InMacro \cup InLog]
              /\ lvl \in [Threads -> 0..4]
              /\ handler \subseteq Threads /\ begun \subseteq Threads
              /\ fatal \in BOOLEAN /\ traced \in BOOLEAN /\ exited \in BOOLEAN
              /\ mixed \in BOOLEAN /\ wrapped \in BOOLEAN
              /\ cnt \in 0..(Wrap - 1)
              /\ signals \in Nat /\ since \in Nat

\* A thread in the signal handler logs a FATAL line and does nothing else, and
\* receive_fatal_ is not set before a Backtrace is begun.
HandlersLog == /\ \A t \in handler : lvl[t] = 4 /\ at[t] \in InLog
               /\ fatal => traced \/ begun # {}

EndInv == FrontTypes /\ HandlersLog /\ ExitLeavesTrace

\* The calls of the macro that have not yet compared the counter, or not yet
\* taken N off it.
Busy == {t \in Threads : at[t] \in {"test", "sub"}}

\* Calls that do not overlap: one thread at a time is in the macro.
OneCaller == ~mixed => \A t, u \in Threads : Inside(t) /\ Inside(u) => t = u

\* Each call puts the counter above N by one, and brings it back unless a
\* signal cuts it off.
CountBounded == ~wrapped => cnt <= N + Cardinality(Busy) + signals

\* s calls in a row did not log and have left the counter at c.
Follows(s, c) == s = 0 \/ (s + 1 <= c /\ c <= N) \/ s + N + 1 <= c

\* How far the counter is, between calls and at each position inside one.
SinceFollowed ==
  ~wrapped /\ signals < N =>
     /\ since < N
     /\ ~mixed =>
          /\ (\A t \in Threads : ~Inside(t)) => Follows(since, cnt)
          /\ \A t \in Threads :
               /\ at[t] \in {"test", "sub"} => cnt >= 1 /\ Follows(since, cnt - 1)
               /\ at[t] = "sub" => cnt > N
               /\ at[t] = "hit" => cnt = 1 \/ Follows(since + 1, cnt)

FrontInv == EndInv /\ OneCaller /\ CountBounded /\ SinceFollowed

\* The threads of the process are finitely many, so that they can be counted.
LEMMA FiniteThreads == IsFiniteSet(Threads)
  BY LoggerAssumption

\* The front end starts in the invariant.
LEMMA FrontInit == LoggerInit => FrontInv
<1> SUFFICES ASSUME LoggerInit PROVE FrontInv
  OBVIOUS
<1>1. Wrap \in Nat /\ N \in 1..(Wrap - 1) /\ Priorities \subseteq 0..3
  BY LoggerAssumption
<1>2. \A t \in Threads : at[t] = "idle" /\ lvl[t] = 1
  BY DEF LoggerInit, INFO
<1>3. FrontTypes
  <2>1. at \in [Threads -> {"idle"}] /\ lvl \in [Threads -> 0..4]
    BY DEF LoggerInit, INFO
  <2>2. cnt \in 0..(Wrap - 1) /\ signals \in Nat /\ since \in Nat
    BY <1>1 DEF LoggerInit
  <2>3. priority \in 0..3
    BY <1>1 DEF LoggerInit
  <2> QED BY <2>1, <2>2, <2>3 DEF FrontTypes, LoggerInit
<1>4. HandlersLog /\ ExitLeavesTrace
  BY DEF LoggerInit, HandlersLog, ExitLeavesTrace
<1>5. OneCaller
  BY <1>2 DEF OneCaller, Inside
<1>6. CountBounded
  <2>1. Busy = {}
    BY <1>2 DEF Busy
  <2>2. Cardinality(Busy) = 0
    BY <2>1, FS_EmptySet
  <2> QED BY <1>1, <2>2 DEF CountBounded, LoggerInit
<1>7. SinceFollowed
  BY <1>1, <1>2 DEF SinceFollowed, Follows, LoggerInit
<1> QED BY <1>3, <1>4, <1>5, <1>6, <1>7 DEF FrontInv, EndInv

\* A step that leaves the macro alone: no thread enters or leaves it.
LEMMA MacroQuiet ==
  ASSUME FrontInv, UNCHANGED <<cnt, signals, mixed, since, wrapped>>,
         \A u \in Threads : at'[u] = at[u] \/ {at[u], at'[u]} \cap InMacro = {}
  PROVE  OneCaller' /\ CountBounded' /\ SinceFollowed'
<1>1. \A u \in Threads :
         /\ Inside(u)' <=> Inside(u)
         /\ \A l \in InMacro : at'[u] = l <=> at[u] = l
  BY DEF Inside, InMacro
<1>2. Busy' = Busy
  BY <1>1 DEF Busy, InMacro
<1>3. OneCaller'
  BY <1>1 DEF FrontInv, OneCaller
<1>4. CountBounded'
  BY <1>2 DEF FrontInv, CountBounded
<1>5. SinceFollowed'
  BY <1>1 DEF FrontInv, SinceFollowed, Follows, InMacro
<1> QED BY <1>3, <1>4, <1>5

\* A step that ends nothing: the process goes on, and who is in a handler
\* still logs its FATAL line.
LEMMA EndQuiet ==
  ASSUME FrontInv, FrontTypes', UNCHANGED <<handler, fatal, begun, traced, exited>>,
         \A t \in handler : lvl'[t] = lvl[t] /\ at'[t] \in InLog
  PROVE  EndInv'
  BY DEF FrontInv, EndInv, HandlersLog, ExitLeavesTrace

\* The macro.
LEMMA MacroInv ==
  ASSUME FrontInv,
         NEW t \in Threads,
         \/ Increment(t) \/ TestCount(t)
         \/ Subtract(t) \/ Hit(t)
  PROVE  FrontInv'
<1>0. /\ Wrap \in Nat /\ N \in Nat /\ 1 <= N /\ N < Wrap
      /\ FrontTypes /\ OneCaller /\ CountBounded /\ SinceFollowed
  BY LoggerAssumption DEF FrontInv, EndInv
<1>1. IsFiniteSet(Busy) /\ Cardinality(Busy) \in Nat
  <2>1. Busy \subseteq Threads
    BY DEF Busy
  <2> QED BY <2>1, FiniteThreads, FS_Subset, FS_CardinalityType
<1>2. \A u \in Threads : u # t => at'[u] = at[u]
  BY <1>0 DEF Increment, TestCount, Subtract, Hit,
              Jump, FrontTypes
<1>3. t \notin handler
  BY <1>0 DEF Increment, TestCount, Subtract, Hit, At,
              FrontInv, EndInv, HandlersLog, InLog
<1>4. cnt \in Nat /\ cnt < Wrap /\ since \in Nat /\ signals \in Nat
  BY <1>0 DEF FrontTypes
<1>5. CASE Increment(t)
  <2>1. /\ at[t] = "idle" /\ at' = [at EXCEPT ![t] = "test"]
        /\ cnt' = (cnt + 1) % Wrap
        /\ wrapped' = (wrapped \/ cnt + 1 = Wrap)
        /\ mixed' = (mixed \/ OthersInside(t))
        /\ UNCHANGED <<release, priority, lvl, trace, handler, signals, fatal,
                       begun, traced, exited, since>>
    BY <1>5 DEF Increment, At, Jump, config, ending
  <2>2. cnt' \in 0..(Wrap - 1)
    BY <1>0, <1>4, <2>1, Z3
  <2>3. ~wrapped' => ~wrapped /\ cnt' = cnt + 1
    <3>1. ASSUME cnt + 1 < Wrap PROVE (cnt + 1) % Wrap = cnt + 1
      BY <1>0, <1>4, <3>1, Z3
    <3>2. ~wrapped' => ~wrapped /\ cnt + 1 # Wrap
      BY <2>1
    <3>3. cnt + 1 # Wrap => cnt + 1 < Wrap
      BY <1>0, <1>4
    <3> QED BY <2>1, <3>1, <3>2, <3>3
  <2>4. FrontTypes'
    BY <1>0, <2>1, <2>2 DEF FrontTypes, InMacro
  <2>5. EndInv'
    BY <1>2, <1>3, <2>1, <2>4, EndQuiet DEF FrontInv, EndInv, HandlersLog, FrontTypes
  <2>6. at'[t] = "test"
    BY <1>0, <2>1 DEF FrontTypes
  <2>7. OneCaller'
    BY <1>0, <1>2, <2>1 DEF OneCaller, Inside, OthersInside
  <2>8. Cardinality(Busy)' = Cardinality(Busy) + 1
    <3>1. Busy' = Busy \cup {t} /\ t \notin Busy
      BY <1>2, <2>1, <2>6 DEF Busy
    <3> QED BY <1>1, <3>1, FS_AddElement
  <2>9. CountBounded'
    BY <1>0, <1>1, <1>4, <2>1, <2>3, <2>8 DEF CountBounded
  <2>10. SinceFollowed'
    <3> SUFFICES ASSUME ~wrapped', signals' < N, ~mixed'
                 PROVE  cnt' >= 1 /\ Follows(since', cnt' - 1)
      <4>1. ~wrapped' /\ signals' < N => since' < N
        BY <1>0, <2>1 DEF SinceFollowed
      <4>2. ~mixed' => \A u \in Threads : u # t => at'[u] \notin InMacro
        BY <1>2, <2>1 DEF OthersInside, Inside, InMacro
      <4> QED BY <2>6, <4>1, <4>2 DEF SinceFollowed, Inside, InMacro
    <3>1. \A u \in Threads : ~Inside(u)
      BY <2>1 DEF OthersInside, Inside
    <3>2. Follows(since, cnt)
      BY <1>0, <2>1, <2>3, <3>1 DEF SinceFollowed
    <3>3. cnt' - 1 = cnt /\ cnt' >= 1
      BY <1>4, <2>3
    <3> QED BY <2>1, <3>2, <3>3
  <2> QED BY <2>5, <2>7, <2>9, <2>10 DEF FrontInv
<1>6. CASE TestCount(t)
  <2>1. /\ at[t] = "test" /\ at' = [at EXCEPT ![t] = IF cnt > N THEN "sub" ELSE "hit"]
        /\ UNCHANGED <<release, priority, lvl, trace, handler, signals, fatal,
                       begun, traced, exited, since, cnt, wrapped, mixed>>
    BY <1>6 DEF TestCount, At, Jump, config, ending,
                macro
  <2>2. FrontTypes'
    BY <1>0, <2>1 DEF FrontTypes, InMacro
  <2>3. EndInv'
    BY <1>2, <1>3, <2>1, <2>2, EndQuiet DEF FrontInv, EndInv, HandlersLog, FrontTypes
  <2>4. at'[t] = IF cnt > N THEN "sub" ELSE "hit"
    BY <1>0, <2>1 DEF FrontTypes
  <2>5. \A u \in Threads : Inside(u)' <=> Inside(u)
    BY <1>2, <2>1, <2>4 DEF Inside
  <2>6. OneCaller'
    BY <1>0, <2>1, <2>5 DEF OneCaller
  <2>7. CountBounded'
    <3>1. CASE cnt > N
      <4>1. Busy' = Busy
        BY <1>2, <2>1, <2>4, <3>1 DEF Busy
      <4> QED BY <1>0, <2>1, <4>1 DEF CountBounded
    <3>2. CASE ~(cnt > N)
      <4>1. Busy' = Busy \ {t} /\ t \in Busy
        BY <1>2, <2>1, <2>4, <3>2 DEF Busy
      <4>2. Cardinality(Busy)' \in Nat
        <5>1. IsFiniteSet(Busy \ {t})
          BY <1>1, FS_Subset
        <5> QED BY <4>1, <5>1, FS_CardinalityType
      <4> QED BY <1>0, <1>4, <2>1, <3>2, <4>2 DEF CountBounded
    <3> QED BY <3>1, <3>2
  <2>8. SinceFollowed'
    <3> SUFFICES ASSUME ~wrapped, signals < N, ~mixed, ~(cnt > N)
                 PROVE  cnt = 1 \/ Follows(since + 1, cnt)
      <4>1. ~wrapped /\ signals < N => since < N
        BY <1>0 DEF SinceFollowed
      <4>2. ~mixed => \A u \in Threads : u # t => at'[u] \notin InMacro
        BY <1>0, <1>2, <2>1 DEF OneCaller, Inside, InMacro
      <4>3. ~wrapped /\ signals < N /\ ~mixed => cnt >= 1 /\ Follows(since, cnt - 1)
        BY <1>0, <2>1 DEF SinceFollowed
      <4> QED BY <2>1, <2>4, <4>1, <4>2, <4>3
              DEF SinceFollowed, Follows, Inside, InMacro
    <3>1. cnt >= 1 /\ Follows(since, cnt - 1)
      BY <1>0, <2>1 DEF SinceFollowed
    <3> QED BY <1>0, <1>4, <3>1 DEF Follows
  <2> QED BY <2>3, <2>6, <2>7, <2>8 DEF FrontInv
<1>7. CASE Subtract(t)
  <2>1. /\ at[t] = "sub" /\ at' = [at EXCEPT ![t] = "hit"]
        /\ cnt' = (cnt - N) % Wrap
        /\ wrapped' = (wrapped \/ cnt < N)
        /\ UNCHANGED <<release, priority, lvl, trace, handler, signals, fatal,
                       begun, traced, exited, since, mixed>>
    BY <1>7 DEF Subtract, At, Jump, config, ending
  <2>2. cnt' \in 0..(Wrap - 1)
    BY <1>0, <1>4, <2>1, Z3
  <2>3. ~wrapped' => ~wrapped /\ N <= cnt /\ cnt' = cnt - N
    <3>1. ASSUME N <= cnt PROVE (cnt - N) % Wrap = cnt - N
      BY <1>0, <1>4, <3>1, Z3
    <3>2. ~wrapped' => ~wrapped /\ ~(cnt < N)
      BY <2>1
    <3>3. ~(cnt < N) => N <= cnt
      BY <1>0, <1>4
    <3> QED BY <2>1, <3>1, <3>2, <3>3
  <2>4. FrontTypes'
    BY <1>0, <2>1, <2>2 DEF FrontTypes, InMacro
  <2>5. EndInv'
    BY <1>2, <1>3, <2>1, <2>4, EndQuiet DEF FrontInv, EndInv, HandlersLog, FrontTypes
  <2>6. at'[t] = "hit"
    BY <1>0, <2>1 DEF FrontTypes
  <2>7. OneCaller'
    BY <1>0, <1>2, <2>1, <2>6 DEF OneCaller, Inside
  <2>8. Cardinality(Busy)' = Cardinality(Busy) - 1
    <3>1. Busy' = Busy \ {t} /\ t \in Busy
      BY <1>2, <2>1, <2>6 DEF Busy
    <3> QED BY <1>1, <3>1, FS_RemoveElement
  <2>9. CountBounded'
    BY <1>0, <1>1, <1>4, <2>1, <2>3, <2>8 DEF CountBounded
  <2>10. SinceFollowed'
    <3> SUFFICES ASSUME ~wrapped', signals' < N, ~mixed'
                 PROVE  cnt' = 1 \/ Follows(since' + 1, cnt')
      <4>1. ~wrapped' /\ signals' < N => since' < N
        BY <1>0, <2>1 DEF SinceFollowed
      <4>2. ~mixed' => \A u \in Threads : u # t => at'[u] \notin InMacro
        BY <1>0, <1>2, <2>1 DEF OneCaller, Inside, InMacro
      <4> QED BY <2>6, <4>1, <4>2 DEF SinceFollowed, Inside, InMacro
    <3>1. /\ cnt >= 1 /\ Follows(since, cnt - 1) /\ cnt > N
          /\ \A u \in Threads : u # t => ~Inside(u)
      BY <1>0, <2>1, <2>3 DEF SinceFollowed, OneCaller, Inside
    <3>2. Cardinality(Busy) = 1
      <4>1. Busy = {t}
        BY <2>1, <3>1 DEF Busy, Inside
      <4> QED BY <4>1, FS_Singleton
    <3>3. cnt <= N + 1 + signals
      BY <1>0, <2>3, <3>2 DEF CountBounded
    <3> QED BY <1>0, <1>4, <2>1, <2>3, <3>1, <3>3 DEF Follows
  <2> QED BY <2>5, <2>7, <2>9, <2>10 DEF FrontInv
<1>8. CASE Hit(t)
  <2>1. /\ at[t] = "hit"
        /\ mixed' = (mixed /\ OthersInside(t))
        /\ UNCHANGED <<release, priority, handler, signals, fatal,
                       begun, traced, exited, cnt, wrapped>>
        /\ \/ /\ cnt = 1 /\ since' = 0 /\ lvl' = [lvl EXCEPT ![t] = 1]
              /\ at' = [at EXCEPT ![t] = "enter"]
           \/ /\ cnt # 1 /\ since' = IF mixed THEN 0 ELSE since + 1
              /\ at' = [at EXCEPT ![t] = "idle"] /\ lvl' = lvl
    BY <1>8 DEF Hit, At, Jump, config, ending, INFO
  <2>2. FrontTypes'
    BY <1>0, <2>1 DEF FrontTypes, InLog
  <2>3. EndInv'
    <3>1. \A u \in handler : lvl'[u] = lvl[u] /\ at'[u] \in InLog
      BY <1>0, <1>2, <1>3, <2>1 DEF FrontInv, EndInv, HandlersLog, FrontTypes
    <3> QED BY <2>1, <2>2, <3>1, EndQuiet
  <2>4. at'[t] \notin InMacro
    BY <1>0, <2>1 DEF FrontTypes, InMacro
  <2>5. OneCaller'
    <3>1. CASE mixed
      BY <1>2, <2>1, <2>4, <3>1 DEF OneCaller, Inside, InMacro, OthersInside
    <3>2. CASE ~mixed
      BY <1>0, <1>2, <2>4, <3>2 DEF OneCaller, Inside, InMacro
    <3> QED BY <3>1, <3>2
  <2>6. Busy' = Busy
    BY <1>2, <2>1, <2>4 DEF Busy, InMacro
  <2>7. CountBounded'
    BY <1>0, <2>1, <2>6 DEF CountBounded
  <2>8. SinceFollowed'
    <3>1. SUFFICES ASSUME ~wrapped, signals < N
                   PROVE  /\ since' < N
                          /\ ~mixed' => Follows(since', cnt)
      <4>1. ~mixed' => \A u \in Threads : at'[u] \notin InMacro
        <5>1. CASE mixed
          BY <1>2, <2>1, <2>4, <5>1 DEF OthersInside, Inside, InMacro
        <5>2. CASE ~mixed
          BY <1>0, <1>2, <2>1, <2>4, <5>2 DEF OneCaller, Inside, InMacro
        <5> QED BY <5>1, <5>2
      <4> QED BY <2>1, <4>1 DEF SinceFollowed, Inside, InMacro
    <3>2. CASE since' = 0
      BY <1>0, <3>2 DEF Follows
    <3>3. CASE since' # 0
      <4>1. ~mixed /\ since' = since + 1 /\ cnt # 1
        BY <2>1, <3>3
      <4>2. Follows(since + 1, cnt)
        BY <1>0, <2>1, <3>1, <4>1 DEF SinceFollowed
      <4>3. \A u \in Threads : at[u] \notin {"test", "sub"}
        BY <1>0, <2>1, <4>1 DEF OneCaller, Inside
      <4>4. Cardinality(Busy) = 0
        <5>1. Busy = {}
          BY <4>3 DEF Busy
        <5> QED BY <5>1, FS_EmptySet
      <4>5. cnt <= N + signals
        BY <1>0, <1>4, <3>1, <4>4 DEF CountBounded
      <4>6. since + 1 < N
        BY <1>0, <1>4, <3>1, <4>2, <4>5 DEF Follows
      <4> QED BY <4>1, <4>2, <4>6
    <3> QED BY <3>2, <3>3
  <2> QED BY <2>3, <2>5, <2>7, <2>8 DEF FrontInv
<1> QED BY <1>5, <1>6, <1>7, <1>8

\* Log: its caller is not in the macro before or after, and the process ends
\* only after a Backtrace or with one begun.
LEMMA LogInv ==
  ASSUME FrontInv, NEW t \in Threads,
         \/ Call(t) \/ Enter(t) \/ WriteAppender(t) \/ Logged(t)
         \/ EnterBacktrace(t) \/ SecondFatal(t)
         \/ Dump(t) \/ LeaveBacktrace(t)
  PROVE  FrontInv'
<1> USE DEF At, Jump, Return, config, macro,
            ending
<1>0. FrontTypes /\ HandlersLog /\ ExitLeavesTrace
  BY DEF FrontInv, EndInv
<1>1. t \in handler => lvl[t] = 4 /\ at[t] \in InLog /\ ~(lvl[t] < priority)
  BY <1>0 DEF HandlersLog, FrontTypes
<1>2. /\ at[t] \in {"idle"} \cup InLog
      /\ \/ at' = at
         \/ /\ t \in handler => at'[t] \in InLog
            /\ \E l \in {"idle"} \cup InLog : at' = [at EXCEPT ![t] = l]
  <2>1. CASE Call(t) \/ Enter(t)
    BY <1>0, <1>1, <2>1 DEF Call, Enter, FrontTypes, InLog
  <2>2. CASE WriteAppender(t)
    BY <1>0, <2>2 DEF WriteAppender, Skip, LockAppender, UnlockAppender,
                      After, Held, FrontTypes, InLog
  <2>3. CASE Logged(t) \/ SecondFatal(t)
    BY <1>0, <2>3 DEF Logged, SecondFatal, FrontTypes, InLog
  <2>4. CASE EnterBacktrace(t) \/ Dump(t) \/ LeaveBacktrace(t)
    BY <1>0, <2>4 DEF EnterBacktrace, Dump, LeaveBacktrace,
                      FrontTypes, InLog
  <2> QED BY <2>1, <2>2, <2>3, <2>4
<1>3. \A u \in Threads : at'[u] = at[u] \/ {at[u], at'[u]} \cap InMacro = {}
  BY <1>0, <1>2 DEF FrontTypes, InMacro, InLog
<1>4. UNCHANGED <<cnt, signals, mixed, since, wrapped, handler, release, priority>>
  BY DEF Call, Enter, WriteAppender, Skip, LockAppender, UnlockAppender,
         Logged, EnterBacktrace, SecondFatal, Dump,
         LeaveBacktrace
<1>5. OneCaller' /\ CountBounded' /\ SinceFollowed'
  BY <1>3, <1>4, MacroQuiet
<1>6. /\ lvl' \in [Threads -> 0..4]
      /\ \A u \in handler : lvl'[u] = lvl[u]
  <2>1. CASE Call(t)
    <3>1. Levels \subseteq 0..4 /\ t \notin handler
      BY <1>1, <2>1, LoggerAssumption DEF FATAL, Call, InLog
    <3> QED BY <1>0, <2>1, <3>1 DEF Call, FrontTypes
  <2>2. CASE ~Call(t)
    BY <1>0, <2>2 DEF Enter, WriteAppender, Skip, LockAppender, UnlockAppender,
         Logged, EnterBacktrace, SecondFatal, Dump,
         LeaveBacktrace, FrontTypes
  <2> QED BY <2>1, <2>2
<1>7. /\ begun' \subseteq Threads /\ fatal' \in BOOLEAN /\ traced' \in BOOLEAN
      /\ exited' \in BOOLEAN
      /\ fatal' => traced' \/ begun' # {}
      /\ exited' => traced' \/ (begun' # {} /\ handler' # {})
  <2>1. CASE Call(t) \/ WriteAppender(t) \/ Dump(t)
    BY <1>0, <2>1 DEF Call, WriteAppender, Skip, LockAppender, UnlockAppender,
         Dump, FrontTypes, HandlersLog, ExitLeavesTrace
  <2>2. CASE Enter(t)
    BY <1>0, <1>1, <2>2 DEF Enter, FrontTypes, HandlersLog, ExitLeavesTrace
  <2>3. CASE Logged(t)
    BY <1>0, <1>1, <2>3 DEF Logged, FATAL, FrontTypes, HandlersLog,
         ExitLeavesTrace
  <2>4. CASE EnterBacktrace(t)
    BY <1>0, <2>4 DEF EnterBacktrace, FrontTypes, HandlersLog,
         ExitLeavesTrace
  <2>5. CASE SecondFatal(t)
    BY <1>0, <2>5 DEF SecondFatal, FrontTypes, HandlersLog,
         ExitLeavesTrace
  <2>6. CASE LeaveBacktrace(t)
    BY <1>0, <2>6 DEF LeaveBacktrace, FrontTypes
  <2> QED BY <2>1, <2>2, <2>3, <2>4, <2>5, <2>6
<1>8. at' \in [Threads -> {"idle"} \cup InMacro \cup InLog]
  BY <1>0, <1>2 DEF FrontTypes
<1>9. FrontTypes'
  BY <1>0, <1>4, <1>6, <1>7, <1>8 DEF FrontTypes
<1>10. HandlersLog'
  <2>1. \A u \in handler : at'[u] \in InLog
    BY <1>0, <1>2 DEF HandlersLog, FrontTypes
  <2> QED BY <1>0, <1>4, <1>6, <1>7, <2>1 DEF HandlersLog
<1>11. ExitLeavesTrace'
  BY <1>7 DEF ExitLeavesTrace
<1> QED BY <1>5, <1>9, <1>10, <1>11 DEF FrontInv, EndInv

\* A signal takes a thread out of whatever it does.
LEMMA SignalInv ==
  ASSUME FrontInv,
         NEW t \in Threads, Signal(t)
  PROVE  FrontInv'
<1>0. /\ FrontTypes /\ HandlersLog /\ ExitLeavesTrace
      /\ OneCaller /\ CountBounded /\ SinceFollowed
      /\ N \in Nat /\ 1 <= N
  BY LoggerAssumption DEF FrontInv, EndInv
<1>1. /\ ~exited /\ signals' = signals + 1 /\ handler' = handler \cup {t}
      /\ lvl' = [lvl EXCEPT ![t] = 4] /\ at' = [at EXCEPT ![t] = "enter"]
      /\ since' = IF Inside(t) THEN 0 ELSE since
      /\ UNCHANGED <<release, priority, fatal, begun, traced, exited, cnt, mixed,
                     wrapped>>
  BY DEF Signal, Jump, FATAL, config
<1>2. FrontTypes'
  BY <1>0, <1>1 DEF FrontTypes, InLog
<1>3. HandlersLog' /\ ExitLeavesTrace'
  BY <1>0, <1>1 DEF HandlersLog, ExitLeavesTrace, FrontTypes, InLog
<1>4. /\ at'[t] = "enter"
      /\ \A u \in Threads : u # t => at'[u] = at[u]
  BY <1>0, <1>1 DEF FrontTypes
<1>5. OneCaller'
  BY <1>0, <1>1, <1>4 DEF OneCaller, Inside
<1>6. CountBounded'
  <2>1. Busy \subseteq Threads /\ Busy' = Busy \ {t}
    BY <1>4 DEF Busy
  <2>2. IsFiniteSet(Busy) /\ Cardinality(Busy) \in Nat
    BY <2>1, FiniteThreads, FS_Subset, FS_CardinalityType
  <2>3. Cardinality(Busy)' \in Nat /\ Cardinality(Busy) <= Cardinality(Busy)' + 1
    <3>1. CASE t \in Busy
      <4>1. /\ IsFiniteSet(Busy \ {t})
            /\ Cardinality(Busy \ {t}) = Cardinality(Busy) - 1
        BY <2>2, <3>1, FS_RemoveElement
      <4>2. Cardinality(Busy \ {t}) \in Nat
        BY <4>1, FS_CardinalityType
      <4> QED BY <2>1, <2>2, <4>1, <4>2
    <3>2. CASE t \notin Busy
      <4>1. Busy' = Busy
        BY <2>1, <3>2
      <4> QED BY <2>2, <4>1
    <3> QED BY <3>1, <3>2
  <2> QED BY <1>0, <1>1, <2>2, <2>3 DEF CountBounded, FrontTypes
<1>7. SinceFollowed'
  <2>1. SUFFICES ASSUME ~wrapped, signals + 1 < N PROVE SinceFollowed'
    BY <1>1 DEF SinceFollowed
  <2>2. signals < N /\ since \in Nat
    BY <1>0, <2>1 DEF FrontTypes
  <2>3. CASE Inside(t)
    <3>1. since' = 0
      BY <1>1, <2>3
    <3>2. ~mixed => \A u \in Threads : at'[u] \notin InMacro
      BY <1>0, <1>4, <2>3 DEF OneCaller, Inside, InMacro
    <3> QED BY <1>0, <1>1, <3>1, <3>2 DEF SinceFollowed, Follows, InMacro
  <2>4. CASE ~Inside(t)
    <3>1. since' = since
      BY <1>1, <2>4
    <3>2. \A u \in Threads :
             /\ Inside(u)' <=> Inside(u)
             /\ \A l \in InMacro : at'[u] = l <=> at[u] = l
      BY <1>4, <2>4 DEF Inside, InMacro
    <3> QED BY <1>0, <1>1, <2>1, <2>2, <3>1, <3>2 DEF SinceFollowed, InMacro
  <2> QED BY <2>3, <2>4
<1> QED BY <1>2, <1>3, <1>5, <1>6, <1>7 DEF FrontInv, EndInv

\* Every step of the front end keeps its invariant.
LEMMA FrontNext == FrontInv /\ [LoggerNext]_loggerVars => FrontInv'
<1> SUFFICES ASSUME FrontInv, [LoggerNext]_loggerVars PROVE FrontInv'
  OBVIOUS
<1>1. CASE LoggerNext
  BY <1>1, MacroInv, LogInv, SignalInv DEF LoggerNext, LoggerStep
<1>2. CASE UNCHANGED loggerVars
  BY <1>2 DEF loggerVars, FrontInv, EndInv, FrontTypes, HandlersLog,
              ExitLeavesTrace, OneCaller, CountBounded, SinceFollowed, Busy,
              Inside
<1> QED BY <1>1, <1>2

\* The bookkeeping of FATAL lines, handlers and the macro's counter holds for
\* any number of threads and signals, any N and any width of the counter.
THEOREM FrontInvariance == LoggerSpec => []FrontInv
<1>1. LoggerInit => FrontInv
  BY FrontInit
<1>2. FrontInv /\ [LoggerNext]_loggerVars => FrontInv'
  BY FrontNext
<1> QED BY <1>1, <1>2, PTL DEF LoggerSpec

\* The process does not exit before a Backtrace has returned, except by a
\* handler that found one begun.
THEOREM ExitTraced == LoggerSpec => []ExitLeavesTrace
<1>1. FrontInv => ExitLeavesTrace
  BY DEF FrontInv, EndInv
<1>2. LoggerSpec => []FrontInv
  BY FrontInvariance
<1> QED BY <1>1, <1>2, PTL

\* LOG_EVERY_N logs one of any N calls that do not overlap, unless its counter
\* has wrapped or N signals came.
THEOREM EveryNth == LoggerSpec => []OnlyUnderflowSilences
<1>1. FrontInv => OnlyUnderflowSilences
  <2>1. FrontInv => (signals < N \/ signals >= N)
    BY LoggerAssumption DEF FrontInv, EndInv, FrontTypes
  <2> QED BY <2>1 DEF FrontInv, SinceFollowed, OnlyUnderflowSilences
<1>2. LoggerSpec => []FrontInv
  BY FrontInvariance
<1> QED BY <1>1, <1>2, PTL

\* What FrontTypes leaves out.
BoundTypes == /\ app \in Setups /\ trace \subseteq Threads
              /\ locks \in [{"file", "crash"} -> Threads \cup {"free", "garbage"}]
              /\ calls \in 0..MaxCalls /\ every \in 0..MaxEvery
              /\ signals \in 0..MaxSignals

\* No step leaves the bounds, and mutexes are held by threads.
LEMMA BoundNext == BoundTypes /\ [LoggerNext]_loggerVars => BoundTypes'
<1> SUFFICES ASSUME BoundTypes, [LoggerNext]_loggerVars PROVE BoundTypes'
  OBVIOUS
<1> USE DEF BoundTypes, config, macro, ending
<1>1. {MaxCalls, MaxEvery, MaxSignals} \subseteq Nat
  BY LoggerAssumption
<1>2. ASSUME NEW t \in Threads, Increment(t) PROVE BoundTypes'
  BY <1>1, <1>2 DEF Increment
<1>3. ASSUME NEW t \in Threads, Call(t) PROVE BoundTypes'
  BY <1>1, <1>3 DEF Call
<1>4. ASSUME NEW t \in Threads, TestCount(t) \/ Subtract(t) \/ Hit(t) PROVE BoundTypes'
  BY <1>4 DEF TestCount, Subtract, Hit
<1>5. ASSUME NEW t \in Threads, Enter(t) \/ Logged(t) \/ EnterBacktrace(t)
                                \/ SecondFatal(t) \/ Dump(t) \/ LeaveBacktrace(t)
      PROVE  BoundTypes'
  BY <1>5 DEF Enter, Logged, EnterBacktrace, SecondFatal, Dump, LeaveBacktrace
<1>6. ASSUME NEW t \in Threads, NEW k \in {"file", "crash"},
             Skip(t, k) \/ LockAppender(t, k) \/ UnlockAppender(t, k)
      PROVE  BoundTypes'
  <2>1. UNCHANGED <<app, trace, calls, every, signals>>
    BY <1>6 DEF Skip, LockAppender, UnlockAppender
  <2>2. locks' \in [{"file", "crash"} -> Threads \cup {"free", "garbage"}]
    BY <1>6 DEF Skip, LockAppender, UnlockAppender
  <2> QED BY <2>1, <2>2
<1>7. ASSUME NEW t \in Threads, Signal(t) PROVE BoundTypes'
  BY <1>1, <1>7 DEF Signal
<1>8. CASE UNCHANGED loggerVars
  BY <1>8 DEF loggerVars
<1> QED BY <1>2, <1>3, <1>4, <1>5, <1>6, <1>7, <1>8
        DEF LoggerNext, LoggerStep, WriteAppender

\* Positions, levels, mutexes and the macro's counter keep their types.
THEOREM LoggerTypes == LoggerSpec => []LoggerTypeOK
<1>1. LoggerInit => BoundTypes
  <2>1. {MaxCalls, MaxEvery, MaxSignals} \subseteq Nat
    BY LoggerAssumption
  <2> QED BY <2>1 DEF LoggerInit, BoundTypes
<1>2. FrontInv /\ BoundTypes => LoggerTypeOK
  BY DEF FrontInv, EndInv, FrontTypes, BoundTypes, LoggerTypeOK, InMacro, InLog, FATAL
<1> QED BY <1>1, <1>2, BoundNext, FrontInvariance, PTL DEF LoggerSpec
=============================================================================
