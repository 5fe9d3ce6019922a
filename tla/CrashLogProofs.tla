--------------------------- MODULE CrashLogProofs ---------------------------
(***************************************************************************)
(* The diagnostic files, for any number of threads, checkpoints, crashes   *)
(* and starts of the process, any size limit and any sizes of lines: the   *)
(* checkpoint file is bounded, the files show what was written to them,    *)
(* and a crash that was reported is told.                                  *)
(*                                                                         *)
(* For the files the invariant follows the threads that are about to write *)
(* (WithinFile, AtEnd) and those that have passed the test of the size     *)
(* (Room).  For the crashes it follows a report from the signal or the     *)
(* exception to the end of the process: what has been written of it is in  *)
(* the file, and what has not is still to be written (NativeReport,        *)
(* JavaReport); entries are numbered, so a new report is not mistaken for  *)
(* anything in the file (Dated).                                           *)
(***************************************************************************)
EXTENDS CrashLog, FiniteSetTheorems, SequenceTheorems, TLAPS

-----------------------------------------------------------------------------
(* The inductive invariant.                                                *)

Stage == {"idle", "delete", "open", "seek", "write", "append", "dies",
          "ciadpi", "tun2socks", "clear native", "clear checkpoints"}

Thread == [at : Stage, line : Seq(Entries), off : Nat, orphan : BOOLEAN]

\* A line is made of entries, and a checkpoint's is no longer than the longest.
ThreadsTyped ==
    /\ th \in [Threads -> Thread]
    /\ \A t \in Threads :
          th[t].at \in {"delete", "open", "seek", "write"}
              => Len(th[t].line) =< MaxLine

FilesTyped == data \in [Files -> Seq(Entries)] /\ log \in [Files -> Seq(Entries)]

\* A handler writes its report through a descriptor of its own.
NativeEntry == {<<lib, n, i>> : lib \in Libs, n \in 1..MaxEntries, i \in 0..2}
SignalTyped ==
    /\ signal \in Seq(NativeEntry \cup {Dies})
    /\ \A i \in 1..(Len(signal) - 1) : signal[i] \in NativeEntry

\* No library holds a native log that has no name.
Linked == fd \in [Libs -> {"none", "open"}]

Counted ==
    /\ up \in BOOLEAN /\ installed \in BOOLEAN /\ raced \in BOOLEAN
    /\ undeleted \in BOOLEAN
    /\ starts \in 0..MaxStarts /\ lines \in 0..MaxLines
    /\ entries \in 0..MaxEntries

\* The threads that are about to write into the file the name shows.
Writer(t) == th[t].at = "write" /\ ~th[t].orphan

\* A file that still has its name has only grown since its length was read.
WithinFile ==
    \A t \in Threads : Writer(t) => th[t].off =< Len(data["checkpoints"])

\* Until two checkpoints meet, the only writer is at the end of the file.
AtEnd ==
    ~raced => \A t, u \in Threads :
        /\ Writer(t) => th[t].off = Len(data["checkpoints"])
        /\ Writer(t) /\ Writer(u) => t = u

\* The threads that have tested the size and not yet written.
Committed == {t \in Threads : th[t].at \in {"open", "seek", "write"}}

\* Each of them may still add a line; the others have added one at most each
\* since the file was found short enough.  Nothing bounds a file that could
\* not be deleted.
Room ==
    ~undeleted => Len(data["checkpoints"])
                     =< MAX_CHECKPOINT_FILE_SIZE
                          + Cardinality(Threads \ Committed) * MaxLine

-----------------------------------------------------------------------------
(* The reports of crashes.                                                 *)

Crash == [entry : Seq(Entries), over : BOOLEAN, cleared : BOOLEAN,
          lost : SUBSET Entries]
CrashTyped == crash \in [{"java", "native"} -> Crash]

\* What the files hold, and what is about to be written to them, was begun
\* before the next entry.
Dated ==
    /\ \A j \in DOMAIN data["native"] : data["native"][j][2] =< entries
    /\ \A j \in DOMAIN data["java"] : data["java"][j][2] =< entries
    /\ \A i \in 1..(Len(signal) - 1) : signal[i][2] =< entries
    /\ \A t \in Threads : th[t].at = "append" =>
          \E n \in 1..entries : th[t].line = JavaEntry(n)

\* The first n pieces of the report e are in s, once and in order, but for the
\* ones lost; the others are not.
Reported(s, e, n, lost) ==
    /\ \A i \in 1..n : e[i] \in lost
          \/ \E j \in DOMAIN s : \A k \in DOMAIN s : s[k] = e[i] <=> k = j
    /\ \A i \in (n + 1)..Len(e), j \in DOMAIN s : s[j] # e[i]
    /\ \A i, k \in 1..n, j, l \in DOMAIN s :
          i < k /\ s[j] = e[i] /\ s[l] = e[k] => j < l

\* A report is made of pieces no checkpoint is like and no two alike.
Proper(e) ==
    /\ \A i \in DOMAIN e : e[i][3] # 0
    /\ \A i, k \in DOMAIN e : e[i] = e[k] => i = k

\* The native report under way: what the handlers still have to write is the
\* end of it, and the rest is in the file.
NativeReport ==
    LET e == crash["native"].entry
        n == Len(e) + 1 - Len(signal)
    IN  ~crash["native"].cleared =>
            /\ signal # <<>> =>
                  /\ ~crash["native"].over /\ Proper(e)
                  /\ n >= 0
                  /\ \A i \in 1..(Len(signal) - 1) : signal[i] = e[n + i]
                  /\ Reported(data["native"], e, n, crash["native"].lost)
            /\ crash["native"].over =>
                  Proper(e) /\ Reported(data["native"], e, Len(e), crash["native"].lost)

\* One Java crash at a time: its thread has yet to append the report, or has.
JavaReport ==
    LET e == crash["java"].entry
    IN  /\ \A t, u \in Threads :
              th[t].at \in {"append", "dies"} /\ th[u].at \in {"append", "dies"} => t = u
        /\ ~crash["java"].cleared =>
              /\ \A t \in Threads : th[t].at = "append" =>
                    /\ ~crash["java"].over /\ ~th[t].orphan /\ th[t].line = e
                    /\ Len(e) = 1 /\ Reported(data["java"], e, 0, crash["java"].lost)
              /\ crash["java"].over \/ (\E t \in Threads : th[t].at = "dies") =>
                    Reported(data["java"], e, Len(e), crash["java"].lost)

IInv ==
    /\ Counted
    /\ ThreadsTyped
    /\ FilesTyped
    /\ SignalTyped
    /\ Linked
    /\ WithinFile
    /\ AtEnd
    /\ Room
    /\ LogsKept
    /\ CrashTyped
    /\ Dated
    /\ NativeReport
    /\ JavaReport

-----------------------------------------------------------------------------
(* The operators.                                                          *)

\* The longest line is a size of a line.
LEMMA MaxLineTyped ==
    MaxLine \in Nat \ {0} /\ MaxLine \in LineSizes
    /\ \A n \in LineSizes : n \in Nat \ {0} /\ n =< MaxLine
<1>1. MaxLine \in LineSizes /\ \A m \in LineSizes : m =< MaxLine
  BY CrashLogAssumption DEF MaxLine
<1>2. QED
  BY <1>1, CrashLogAssumption

\* The line of a checkpoint is a sequence of entries (checkpoint()).
LEMMA LineTyped ==
    ASSUME NEW k \in 1..MaxLines, NEW n \in LineSizes
    PROVE  /\ [i \in 1..n |-> <<"kt", k, i>>] \in Seq(Entries)
           /\ Len([i \in 1..n |-> <<"kt", k, i>>]) =< MaxLine
<1>1. n \in Nat /\ n =< MaxLine /\ MaxLine \in Nat
  BY MaxLineTyped
<1>2. \A i \in 1..n : <<"kt", k, i>> \in Entries
  BY <1>1 DEF Entries
<1>3. [i \in 1..n |-> <<"kt", k, i>>] \in Seq(Entries)
  BY <1>1, <1>2, IsASeq
<1>4. Len([i \in 1..n |-> <<"kt", k, i>>]) = n
  BY <1>1
<1>5. QED
  BY <1>1, <1>3, <1>4

\* The reports of crashes are made of entries.
LEMMA ReportsTyped ==
    /\ NativeEntry \subseteq Entries
    /\ \A n \in 1..MaxEntries : JavaEntry(n) \in Seq(Entries)
  BY DEF NativeEntry, Entries, JavaEntry

\* The reports of the two copies of the handler, one after the other, and
\* then the system's (crash_signal_handler()).
LEMMA SignalStart ==
    ASSUME NEW n \in 1..MaxEntries,
           NEW s, s = Report("tun2socks", n) \o Report("ciadpi", n)
    PROVE  /\ Append(s, Dies) \in Seq(NativeEntry \cup {Dies})
           /\ \A i \in 1..(Len(Append(s, Dies)) - 1) :
                 Append(s, Dies)[i] \in NativeEntry
<1>1. \A lib \in Libs : Report(lib, n) \in Seq(NativeEntry)
  <2> SUFFICES ASSUME NEW lib \in Libs PROVE Report(lib, n) \in Seq(NativeEntry)
    OBVIOUS
  <2>1. <<lib, n, 1>> \in NativeEntry /\ <<lib, n, 2>> \in NativeEntry
    BY DEF NativeEntry
  <2>2. QED
    BY <2>1 DEF Report
<1>2. s \in Seq(NativeEntry)
  BY <1>1, ConcatProperties DEF Libs
<1> HIDE DEF NativeEntry
<1>3. s \in Seq(NativeEntry \cup {Dies})
  BY <1>2, SeqMonotonic
<1>4. /\ Append(s, Dies) \in Seq(NativeEntry \cup {Dies})
      /\ Len(Append(s, Dies)) = Len(s) + 1
      /\ \A i \in 1..Len(s) : Append(s, Dies)[i] = s[i]
  BY <1>3, AppendProperties
<1>5. \A i \in 1..Len(s) : s[i] \in NativeEntry
  BY <1>2, ElementOfSeq
<1>6. Len(s) \in Nat
  BY <1>2, LenProperties
<1>7. QED
  BY <1>4, <1>5, <1>6

\* write() at an offset within the file: the file grows by a line at most,
\* and at its end this appends.
LEMMA WrittenLemma ==
    ASSUME NEW S, NEW s \in Seq(S), NEW line \in Seq(S), NEW off \in Nat,
           off =< Len(s)
    PROVE  /\ Written(s, off, line) \in Seq(S)
           /\ Len(Written(s, off, line)) =< Len(s) + Len(line)
           /\ Len(Written(s, off, line)) >= Len(s)
           /\ off = Len(s) => Written(s, off, line) = s \o line
<1> DEFINE n == IF Len(s) > off + Len(line) THEN Len(s) ELSE off + Len(line)
           w == Written(s, off, line)
<1>1. Len(s) \in Nat /\ Len(line) \in Nat /\ n \in Nat
  BY LenProperties
<1>2. w = [i \in 1..n |->
              IF i \in (off + 1)..(off + Len(line)) THEN line[i - off] ELSE s[i]]
  BY DEF Written
<1>3. \A i \in 1..n :
        IF i \in (off + 1)..(off + Len(line)) THEN line[i - off] \in S
                                              ELSE s[i] \in S
  <2> SUFFICES ASSUME NEW i \in 1..n
               PROVE  IF i \in (off + 1)..(off + Len(line))
                      THEN line[i - off] \in S ELSE s[i] \in S
    OBVIOUS
  <2>1. CASE i \in (off + 1)..(off + Len(line))
    <3>1. i - off \in 1..Len(line)
      BY <1>1, <2>1
    <3>2. QED
      BY <2>1, <3>1, ElementOfSeq
  <2>2. CASE i \notin (off + 1)..(off + Len(line))
    <3>1. i \in 1..Len(s)
      BY <1>1, <2>2
    <3>2. QED
      BY <2>2, <3>1, ElementOfSeq
  <2>3. QED
    BY <2>1, <2>2
<1>4. w \in Seq(S)
  <2>1. \A i \in 1..n : w[i] \in S
    BY <1>2, <1>3
  <2>2. QED
    BY <1>1, <1>2, <2>1, IsASeq
<1>5. Len(w) = n
  BY <1>1, <1>2
<1>6. ASSUME off = Len(s) PROVE w = s \o line
  <2>1. n = Len(s) + Len(line)
    BY <1>1, <1>6
  <2>2. /\ s \o line \in Seq(S) /\ Len(s \o line) = n
        /\ \A i \in 1..n : (s \o line)[i] =
              IF i =< Len(s) THEN s[i] ELSE line[i - Len(s)]
    BY <2>1, ConcatProperties
  <2>3. \A i \in 1..n : w[i] = (s \o line)[i]
    BY <1>1, <1>2, <1>6, <2>1, <2>2
  <2>4. QED
    BY <1>4, <1>5, <2>2, <2>3, SeqEqual
<1>7. QED
  BY <1>1, <1>4, <1>5, <1>6

-----------------------------------------------------------------------------
(* What the steps do to the threads.                                       *)

\* A thread between two calls has no line.
LEMMA IdleTyped ==
    ASSUME NEW a \in Stage
    PROVE  /\ [Idle EXCEPT !.at = a] \in Thread
           /\ [Idle EXCEPT !.at = a].at = a
           /\ Idle \in Thread /\ Idle.at = "idle"
<1>1. <<>> \in Seq(Entries)
  BY EmptySeq
<1>2. Idle \in Thread /\ Idle.at = "idle"
  BY <1>1 DEF Idle, Thread, Stage
<1>3. [Idle EXCEPT !.at = a] \in Thread /\ [Idle EXCEPT !.at = a].at = a
  BY <1>2 DEF Thread
<1>4. QED
  BY <1>2, <1>3

\* A thread that begins a call with a line.
LEMMA BeginTyped ==
    ASSUME NEW a \in Stage, NEW l \in Seq(Entries)
    PROVE  /\ [Idle EXCEPT !.at = a, !.line = l] \in Thread
           /\ [Idle EXCEPT !.at = a, !.line = l].at = a
           /\ [Idle EXCEPT !.at = a, !.line = l].line = l
<1>1. Idle \in Thread
  BY IdleTyped
<1>2. QED
  BY <1>1 DEF Thread

\* A deletion leaves the threads where they are (Orphaned).
LEMMA OrphanedTyped ==
    ASSUME ThreadsTyped, NEW f \in Files
    PROVE  /\ Orphaned(f) \in [Threads -> Thread]
           /\ \A u \in Threads :
                /\ Orphaned(f)[u].at = th[u].at
                /\ Orphaned(f)[u].line = th[u].line
                /\ Orphaned(f)[u].off = th[u].off
                /\ th[u].orphan => Orphaned(f)[u].orphan
                /\ th[u].at \in HoldsAt(f) => Orphaned(f)[u].orphan
                /\ Orphaned(f)[u].orphan => th[u].orphan \/ th[u].at \in HoldsAt(f)
<1>1. \A u \in Threads : th[u] \in Thread
  BY DEF ThreadsTyped
<1>2. \A u \in Threads :
        Orphaned(f)[u] = [th[u] EXCEPT !.orphan = @ \/ th[u].at \in HoldsAt(f)]
  BY DEF Orphaned
<1>3. Orphaned(f) = [u \in Threads |-> Orphaned(f)[u]]
  BY DEF Orphaned
<1>4. \A u \in Threads : Orphaned(f)[u] \in Thread
  BY <1>1, <1>2 DEF Thread
<1>5. QED
  BY <1>1, <1>2, <1>3, <1>4 DEF Thread

\* The thread that rotates goes on to open the file; no thread is left that
\* would write into a file with a name.
LEMMA RotateEffect ==
    ASSUME ThreadsTyped, NEW t \in Threads, rotate(t)
    PROVE  /\ ThreadsTyped'
           /\ \A u \in Threads : ~Writer(u)'
<1> DEFINE o == Orphaned("checkpoints")
<1>1. /\ o \in [Threads -> Thread]
      /\ \A u \in Threads :
           /\ o[u].at = th[u].at /\ o[u].line = th[u].line
           /\ th[u].at = "write" => o[u].orphan
  BY OrphanedTyped DEF Files, HoldsAt
<1>2. th' = [o EXCEPT ![t].at = "open", ![t].orphan = FALSE]
  BY DEF rotate
<1> HIDE DEF o
<1>3. /\ th' = [o EXCEPT ![t] = [o[t] EXCEPT !.at = "open", !.orphan = FALSE]]
      /\ th[t].at = "delete"
  BY <1>1, <1>2 DEF rotate
<1>4. [o[t] EXCEPT !.at = "open", !.orphan = FALSE] \in Thread
  BY <1>1 DEF Thread, Stage
<1>5. /\ th' \in [Threads -> Thread]
      /\ th'[t].at = "open" /\ th'[t].line = th[t].line
      /\ \A u \in Threads \ {t} : th'[u] = o[u]
  BY <1>1, <1>3, <1>4 DEF Thread
<1>6. ThreadsTyped'
  <2>1. ASSUME NEW u \in Threads, th'[u].at \in {"delete", "open", "seek", "write"}
        PROVE  Len(th'[u].line) =< MaxLine
    BY <1>1, <1>3, <1>5, <2>1 DEF ThreadsTyped
  <2>2. QED
    BY <1>5, <2>1 DEF ThreadsTyped
<1>7. QED
  BY <1>1, <1>5, <1>6 DEF Writer

\* A deletion by clearAll() adds no writer, and that of the checkpoints
\* leaves none.
LEMMA DeleteEffect ==
    ASSUME ThreadsTyped, NEW f \in Files, NEW from, NEW to \in Stage,
           to \notin {"delete", "open", "seek", "write"}, Delete(f, from, to)
    PROVE  /\ ThreadsTyped'
           /\ \A u \in Threads :
                /\ Writer(u)' => Writer(u) /\ th'[u].off = th[u].off
                /\ u \in Committed' => u \in Committed
                /\ f = "checkpoints" => ~Writer(u)'
<1> DEFINE o == Orphaned(f)
<1>1. /\ o \in [Threads -> Thread]
      /\ \A u \in Threads :
           /\ o[u].at = th[u].at /\ o[u].line = th[u].line
           /\ o[u].off = th[u].off /\ (th[u].orphan => o[u].orphan)
           /\ f = "checkpoints" /\ th[u].at = "write" => o[u].orphan
  BY OrphanedTyped DEF HoldsAt
<1>2. th' = [o EXCEPT ![Main] = [Idle EXCEPT !.at = to]]
  BY DEF Delete
<1> HIDE DEF o
<1>3. [Idle EXCEPT !.at = to] \in Thread /\ [Idle EXCEPT !.at = to].at = to
  BY IdleTyped
<1>4. /\ th' \in [Threads -> Thread] /\ th'[Main].at = to
      /\ \A u \in Threads \ {Main} : th'[u] = o[u]
  BY <1>1, <1>2, <1>3, CrashLogAssumption
<1>5. ThreadsTyped'
  BY <1>1, <1>4 DEF ThreadsTyped
<1>6. QED
  BY <1>1, <1>4, <1>5 DEF Writer, Committed

\* A step that leaves every thread alone but one, which is then no writer.
LEMMA OneThread ==
    ASSUME ThreadsTyped, NEW t \in Threads, NEW r \in Thread,
           th' = [th EXCEPT ![t] = r],
           r.at \in {"delete", "open", "seek", "write"} => Len(r.line) =< MaxLine
    PROVE  /\ ThreadsTyped'
           /\ th'[t] = r /\ \A u \in Threads \ {t} : th'[u] = th[u]
           /\ r.at # "write" =>
                \A u \in Threads : Writer(u)' => Writer(u) /\ th'[u].off = th[u].off
           /\ r.at \notin {"open", "seek", "write"} => Committed' \subseteq Committed
           /\ r.at \in {"open", "seek", "write"} =>
                Committed' \subseteq Committed \cup {t}
<1>1. th' \in [Threads -> Thread]
      /\ th'[t] = r /\ \A u \in Threads \ {t} : th'[u] = th[u]
  BY DEF ThreadsTyped
<1>2. ThreadsTyped'
  BY <1>1 DEF ThreadsTyped
<1>3. QED
  BY <1>1, <1>2 DEF Writer, Committed

\* A write into the file with the name makes it no shorter, and longer by a
\* line at most.
LEMMA GrowsByLine ==
    ASSUME FilesTyped, ThreadsTyped, WithinFile, NEW t \in Threads, write(t),
           ~th[t].orphan
    PROVE  /\ Len(data'["checkpoints"]) \in Nat
           /\ Len(data'["checkpoints"]) >= Len(data["checkpoints"])
           /\ Len(data'["checkpoints"]) =< Len(data["checkpoints"]) + MaxLine
<1> DEFINE d == data["checkpoints"]
           l == th[t].line
           o == th[t].off
<1>1. d \in Seq(Entries) /\ l \in Seq(Entries) /\ o \in Nat
  BY DEF FilesTyped, ThreadsTyped, Thread, Files
<1>2. data'["checkpoints"] = Written(d, o, l)
  BY DEF write, FilesTyped, Files
<1>3. o =< Len(d)
  BY DEF write, WithinFile, Writer
<1>4. Len(l) =< MaxLine
  BY DEF write, ThreadsTyped
<1> HIDE DEF d, l, o
<1>5. /\ Written(d, o, l) \in Seq(Entries)
      /\ Len(Written(d, o, l)) =< Len(d) + Len(l)
      /\ Len(Written(d, o, l)) >= Len(d)
  BY <1>1, <1>3, WrittenLemma
<1>6. Len(d) \in Nat /\ Len(l) \in Nat /\ Len(Written(d, o, l)) \in Nat
  BY <1>1, <1>5, LenProperties
<1>7. QED
  BY <1>2, <1>4, <1>5, <1>6, MaxLineTyped DEF d

\* Multiplication by a size is monotone.
LEMMA TimesMonotone ==
    ASSUME NEW a \in Nat, NEW b \in Nat, NEW m \in Nat, a =< b
    PROVE  a * m =< b * m /\ a * m \in Nat /\ b * m \in Nat
<1>1. PICK d \in Nat : b = a + d
  <2>1. b - a \in Nat /\ b = a + (b - a)
    OBVIOUS
  <2>2. QED
    BY <2>1
<1>2. b * m = a * m + d * m /\ a * m \in Nat /\ d * m \in Nat
  BY <1>1
<1>3. QED
  BY <1>2

-----------------------------------------------------------------------------
(* Every step keeps the inductive invariant.                               *)

\* The counters stay within their bounds.
LEMMA NextCounted == IInv /\ [Next]_vars => Counted'
<1> SUFFICES ASSUME IInv, [Next]_vars PROVE Counted'
  OBVIOUS
<1>1. Counted /\ MaxStarts \in Nat /\ MaxLines \in Nat /\ MaxEntries \in Nat
  BY CrashLogAssumption DEF IInv
<1>2. starts' \in 0..MaxStarts
  <2>1. UNCHANGED starts \/ (starts < MaxStarts /\ starts' = starts + 1)
    BY DEF Next, vars, checkpoint, rotate, deleteFails, open, seek, write, fail,
      uncaughtException, appendToFile, appendFails, install, clearAll, Delete, Emptied,
      truncateInPlace, Kept, crash_handler_install, crash_log_checkpoint,
      crash_signal_handler, report, die, start
  <2>2. QED
    BY <1>1, <2>1 DEF Counted
<1>4. lines' \in 0..MaxLines
  <2>1. UNCHANGED lines \/ (lines < MaxLines /\ lines' = lines + 1)
    BY DEF Next, vars, checkpoint, rotate, deleteFails, open, seek, write, fail,
      uncaughtException, appendToFile, appendFails, install, clearAll, Delete, Emptied,
      truncateInPlace, Kept, crash_handler_install, crash_log_checkpoint,
      crash_signal_handler, report, die, start
  <2>2. QED
    BY <1>1, <2>1 DEF Counted
<1>5. entries' \in 0..MaxEntries
  <2>1. UNCHANGED entries \/ (entries < MaxEntries /\ entries' = entries + 1)
    BY DEF Next, vars, checkpoint, rotate, deleteFails, open, seek, write, fail,
      uncaughtException, appendToFile, appendFails, install, clearAll, Delete, Emptied,
      truncateInPlace, Kept, crash_handler_install, crash_log_checkpoint,
      crash_signal_handler, report, die, start
  <2>2. QED
    BY <1>1, <2>1 DEF Counted
<1>3. up' \in BOOLEAN /\ installed' \in BOOLEAN /\ raced' \in BOOLEAN
      /\ undeleted' \in BOOLEAN
  BY <1>1 DEF Counted, Next, vars, checkpoint, rotate, deleteFails, open, seek, write, fail,
    uncaughtException, appendToFile, appendFails, install, clearAll, Delete, Emptied,
    truncateInPlace, Kept, crash_handler_install, crash_log_checkpoint,
    crash_signal_handler, report, die, start
<1>6. QED
  BY <1>2, <1>3, <1>4, <1>5 DEF Counted

\* The descriptors of the native log are opened and closed, never orphaned:
\* clearAll() truncates that file in place.
LEMMA NextLinked == IInv /\ [Next]_vars => Linked'
  BY DEF IInv, Linked, Next, vars, checkpoint, rotate, deleteFails, open, seek, write, fail,
    uncaughtException, appendToFile, appendFails, install, clearAll, Delete, Emptied,
    truncateInPlace, Kept, crash_handler_install, crash_log_checkpoint,
    crash_signal_handler, report, die, start

\* The handlers write what they have begun to report, piece by piece.
LEMMA NextSignal == IInv /\ [Next]_vars => SignalTyped'
<1> SUFFICES ASSUME IInv, [Next]_vars PROVE SignalTyped'
  OBVIOUS
<1>1. SignalTyped /\ Counted /\ MaxEntries \in Nat
  BY CrashLogAssumption DEF IInv
<1>2. CASE crash_signal_handler
  <2>1. entries' \in 1..MaxEntries
    BY <1>1, <1>2 DEF crash_signal_handler, Counted
  <2>2. signal' = Append(Report("tun2socks", entries')
                           \o Report("ciadpi", entries'), Dies)
    BY <1>2 DEF crash_signal_handler
  <2>3. QED
    BY <2>1, <2>2, SignalStart DEF SignalTyped
<1>3. CASE report
  <2> DEFINE S == NativeEntry \cup {Dies}
  <2>1. signal \in Seq(S) /\ signal # <<>> /\ signal' = Tail(signal)
    BY <1>1, <1>3 DEF report, SignalTyped
  <2> HIDE DEF S
  <2>2. /\ signal' \in Seq(S) /\ Len(signal') = Len(signal) - 1
        /\ \A i \in 1..Len(signal') : signal'[i] = signal[i + 1]
    BY <2>1, HeadTailProperties
  <2>3. \A i \in 1..(Len(signal') - 1) : signal'[i] \in NativeEntry
    BY <1>1, <2>1, <2>2, LenProperties DEF SignalTyped
  <2>4. QED
    BY <2>2, <2>3 DEF SignalTyped, S
<1>4. CASE die
  BY <1>4, EmptySeq DEF die, SignalTyped
<1>5. CASE UNCHANGED signal
  BY <1>1, <1>5 DEF SignalTyped
<1>6. QED
  BY <1>2, <1>3, <1>4, <1>5 DEF Next, vars, checkpoint, rotate, deleteFails, open, seek,
    write, fail, uncaughtException, appendToFile, appendFails, install, clearAll, Delete,
    Emptied, truncateInPlace, Kept, crash_handler_install, crash_log_checkpoint, start

\* A step that adds no writer to the checkpoints and no line.
Still ==
    /\ data'["checkpoints"] = data["checkpoints"]
    /\ log'["checkpoints"] = log["checkpoints"]
    /\ raced' = raced /\ undeleted' = undeleted
    /\ \A u \in Threads : Writer(u)' => Writer(u) /\ th'[u].off = th[u].off
    /\ Committed' \subseteq Committed

ClearCheckpoints == Delete("checkpoints", "clear checkpoints", "idle")

\* A checkpoint is begun, rotates, reads the length or writes, or clearAll()
\* deletes the file; all other steps leave the checkpoints alone.
LEMMA StepKinds ==
    ASSUME IInv, [Next]_vars
    PROVE  /\ ThreadsTyped'
           /\ \/ Still
              \/ \E t \in Threads : checkpoint(t) \/ rotate(t) \/ seek(t) \/ write(t)
              \/ \E t \in Threads : deleteFails(t) /\ \A u \in Threads :
                    Writer(u)' => Writer(u) /\ th'[u].off = th[u].off
              \/ ClearCheckpoints
<1>t. /\ ThreadsTyped /\ FilesTyped /\ Counted
      /\ MaxLines \in Nat /\ MaxEntries \in Nat /\ MaxLine \in Nat
      /\ Main \in Threads
  BY CrashLogAssumption, MaxLineTyped DEF IInv
<1>1. ASSUME NEW t \in Threads, checkpoint(t) PROVE ThreadsTyped'
  <2>1. lines' \in 1..MaxLines
    BY <1>1, <1>t DEF checkpoint, Counted
  <2>2. PICK n \in LineSizes :
          th' = [th EXCEPT ![t] =
                   [Idle EXCEPT !.at = IF TooLong THEN "delete" ELSE "open",
                                !.line = [i \in 1..n |-> <<"kt", lines', i>>]]]
    BY <1>1 DEF checkpoint
  <2> DEFINE l == [i \in 1..n |-> <<"kt", lines', i>>]
             a == IF TooLong THEN "delete" ELSE "open"
             r == [Idle EXCEPT !.at = a, !.line = l]
  <2>3. l \in Seq(Entries) /\ Len(l) =< MaxLine
    BY <2>1, LineTyped
  <2>4. a \in Stage
    BY DEF Stage
  <2>5. th' = [th EXCEPT ![t] = r]
    BY <2>2
  <2> HIDE DEF l, a
  <2>6. r \in Thread /\ r.line = l
    BY <2>3, <2>4, BeginTyped
  <2> HIDE DEF r
  <2>7. QED
    BY <1>t, <2>3, <2>5, <2>6, OneThread
<1>2. ASSUME NEW t \in Threads, open(t) PROVE ThreadsTyped' /\ Still
  <2> DEFINE r == [th[t] EXCEPT !.at = "seek"]
  <2>1. th[t] \in Thread /\ th[t].at = "open" /\ Len(th[t].line) =< MaxLine
    BY <1>2, <1>t DEF open, ThreadsTyped
  <2>2. r \in Thread /\ r.at = "seek" /\ r.line = th[t].line
    BY <2>1 DEF Thread, Stage
  <2>3. th' = [th EXCEPT ![t] = r]
    BY <1>2 DEF open
  <2> HIDE DEF r
  <2>4. /\ ThreadsTyped'
        /\ \A u \in Threads : Writer(u)' => Writer(u) /\ th'[u].off = th[u].off
        /\ Committed' \subseteq Committed \cup {t}
    BY <1>t, <2>1, <2>2, <2>3, OneThread
  <2>5. t \in Committed
    BY <2>1 DEF Committed
  <2>6. QED
    BY <1>2, <2>4, <2>5 DEF open, Still
<1>3. ASSUME NEW t \in Threads, seek(t) PROVE ThreadsTyped'
  <2> DEFINE o == IF th[t].orphan THEN 0 ELSE End(t)
             r == [th[t] EXCEPT !.at = "write", !.off = o]
  <2>1. th[t] \in Thread /\ Len(th[t].line) =< MaxLine
    BY <1>3, <1>t DEF seek, ThreadsTyped
  <2>2. o \in Nat
    BY <1>t, LenProperties DEF FilesTyped, Files, End
  <2>3. th' = [th EXCEPT ![t] = r]
    BY <1>3 DEF seek
  <2> HIDE DEF o
  <2>4. r \in Thread /\ r.line = th[t].line
    BY <2>1, <2>2 DEF Thread, Stage
  <2> HIDE DEF r
  <2>5. QED
    BY <1>t, <2>1, <2>3, <2>4, OneThread
<1>4. ASSUME NEW t \in Threads, th' = [th EXCEPT ![t] = Idle]
      PROVE  /\ ThreadsTyped'
             /\ \A u \in Threads : Writer(u)' => Writer(u) /\ th'[u].off = th[u].off
             /\ Committed' \subseteq Committed
  <2>1. Idle \in Thread /\ Idle.at = "idle"
    BY IdleTyped DEF Stage
  <2>2. QED
    BY <1>t, <1>4, <2>1, OneThread
<1>5. ASSUME NEW t \in Threads, NEW a \in Stage,
             a \notin {"delete", "open", "seek", "write"},
             th' = [th EXCEPT ![t] = [Idle EXCEPT !.at = a]]
      PROVE  /\ ThreadsTyped'
             /\ \A u \in Threads : Writer(u)' => Writer(u) /\ th'[u].off = th[u].off
             /\ Committed' \subseteq Committed
  <2> DEFINE r == [Idle EXCEPT !.at = a]
  <2>1. r \in Thread /\ r.at = a
    BY IdleTyped
  <2> HIDE DEF r
  <2>2. th' = [th EXCEPT ![t] = r]
    BY <1>5 DEF r
  <2>3. QED
    BY <1>t, <1>5, <2>1, <2>2, OneThread
<1>6. ASSUME NEW t \in Threads, uncaughtException(t) PROVE ThreadsTyped' /\ Still
  <2> DEFINE r == [Idle EXCEPT !.at = "append", !.line = JavaEntry(entries')]
  <2>1. entries' \in 1..MaxEntries
    BY <1>6, <1>t DEF uncaughtException, Counted
  <2>2. th' = [th EXCEPT ![t] = r]
    BY <1>6 DEF uncaughtException
  <2>3. r \in Thread /\ r.at = "append"
    BY <2>1, ReportsTyped, BeginTyped DEF Stage
  <2> HIDE DEF r
  <2>4. QED
    BY <1>t, <1>6, <2>2, <2>3, OneThread DEF uncaughtException, Still
<1>7. ASSUME NEW t \in Threads, fail(t) PROVE ThreadsTyped' /\ Still
  BY <1>4, <1>7 DEF fail, Still
<1>8. ASSUME NEW t \in Threads, write(t) PROVE ThreadsTyped'
  BY <1>4, <1>8 DEF write
<1>9. ASSUME NEW t \in Threads, appendToFile(t) \/ appendFails(t)
      PROVE  ThreadsTyped' /\ Still
  <2>1. "dies" \in Stage
    BY DEF Stage
  <2>2. data'["checkpoints"] = data["checkpoints"]
        /\ log'["checkpoints"] = log["checkpoints"]
    BY <1>9, <1>t DEF appendToFile, appendFails, FilesTyped, Files
  <2>3. QED
    BY <1>5, <1>9, <2>1, <2>2 DEF appendToFile, appendFails, Still
<1>10. CASE install
  BY <1>5, <1>10, <1>t DEF install, MainAt, Still, Stage
<1>11. CASE truncateInPlace
  <2>1. data'["checkpoints"] = data["checkpoints"]
        /\ log'["checkpoints"] = log["checkpoints"] /\ raced' = raced
        /\ undeleted' = undeleted
    BY <1>11, <1>t DEF truncateInPlace, Emptied, FilesTyped, Files, Counted
  <2>2. QED
    BY <1>5, <1>11, <1>t, <2>1 DEF truncateInPlace, MainAt, Still, Stage
<1>12. CASE Delete("java", "idle", "clear native")
  <2>1. data'["checkpoints"] = data["checkpoints"]
        /\ log'["checkpoints"] = log["checkpoints"] /\ raced' = raced
        /\ undeleted' = undeleted
    BY <1>12, <1>t DEF Delete, Emptied, FilesTyped, Files, Counted
  <2>2. /\ ThreadsTyped'
        /\ \A u \in Threads : Writer(u)' => Writer(u) /\ th'[u].off = th[u].off
        /\ \A u \in Threads : u \in Committed' => u \in Committed
    BY <1>12, <1>t, DeleteEffect DEF Files, Stage
  <2>3. QED
    BY <2>1, <2>2 DEF Still, Committed
<1>13. CASE ClearCheckpoints
  <2>1. ThreadsTyped'
    BY <1>13, <1>t, DeleteEffect DEF ClearCheckpoints, Files, Stage
  <2>2. QED
    BY <1>13, <2>1
<1>14. ASSUME NEW lib \in Libs, crash_handler_install(lib)
       PROVE  ThreadsTyped' /\ Still
  <2>1. CASE lib = "ciadpi"
    BY <1>5, <1>14, <1>t, <2>1 DEF crash_handler_install, MainAt, Still, Stage
  <2>2. CASE lib # "ciadpi"
    BY <1>5, <1>14, <1>t, <2>2 DEF crash_handler_install, MainAt, Still, Stage
  <2>3. QED
    BY <2>1, <2>2
<1>15. ASSUME UNCHANGED th
       PROVE  /\ ThreadsTyped'
              /\ \A u \in Threads : Writer(u)' => Writer(u) /\ th'[u].off = th[u].off
              /\ Committed' \subseteq Committed
  BY <1>15, <1>t DEF ThreadsTyped, Writer, Committed
<1>16. CASE (\E lib \in Libs : crash_log_checkpoint(lib)) \/ report
  <2>1. data'["checkpoints"] = data["checkpoints"]
        /\ log'["checkpoints"] = log["checkpoints"]
    BY <1>16, <1>t DEF crash_log_checkpoint, report, safe_write, FilesTyped, Files
  <2>2. QED
    BY <1>15, <1>16, <2>1 DEF crash_log_checkpoint, report, Still
<1>17. CASE crash_signal_handler \/ start \/ UNCHANGED vars
  BY <1>15, <1>17 DEF crash_signal_handler, start, vars, Still
<1>18. CASE die
  <2>1. th' = [u \in Threads |-> Idle] /\ Idle \in Thread /\ Idle.at = "idle"
    BY <1>18, IdleTyped DEF die, Stage
  <2>2. ThreadsTyped' /\ \A u \in Threads : th'[u].at = "idle"
    BY <2>1 DEF ThreadsTyped
  <2>3. QED
    BY <1>18, <2>2 DEF die, Still, Writer, Committed
<1>19. ASSUME NEW t \in Threads, rotate(t) PROVE ThreadsTyped'
  BY <1>19, <1>t, RotateEffect
<1>20. ASSUME NEW t \in Threads, deleteFails(t)
       PROVE  /\ ThreadsTyped'
              /\ \A u \in Threads : Writer(u)' => Writer(u) /\ th'[u].off = th[u].off
  <2> DEFINE r == [th[t] EXCEPT !.at = "open", !.orphan = FALSE]
  <2>1. th[t] \in Thread /\ th[t].at = "delete" /\ Len(th[t].line) =< MaxLine
    BY <1>20, <1>t DEF deleteFails, ThreadsTyped
  <2>2. r \in Thread /\ r.at = "open" /\ r.line = th[t].line
    BY <2>1 DEF Thread, Stage
  <2>3. th' = [th EXCEPT ![t] = r]
    BY <1>20 DEF deleteFails
  <2> HIDE DEF r
  <2>4. QED
    BY <1>t, <2>1, <2>2, <2>3, OneThread
<1>21. CASE \/ Kept("idle", "clear native") \/ Kept("clear native", "clear checkpoints")
            \/ Kept("clear checkpoints", "idle")
  BY <1>5, <1>21, <1>t DEF Kept, MainAt, Still, Stage
<1>22. QED
  BY <1>1, <1>2, <1>3, <1>6, <1>7, <1>8, <1>9, <1>10, <1>11, <1>12, <1>13, <1>14,
    <1>16, <1>17, <1>18, <1>19, <1>20, <1>21 DEF Next, clearAll, ClearCheckpoints

\* The files hold entries, and what was written to them is what they show
\* (FilesTyped, LogsKept), except where checkpoints have met.
LEMMA NextFiles == IInv /\ [Next]_vars => FilesTyped' /\ LogsKept'
<1> SUFFICES ASSUME IInv, [Next]_vars PROVE FilesTyped' /\ LogsKept'
  OBVIOUS
<1>t. FilesTyped /\ LogsKept /\ ThreadsTyped /\ Linked /\ SignalTyped
      /\ Counted /\ WithinFile /\ AtEnd
  BY DEF IInv
<1>1. ASSUME NEW f \in Files, NEW a \in Seq(Entries), NEW b \in Seq(Entries),
             data' = [data EXCEPT ![f] = a], log' = [log EXCEPT ![f] = b],
             a = b \/ (f = "checkpoints" /\ raced'),
             f = "checkpoints" \/ raced' = raced
      PROVE  FilesTyped' /\ LogsKept'
  BY <1>1, <1>t DEF FilesTyped, LogsKept
<1>2. ASSUME UNCHANGED <<data, log>>, raced => raced' PROVE FilesTyped' /\ LogsKept'
  BY <1>2, <1>t DEF FilesTyped, LogsKept
<1>3. <<>> \in Seq(Entries)
  BY EmptySeq
<1>4. ASSUME NEW t \in Threads, rotate(t) PROVE FilesTyped' /\ LogsKept'
  <2>1. CASE th[t].orphan /\ data["checkpoints"] # <<>>
    <3>1. data' = [data EXCEPT !["checkpoints"] = <<>>] /\ log' = log /\ raced'
      BY <1>4, <2>1 DEF rotate
    <3>2. QED
      BY <1>3, <1>t, <3>1 DEF FilesTyped, LogsKept, Files
  <2>2. CASE ~(th[t].orphan /\ data["checkpoints"] # <<>>)
    <3>1. data' = [data EXCEPT !["checkpoints"] = <<>>]
          /\ log' = [log EXCEPT !["checkpoints"] = <<>>]
      BY <1>4, <2>2 DEF rotate
    <3>2. QED
      BY <1>1, <1>3, <3>1 DEF Files
  <2>3. QED
    BY <2>1, <2>2
<1>5. ASSUME NEW t \in Threads, write(t) PROVE FilesTyped' /\ LogsKept'
  <2>1. CASE th[t].orphan
    BY <1>2, <1>5, <2>1 DEF write
  <2>2. CASE ~th[t].orphan
    <3> DEFINE d == data["checkpoints"]
               l == th[t].line
               o == th[t].off
    <3>1. /\ d \in Seq(Entries) /\ log["checkpoints"] \in Seq(Entries)
          /\ l \in Seq(Entries) /\ o \in Nat
      BY <1>t DEF FilesTyped, ThreadsTyped, Thread, Files
    <3>2. /\ data' = [data EXCEPT !["checkpoints"] = Written(d, o, l)]
          /\ log' = [log EXCEPT !["checkpoints"] = log["checkpoints"] \o l]
          /\ raced' = raced
      BY <1>5, <2>2 DEF write
    <3>3. o =< Len(d) /\ (~raced => o = Len(d))
      BY <1>5, <1>t, <2>2 DEF write, WithinFile, AtEnd, Writer
    <3>4. ~raced => d = log["checkpoints"]
      BY <1>t DEF LogsKept, Files
    <3> HIDE DEF d, l, o
    <3>5. Written(d, o, l) \in Seq(Entries)
          /\ (~raced => Written(d, o, l) = d \o l)
      BY <3>1, <3>3, WrittenLemma
    <3>6. log["checkpoints"] \o l \in Seq(Entries)
      BY <3>1, ConcatProperties
    <3>7. QED
      BY <1>1, <3>2, <3>4, <3>5, <3>6 DEF Files
  <2>3. QED
    BY <2>1, <2>2
<1>6. ASSUME NEW t \in Threads, appendToFile(t) PROVE FilesTyped' /\ LogsKept'
  <2>1. CASE th[t].orphan
    BY <1>2, <1>6, <2>1 DEF appendToFile
  <2>2. CASE ~th[t].orphan
    <3>1. /\ data' = [data EXCEPT !["java"] = data["java"] \o th[t].line]
          /\ log' = [log EXCEPT !["java"] = log["java"] \o th[t].line]
          /\ raced' = raced
      BY <1>6, <2>2 DEF appendToFile
    <3>2. data["java"] \in Seq(Entries) /\ th[t].line \in Seq(Entries)
          /\ data["java"] = log["java"]
      BY <1>t DEF FilesTyped, ThreadsTyped, Thread, LogsKept, Files
    <3>3. data["java"] \o th[t].line \in Seq(Entries)
      BY <3>2, ConcatProperties
    <3>4. QED
      BY <1>1, <3>1, <3>2, <3>3 DEF Files
  <2>3. QED
    BY <2>1, <2>2
<1>7. ASSUME NEW lib \in Libs, NEW e \in NativeEntry, NEW ok \in BOOLEAN,
             safe_write(lib, <<e>>, ok), raced' = raced
      PROVE  FilesTyped' /\ LogsKept'
  <2>0. CASE ~ok
    BY <1>2, <1>7, <2>0 DEF safe_write
  <2>1. fd[lib] = "open"
    BY <1>7, <1>t DEF safe_write, Linked
  <2> SUFFICES ASSUME ok PROVE FilesTyped' /\ LogsKept'
    BY <2>0
  <2>2. /\ data' = [data EXCEPT !["native"] = data["native"] \o <<e>>]
        /\ log' = [log EXCEPT !["native"] = log["native"] \o <<e>>]
    BY <1>7, <2>1 DEF safe_write
  <2>3. data["native"] \in Seq(Entries) /\ data["native"] = log["native"]
    BY <1>t DEF FilesTyped, LogsKept, Files
  <2>4. e \in Entries
    BY ReportsTyped
  <2>5. data["native"] \o <<e>> \in Seq(Entries)
    BY <2>3, <2>4
  <2>6. QED
    BY <1>1, <1>7, <2>2, <2>3, <2>5 DEF Files
<1>8. ASSUME NEW lib \in Libs, crash_log_checkpoint(lib)
      PROVE  FilesTyped' /\ LogsKept'
  <2>1. entries' \in 1..MaxEntries
    BY <1>8, <1>t, CrashLogAssumption DEF crash_log_checkpoint, Counted
  <2>2. <<lib, entries', 0>> \in NativeEntry
    BY <2>1 DEF NativeEntry
  <2>3. QED
    BY <1>7, <1>8, <2>2 DEF crash_log_checkpoint
<1>9. CASE report
  <2>1. signal[1] \in NativeEntry
    BY <1>9, <1>t, LenProperties DEF report, SignalTyped
  <2>2. signal[1][1] \in Libs
    BY <2>1 DEF NativeEntry
  <2>3. QED
    BY <1>7, <1>9, <2>1, <2>2 DEF report
<1>10. ASSUME NEW f \in Files, Emptied(f) PROVE FilesTyped' /\ LogsKept'
  <2>1. f = "checkpoints" \/ raced' = raced
    BY <1>10, <1>t DEF Emptied, Counted
  <2>2. QED
    BY <1>1, <1>3, <1>10, <2>1 DEF Emptied
<1>11. CASE clearAll
  BY <1>2, <1>10, <1>11 DEF clearAll, Delete, truncateInPlace, Kept, Files
<1>12. ASSUME NEW t \in Threads, seek(t) PROVE FilesTyped' /\ LogsKept'
  BY <1>2, <1>12 DEF seek
<1>13. ASSUME UNCHANGED <<data, log, raced>> PROVE FilesTyped' /\ LogsKept'
  BY <1>13, <1>t DEF FilesTyped, LogsKept
<1>14. QED
  BY <1>13, <1>4, <1>5, <1>6, <1>8, <1>9, <1>11, <1>12 DEF Next, vars, checkpoint,
    deleteFails, appendFails, open, fail, uncaughtException, install, crash_handler_install,
    crash_signal_handler, die, start

\* Whoever is about to write into the checkpoints has read a length the file
\* still has or has outgrown, and its own length until checkpoints meet.
LEMMA NextWriters == IInv /\ [Next]_vars => WithinFile' /\ AtEnd'
<1> SUFFICES ASSUME IInv, [Next]_vars PROVE WithinFile' /\ AtEnd'
  OBVIOUS
<1>t. FilesTyped /\ ThreadsTyped /\ Counted /\ WithinFile /\ AtEnd /\ ThreadsTyped'
      /\ Len(data["checkpoints"]) \in Nat
  BY StepKinds, LenProperties DEF IInv, FilesTyped, Files
<1>1. ASSUME Still PROVE WithinFile' /\ AtEnd'
  BY <1>1, <1>t DEF Still, WithinFile, AtEnd
<1>2. ASSUME \A u \in Threads : ~Writer(u)' PROVE WithinFile' /\ AtEnd'
  BY <1>2 DEF WithinFile, AtEnd
<1>3. ASSUME NEW t \in Threads, checkpoint(t) PROVE WithinFile' /\ AtEnd'
  <2>1. UNCHANGED <<data, raced>> /\ \A u \in Threads \ {t} : th'[u] = th[u]
    BY <1>3, <1>t DEF checkpoint, ThreadsTyped
  <2>2. PICK n \in LineSizes :
          th' = [th EXCEPT ![t] =
                   [Idle EXCEPT !.at = IF TooLong THEN "delete" ELSE "open",
                                !.line = [i \in 1..n |-> <<"kt", lines', i>>]]]
    BY <1>3 DEF checkpoint
  <2>3. th'[t].at \in {"delete", "open"}
    BY <1>t, <2>2 DEF ThreadsTyped, Idle
  <2>4. QED
    BY <1>t, <2>1, <2>3 DEF WithinFile, AtEnd, Writer
<1>4. ASSUME NEW t \in Threads, rotate(t) PROVE WithinFile' /\ AtEnd'
  BY <1>2, <1>4, <1>t, RotateEffect
<1>5. CASE ClearCheckpoints
  BY <1>2, <1>5, <1>t, DeleteEffect DEF ClearCheckpoints, Files, Stage
<1>6. ASSUME NEW t \in Threads, seek(t) PROVE WithinFile' /\ AtEnd'
  <2>1. UNCHANGED data /\ \A u \in Threads \ {t} : th'[u] = th[u]
    BY <1>6, <1>t DEF seek, ThreadsTyped
  <2>2. /\ th[t].at = "seek"
        /\ th'[t].orphan = th[t].orphan
        /\ ~th[t].orphan => th'[t].off = Len(data["checkpoints"])
    BY <1>6, <1>t DEF seek, ThreadsTyped, Thread, End
  <2>3. /\ raced => raced'
        /\ ~raced' /\ ~th[t].orphan => \A u \in Threads \ {t} : ~Writer(u)
    BY <1>6 DEF seek, Writer
  <2>4. WithinFile'
    BY <1>t, <2>1, <2>2 DEF WithinFile, Writer
  <2>5. AtEnd'
    BY <1>t, <2>1, <2>2, <2>3 DEF AtEnd, Writer
  <2>6. QED
    BY <2>4, <2>5
<1>7. ASSUME NEW t \in Threads, write(t) PROVE WithinFile' /\ AtEnd'
  <2>1. /\ raced' = raced /\ th[t].at = "write" /\ th'[t].at = "idle"
        /\ \A u \in Threads \ {t} : th'[u] = th[u]
    BY <1>7, <1>t DEF write, ThreadsTyped, Idle
  <2>2. CASE th[t].orphan
    <3>1. UNCHANGED data
      BY <1>7, <2>2 DEF write
    <3>2. QED
      BY <1>t, <2>1, <3>1 DEF WithinFile, AtEnd, Writer
  <2>3. CASE ~th[t].orphan
    <3>1. Len(data'["checkpoints"]) \in Nat
          /\ Len(data'["checkpoints"]) >= Len(data["checkpoints"])
      BY <1>7, <1>t, <2>3, GrowsByLine
    <3>2. WithinFile'
      <4>1. ASSUME NEW u \in Threads, Writer(u)'
            PROVE  /\ Writer(u) /\ th'[u].off = th[u].off /\ th[u].off \in Nat
                   /\ th[u].off =< Len(data["checkpoints"])
        BY <1>t, <2>1, <4>1 DEF Writer, ThreadsTyped, Thread, WithinFile
      <4>2. QED
        BY <1>t, <3>1, <4>1 DEF WithinFile
    <3>3. AtEnd'
      BY <1>t, <2>1, <2>3 DEF AtEnd, Writer
    <3>4. QED
      BY <3>2, <3>3
  <2>4. QED
    BY <2>2, <2>3
<1>8. ASSUME NEW t \in Threads, deleteFails(t),
             \A u \in Threads : Writer(u)' => Writer(u) /\ th'[u].off = th[u].off
      PROVE  WithinFile' /\ AtEnd'
  BY <1>8, <1>t DEF deleteFails, WithinFile, AtEnd
<1>9. QED
  BY <1>1, <1>3, <1>4, <1>5, <1>6, <1>7, <1>8, StepKinds

\* The file does not outgrow the lines that are due, if it can be deleted.
LEMMA NextRoom == IInv /\ [Next]_vars => Room'
<1> SUFFICES ASSUME IInv, [Next]_vars PROVE Room'
  OBVIOUS
<1> DEFINE len == Len(data["checkpoints"])
           rest == Threads \ Committed
<1>t. FilesTyped /\ FilesTyped' /\ ThreadsTyped /\ WithinFile /\ Room
  BY NextFiles DEF IInv
<1>m. MAX_CHECKPOINT_FILE_SIZE \in Nat /\ MaxLine \in Nat /\ IsFiniteSet(Threads)
  BY MaxLineTyped, CrashLogAssumption
<1>n. len \in Nat /\ len' \in Nat
  BY <1>t, LenProperties DEF FilesTyped, Files
<1>c. /\ IsFiniteSet(rest) /\ Cardinality(rest) \in Nat
      /\ IsFiniteSet(rest') /\ Cardinality(rest') \in Nat
  <2>1. rest \subseteq Threads /\ rest' \subseteq Threads
    OBVIOUS
  <2>2. IsFiniteSet(rest) /\ IsFiniteSet(rest')
    BY <1>m, <2>1, FS_Subset
  <2>3. QED
    BY <2>2, FS_CardinalityType
<1>r. ~undeleted => len =< MAX_CHECKPOINT_FILE_SIZE + Cardinality(rest) * MaxLine
  BY <1>t DEF Room
<1> HIDE DEF len, rest
<1>1. SUFFICES ASSUME ~undeleted'
               PROVE  len' =< MAX_CHECKPOINT_FILE_SIZE + Cardinality(rest') * MaxLine
  BY <1>1 DEF Room, len, rest
<1>2. ASSUME len' =< MAX_CHECKPOINT_FILE_SIZE
      PROVE  len' =< MAX_CHECKPOINT_FILE_SIZE + Cardinality(rest') * MaxLine
  <2>1. Cardinality(rest') * MaxLine \in Nat
    BY <1>c, <1>m
  <2>2. QED
    BY <1>2, <1>m, <1>n, <2>1
<1>3. ASSUME len' = len, undeleted' = undeleted, Committed' \subseteq Committed
      PROVE  len' =< MAX_CHECKPOINT_FILE_SIZE + Cardinality(rest') * MaxLine
  <2>1. rest \subseteq rest'
    BY <1>3 DEF rest
  <2>2. Cardinality(rest) =< Cardinality(rest')
    BY <1>c, <2>1, FS_Subset
  <2>3. QED
    BY <1>1, <1>3, <1>c, <1>m, <1>n, <1>r, <2>2, TimesMonotone
<1>4. CASE Still
  BY <1>3, <1>4 DEF Still, len
<1>5. ASSUME NEW t \in Threads, checkpoint(t)
      PROVE  len' =< MAX_CHECKPOINT_FILE_SIZE + Cardinality(rest') * MaxLine
  <2>1. len' = len /\ undeleted' = undeleted
    BY <1>5 DEF checkpoint, len
  <2>2. CASE TooLong
    <3>1. PICK n \in LineSizes :
            th' = [th EXCEPT ![t] =
                     [Idle EXCEPT !.at = "delete",
                                  !.line = [i \in 1..n |-> <<"kt", lines', i>>]]]
      BY <1>5, <2>2 DEF checkpoint
    <3>2. th'[t].at = "delete" /\ \A u \in Threads \ {t} : th'[u] = th[u]
      BY <1>t, <3>1 DEF ThreadsTyped, Idle
    <3>3. Committed' \subseteq Committed
      BY <3>2 DEF Committed
    <3>4. QED
      BY <1>3, <2>1, <3>3
  <2>3. CASE ~TooLong
    <3>1. len =< MAX_CHECKPOINT_FILE_SIZE
      BY <1>m, <1>n, <2>3 DEF TooLong, len
    <3>2. QED
      BY <1>2, <2>1, <3>1
  <2>4. QED
    BY <2>2, <2>3
<1>6. ASSUME data'["checkpoints"] = <<>>
      PROVE  len' =< MAX_CHECKPOINT_FILE_SIZE + Cardinality(rest') * MaxLine
  <2>1. len' = 0
    BY <1>6, EmptySeq DEF len
  <2>2. QED
    BY <1>2, <1>m, <2>1
<1>7. ASSUME NEW t \in Threads, rotate(t)
      PROVE  len' =< MAX_CHECKPOINT_FILE_SIZE + Cardinality(rest') * MaxLine
  BY <1>6, <1>7, <1>t DEF rotate, FilesTyped, Files
<1>8. CASE ClearCheckpoints
  BY <1>6, <1>8, <1>t DEF ClearCheckpoints, Delete, Emptied, FilesTyped, Files
<1>9. ASSUME NEW t \in Threads, seek(t)
      PROVE  len' =< MAX_CHECKPOINT_FILE_SIZE + Cardinality(rest') * MaxLine
  <2>1. len' = len /\ undeleted' = undeleted
    BY <1>9 DEF seek, len
  <2>2. th[t].at = "seek" /\ \A u \in Threads \ {t} : th'[u] = th[u]
    BY <1>9, <1>t DEF seek, ThreadsTyped
  <2>3. QED
    BY <1>3, <2>1, <2>2 DEF Committed
<1>10. ASSUME NEW t \in Threads, write(t)
       PROVE  len' =< MAX_CHECKPOINT_FILE_SIZE + Cardinality(rest') * MaxLine
  <2>1. /\ th[t].at = "write" /\ th'[t].at = "idle"
        /\ \A u \in Threads \ {t} : th'[u] = th[u]
    BY <1>10, <1>t DEF write, ThreadsTyped, Idle
  <2>2. t \notin rest /\ rest' = rest \cup {t}
    BY <2>1 DEF rest, Committed
  <2>3. Cardinality(rest') = Cardinality(rest) + 1
    BY <1>c, <2>2, FS_AddElement
  <2>4. len' =< len + MaxLine
    <3>1. CASE th[t].orphan
      BY <1>10, <1>m, <1>n, <3>1 DEF write, len
    <3>2. CASE ~th[t].orphan
      BY <1>10, <1>t, <3>2, GrowsByLine DEF len
    <3>3. QED
      BY <3>1, <3>2
  <2>5. (Cardinality(rest) + 1) * MaxLine = Cardinality(rest) * MaxLine + MaxLine
        /\ Cardinality(rest) * MaxLine \in Nat
    BY <1>c, <1>m
  <2>6. len =< MAX_CHECKPOINT_FILE_SIZE + Cardinality(rest) * MaxLine
    BY <1>1, <1>10, <1>r DEF write
  <2>7. QED
    BY <1>m, <1>n, <2>3, <2>4, <2>5, <2>6
<1>11. \A t \in Threads : ~deleteFails(t)
  BY <1>1 DEF deleteFails
<1>12. QED
  BY <1>4, <1>5, <1>7, <1>8, <1>9, <1>10, <1>11, StepKinds

-----------------------------------------------------------------------------
(* The reports of crashes.                                                 *)

\* A file that one piece is appended to.
LEMMA AppendPiece ==
    ASSUME NEW S, NEW s \in Seq(S), NEW x \in S
    PROVE  /\ s \o <<x>> \in Seq(S)
           /\ DOMAIN s = 1..Len(s) /\ Len(s) \in Nat
           /\ DOMAIN (s \o <<x>>) = 1..(Len(s) + 1)
           /\ \A j \in 1..Len(s) : (s \o <<x>>)[j] = s[j]
           /\ (s \o <<x>>)[Len(s) + 1] = x
<1>1. <<x>> \in Seq(S) /\ Len(<<x>>) = 1 /\ <<x>>[1] = x
  OBVIOUS
<1>2. Len(s) \in Nat /\ DOMAIN s = 1..Len(s)
  BY LenProperties
<1>3. /\ s \o <<x>> \in Seq(S)
      /\ Len(s \o <<x>>) = Len(s) + 1
      /\ \A i \in 1..(Len(s) + 1) : (s \o <<x>>)[i] =
            IF i =< Len(s) THEN s[i] ELSE <<x>>[i - Len(s)]
  BY <1>1, ConcatProperties
<1>4. DOMAIN (s \o <<x>>) = 1..(Len(s) + 1)
  BY <1>3, LenProperties
<1>5. (s \o <<x>>)[Len(s) + 1] = x
  <2>1. Len(s) + 1 \in 1..(Len(s) + 1) /\ ~(Len(s) + 1 =< Len(s))
        /\ (Len(s) + 1) - Len(s) = 1
    BY <1>2
  <2>2. QED
    BY <1>1, <1>3, <2>1
<1>6. \A j \in 1..Len(s) : (s \o <<x>>)[j] = s[j]
  BY <1>2, <1>3
<1>7. QED
  BY <1>2, <1>3, <1>4, <1>5, <1>6

\* The next piece of a report is appended.
LEMMA ReportedNext ==
    ASSUME NEW S, NEW s \in Seq(S), NEW e \in Seq(S), NEW n \in Nat,
           NEW lost, n < Len(e), Reported(s, e, n, lost), Proper(e)
    PROVE  Reported(s \o <<e[n + 1]>>, e, n + 1, lost)
<1> DEFINE w == s \o <<e[n + 1]>>
           z == Len(s) + 1
<1>1. Len(e) \in Nat /\ DOMAIN e = 1..Len(e)
  BY LenProperties
<1>2. n + 1 \in 1..Len(e) /\ e[n + 1] \in S
  BY <1>1, ElementOfSeq
<1>3. /\ DOMAIN s = 1..Len(s) /\ Len(s) \in Nat /\ DOMAIN w = 1..z
      /\ \A j \in 1..Len(s) : w[j] = s[j]
      /\ w[z] = e[n + 1]
  BY <1>2, AppendPiece
<1>4. \A i, k \in 1..Len(e) : e[i] = e[k] => i = k
  BY <1>1 DEF Proper
<1> HIDE DEF w
<1>5. \A j \in 1..Len(s) : w[j] # e[n + 1]
  BY <1>1, <1>2, <1>3 DEF Reported
<1>6. ASSUME NEW i \in 1..(n + 1), e[i] \notin lost
      PROVE  \E j \in DOMAIN w : \A k \in DOMAIN w : w[k] = e[i] <=> k = j
  <2>1. CASE i = n + 1
    <3>1. z \in DOMAIN w /\ \A k \in DOMAIN w : k = z \/ k \in 1..Len(s)
      BY <1>3
    <3>2. \A k \in DOMAIN w : w[k] = e[i] <=> k = z
      BY <1>3, <1>5, <2>1, <3>1
    <3>3. QED
      BY <3>1, <3>2
  <2>2. CASE i # n + 1
    <3>1. i \in 1..n
      BY <2>2
    <3>2. PICK j \in DOMAIN s : \A k \in DOMAIN s : s[k] = e[i] <=> k = j
      BY <1>6, <3>1 DEF Reported
    <3>3. j \in DOMAIN w /\ \A k \in DOMAIN w : k = z \/ k \in 1..Len(s)
      BY <1>3
    <3>4. e[i] # e[n + 1] /\ z # j
      BY <1>1, <1>2, <1>3, <1>4, <3>1
    <3>5. \A k \in DOMAIN w : w[k] = e[i] <=> k = j
      BY <1>3, <3>2, <3>3, <3>4
    <3>6. QED
      BY <3>3, <3>5
  <2>3. QED
    BY <2>1, <2>2
<1>7. ASSUME NEW i \in (n + 1 + 1)..Len(e), NEW j \in DOMAIN w
      PROVE  w[j] # e[i]
  <2>1. i \in (n + 1)..Len(e) /\ i \in 1..Len(e) /\ i # n + 1
    BY <1>1
  <2>2. j = z \/ j \in 1..Len(s)
    BY <1>3
  <2>3. \A m \in 1..Len(s) : s[m] # e[i]
    BY <1>3, <2>1 DEF Reported
  <2>4. e[n + 1] # e[i]
    BY <1>2, <1>4, <2>1
  <2>5. QED
    BY <1>3, <2>2, <2>3, <2>4
<1>8. ASSUME NEW i \in 1..(n + 1), NEW k \in 1..(n + 1), NEW j \in DOMAIN w,
             NEW l \in DOMAIN w, i < k, w[j] = e[i], w[l] = e[k]
      PROVE  j < l
  <2>1. i \in 1..n /\ i \in 1..Len(e) /\ i # n + 1
    BY <1>1, <1>8
  <2>2. (j = z \/ j \in 1..Len(s)) /\ (l = z \/ l \in 1..Len(s))
    BY <1>3
  <2>3. j \in 1..Len(s)
    BY <1>2, <1>3, <1>4, <1>8, <2>1, <2>2
  <2>4. CASE l = z
    BY <1>3, <2>3, <2>4
  <2>5. CASE l \in 1..Len(s)
    <3>1. k # n + 1
      BY <1>5, <1>8, <2>5
    <3>2. k \in 1..n
      BY <3>1
    <3>3. QED
      BY <1>3, <1>8, <2>1, <2>3, <2>5, <3>2 DEF Reported
  <2>6. QED
    BY <2>2, <2>4, <2>5
<1>9. QED
  BY <1>6, <1>7, <1>8 DEF Reported, w

\* The next piece of a report is refused.
LEMMA ReportedLost ==
    ASSUME NEW S, NEW s \in Seq(S), NEW e \in Seq(S), NEW n \in Nat,
           NEW lost, n < Len(e), Reported(s, e, n, lost)
    PROVE  Reported(s, e, n + 1, lost \cup {e[n + 1]})
<1> DEFINE gone == lost \cup {e[n + 1]}
<1>1. Len(e) \in Nat /\ n + 1 \in (n + 1)..Len(e)
  BY LenProperties
<1>2. \A j \in DOMAIN s : s[j] # e[n + 1]
  BY <1>1 DEF Reported
<1>3. ASSUME NEW i \in 1..(n + 1), e[i] \notin gone
      PROVE  \E j \in DOMAIN s : \A k \in DOMAIN s : s[k] = e[i] <=> k = j
  <2>1. i \in 1..n /\ e[i] \notin lost
    BY <1>3
  <2>2. QED
    BY <2>1 DEF Reported
<1>4. \A i \in (n + 1 + 1)..Len(e), j \in DOMAIN s : s[j] # e[i]
  <2>1. \A i \in (n + 1 + 1)..Len(e) : i \in (n + 1)..Len(e)
    BY <1>1
  <2>2. QED
    BY <2>1 DEF Reported
<1>5. ASSUME NEW i \in 1..(n + 1), NEW k \in 1..(n + 1), NEW j \in DOMAIN s,
             NEW l \in DOMAIN s, i < k, s[j] = e[i], s[l] = e[k]
      PROVE  j < l
  <2>1. i # n + 1 /\ k # n + 1
    BY <1>2, <1>5
  <2>2. i \in 1..n /\ k \in 1..n
    BY <2>1
  <2>3. QED
    BY <1>5, <2>2 DEF Reported
<1> HIDE DEF gone
<1>6. Reported(s, e, n + 1, gone)
  BY <1>3, <1>4, <1>5 DEF Reported
<1>7. QED
  BY <1>6 DEF gone

\* Anything else is appended.
LEMMA ReportedOther ==
    ASSUME NEW S, NEW s \in Seq(S), NEW e \in Seq(S), NEW n \in 0..Len(e),
           NEW lost, NEW x \in S, \A i \in DOMAIN e : e[i] # x,
           Reported(s, e, n, lost)
    PROVE  Reported(s \o <<x>>, e, n, lost)
<1> DEFINE w == s \o <<x>>
           z == Len(s) + 1
<1>1. Len(e) \in Nat /\ DOMAIN e = 1..Len(e)
  BY LenProperties
<1>2. /\ DOMAIN s = 1..Len(s) /\ Len(s) \in Nat /\ DOMAIN w = 1..z
      /\ \A j \in 1..Len(s) : w[j] = s[j]
      /\ w[z] = x
  BY AppendPiece
<1>3. 1..n \subseteq 1..Len(e) /\ (n + 1)..Len(e) \subseteq 1..Len(e)
  BY <1>1
<1> HIDE DEF w
<1>4. \A i \in 1..Len(e), j \in DOMAIN w : w[j] = e[i] => j \in 1..Len(s)
  BY <1>1, <1>2
<1>5. ASSUME NEW i \in 1..n, e[i] \notin lost
      PROVE  \E j \in DOMAIN w : \A k \in DOMAIN w : w[k] = e[i] <=> k = j
  <2>1. PICK j \in 1..Len(s) : \A k \in 1..Len(s) : s[k] = e[i] <=> k = j
    <3>1. PICK j \in DOMAIN s : \A k \in DOMAIN s : s[k] = e[i] <=> k = j
      BY <1>5, Zenon DEF Reported
    <3>2. j \in 1..Len(s) /\ \A k \in 1..Len(s) : s[k] = e[i] <=> k = j
      BY <1>2, <3>1
    <3>3. QED
      BY <3>2
  <2>2. j \in DOMAIN w
    BY <1>2
  <2>3. \A k \in DOMAIN w : w[k] = e[i] <=> k = j
    BY <1>2, <1>3, <1>4, <2>1
  <2>4. QED
    BY <2>2, <2>3
<1>6. \A i \in (n + 1)..Len(e), j \in DOMAIN w : w[j] # e[i]
  BY <1>2, <1>3, <1>4 DEF Reported
<1>7. \A i, k \in 1..n, j, l \in DOMAIN w :
        i < k /\ w[j] = e[i] /\ w[l] = e[k] => j < l
  BY <1>2, <1>3, <1>4 DEF Reported
<1>8. QED
  BY <1>5, <1>6, <1>7 DEF Reported, w

\* The report of a signal: the pieces of the handler installed last, then
\* those of the one it replaced (crash_signal_handler()).
LEMMA EntryProper ==
    ASSUME NEW n \in 1..MaxEntries,
           NEW e, e = Report("tun2socks", n) \o Report("ciadpi", n)
    PROVE  /\ e \in Seq(Entries) /\ Proper(e)
           /\ \A i \in DOMAIN e : e[i] \in NativeEntry /\ e[i][2] = n
<1> DEFINE a == Report("tun2socks", n)
           b == Report("ciadpi", n)
<1>1. ASSUME NEW lib \in Libs
      PROVE  /\ Report(lib, n) \in Seq(NativeEntry)
             /\ Len(Report(lib, n)) \in {0, 2}
             /\ \A i \in 1..Len(Report(lib, n)) : Report(lib, n)[i] = <<lib, n, i>>
  <2>1. <<lib, n, 1>> \in NativeEntry /\ <<lib, n, 2>> \in NativeEntry
    BY DEF NativeEntry
  <2>2. CASE fd[lib] = "none"
    BY <2>2 DEF Report
  <2>3. CASE fd[lib] # "none"
    BY <2>1, <2>3 DEF Report
  <2>4. QED
    BY <2>2, <2>3
<1>2. /\ a \in Seq(NativeEntry) /\ b \in Seq(NativeEntry)
      /\ Len(a) \in {0, 2} /\ Len(b) \in {0, 2}
      /\ \A i \in 1..Len(a) : a[i] = <<"tun2socks", n, i>>
      /\ \A i \in 1..Len(b) : b[i] = <<"ciadpi", n, i>>
  BY <1>1 DEF Libs
<1> HIDE DEF a, b
<1>3. /\ e \in Seq(NativeEntry) /\ Len(e) = Len(a) + Len(b)
      /\ \A i \in 1..Len(e) : e[i] = IF i =< Len(a) THEN a[i] ELSE b[i - Len(a)]
  BY <1>2, ConcatProperties DEF a, b
<1>4. DOMAIN e = 1..Len(e)
  BY <1>3, LenProperties
<1>5. ASSUME NEW i \in DOMAIN e
      PROVE  /\ i =< Len(a) => i \in 1..2 /\ e[i] = <<"tun2socks", n, i>>
             /\ ~(i =< Len(a)) => i - Len(a) \in 1..2
                                  /\ e[i] = <<"ciadpi", n, i - Len(a)>>
  <2>1. i \in 1..Len(e) /\ Len(e) = Len(a) + Len(b)
        /\ e[i] = IF i =< Len(a) THEN a[i] ELSE b[i - Len(a)]
    BY <1>3, <1>4
  <2>2. CASE i =< Len(a)
    <3>1. i \in 1..Len(a) /\ i \in 1..2
      BY <1>2, <2>1, <2>2
    <3>2. QED
      BY <1>2, <2>1, <2>2, <3>1
  <2>3. CASE ~(i =< Len(a))
    <3>1. i - Len(a) \in 1..Len(b) /\ i - Len(a) \in 1..2
      BY <1>2, <2>1, <2>3
    <3>2. QED
      BY <1>2, <2>1, <2>3, <3>1
  <2>4. QED
    BY <2>2, <2>3
<1>6. \A i \in DOMAIN e : e[i][3] # 0 /\ e[i][2] = n
  BY <1>5
<1>7. ASSUME NEW i \in DOMAIN e, NEW k \in DOMAIN e, e[i] = e[k]
      PROVE  i = k
  <2>1. i \in Int /\ k \in Int /\ Len(a) \in Int
    BY <1>2, <1>3, <1>4, LenProperties
  <2>2. CASE i =< Len(a) /\ k =< Len(a)
    BY <1>5, <1>7, <2>2
  <2>3. CASE ~(i =< Len(a)) /\ ~(k =< Len(a))
    <3>1. i - Len(a) = k - Len(a)
      BY <1>5, <1>7, <2>3
    <3>2. QED
      BY <2>1, <3>1
  <2>4. CASE ~(i =< Len(a) <=> k =< Len(a))
    BY <1>5, <1>7, <2>4
  <2>5. QED
    BY <2>2, <2>3, <2>4
<1>8. e \in Seq(Entries)
  BY <1>3, ReportsTyped, SeqMonotonic
<1>9. \A i \in DOMAIN e : e[i] \in NativeEntry
  BY <1>3, <1>4, ElementOfSeq
<1>10. QED
  BY <1>6, <1>7, <1>8, <1>9 DEF Proper

\* A process that ends notes which crash it died of.
LEMMA DieEffect ==
    ASSUME CrashTyped, die
    PROVE  \E a, b \in BOOLEAN :
             /\ crash' = [crash EXCEPT !["java"].over = a, !["native"].over = b]
             /\ a => crash["java"].over \/ \E t \in Threads : th[t].at = "dies"
             /\ b => crash["native"].over \/ signal = <<Dies>>
<1> DEFINE a == crash["java"].over \/ \E t \in Threads : th[t].at = "dies"
           b == crash["native"].over \/ signal = <<Dies>>
<1>1. a \in BOOLEAN /\ b \in BOOLEAN
  BY DEF CrashTyped
<1>2. crash' = [crash EXCEPT !["java"].over = a, !["native"].over = b]
  BY DEF die
<1> HIDE DEF a, b
<1>3. QED
  BY <1>1, <1>2 DEF a, b

\* The report is followed by the end of the process.
LEMMA SignalAppended ==
    ASSUME NEW e \in Seq(Entries)
    PROVE  /\ Len(Append(e, Dies)) = Len(e) + 1
           /\ Len(e) \in Nat /\ DOMAIN e = 1..Len(e)
           /\ \A i \in 1..Len(e) : Append(e, Dies)[i] = e[i]
<1>1. e \in Seq(Entries \cup {Dies}) /\ Dies \in Entries \cup {Dies}
  BY SeqMonotonic
<1>2. QED
  BY <1>1, AppendProperties, LenProperties

\* A handler goes on to the next piece (report).
LEMMA SignalShifted ==
    ASSUME SignalTyped, report
    PROVE  /\ Len(signal') = Len(signal) - 1 /\ Len(signal) \in Nat
           /\ \A i \in 1..Len(signal') : signal'[i] = signal[i + 1]
<1> DEFINE S == NativeEntry \cup {Dies}
<1>1. signal \in Seq(S) /\ signal # <<>> /\ signal' = Tail(signal)
  BY DEF report, SignalTyped
<1> HIDE DEF S
<1>2. QED
  BY <1>1, HeadTailProperties, LenProperties

\* The history of the latest crashes keeps its type.
LEMMA NextCrashTyped == IInv /\ [Next]_vars => CrashTyped'
<1> SUFFICES ASSUME IInv, [Next]_vars PROVE CrashTyped'
  OBVIOUS
<1>t. /\ CrashTyped /\ Counted /\ MaxEntries \in Nat
      /\ \A g \in {"java", "native"} : crash[g] \in Crash
  BY CrashLogAssumption DEF IInv, CrashTyped
<1>e. <<>> \in Seq(Entries)
  BY EmptySeq
<1>1. ASSUME NEW f \in {"java", "native"}, NEW e \in Seq(Entries),
             crash' = [crash EXCEPT ![f] = [NoCrash EXCEPT !.entry = e]]
      PROVE  CrashTyped'
  <2>1. NoCrash \in Crash
    BY <1>e DEF NoCrash, Crash
  <2>2. [NoCrash EXCEPT !.entry = e] \in Crash
    BY <2>1 DEF Crash
  <2>3. QED
    BY <1>1, <1>t, <2>2 DEF CrashTyped
<1>2. ASSUME NEW f, Emptied(f) PROVE CrashTyped'
  <2> DEFINE c(g) == IF g = f THEN [crash[g] EXCEPT !.cleared = TRUE, !.entry = <<>>]
                              ELSE crash[g]
  <2>1. \A g \in {"java", "native"} : c(g) \in Crash
    BY <1>e, <1>t DEF Crash
  <2>2. DOMAIN crash = {"java", "native"}
    BY <1>t DEF CrashTyped
  <2>3. crash' = [g \in {"java", "native"} |-> c(g)]
    BY <1>2, <2>2 DEF Emptied
  <2> HIDE DEF c
  <2>4. QED
    BY <2>1, <2>3 DEF CrashTyped
<1>3. ASSUME NEW t \in Threads, uncaughtException(t) PROVE CrashTyped'
  <2>1. entries' \in 1..MaxEntries
    BY <1>3, <1>t DEF uncaughtException, Counted
  <2>2. QED
    BY <1>1, <1>3, <2>1, ReportsTyped DEF uncaughtException
<1>4. CASE crash_signal_handler
  <2> DEFINE e == Report("tun2socks", entries') \o Report("ciadpi", entries')
  <2>1. entries' \in 1..MaxEntries
    BY <1>4, <1>t DEF crash_signal_handler, Counted
  <2>2. e \in Seq(Entries)
    BY <2>1, EntryProper
  <2>3. crash' = [crash EXCEPT !["native"] = [NoCrash EXCEPT !.entry = e]]
    BY <1>4 DEF crash_signal_handler
  <2> HIDE DEF e
  <2>4. QED
    BY <1>1, <2>2, <2>3
<1>5. CASE die
  <2>1. PICK a \in BOOLEAN, b \in BOOLEAN :
          crash' = [crash EXCEPT !["java"].over = a, !["native"].over = b]
    BY <1>5, <1>t, DieEffect
  <2>2. QED
    BY <1>t, <2>1 DEF CrashTyped, Crash
<1>6. CASE UNCHANGED crash
  BY <1>t, <1>6 DEF CrashTyped
<1>7. ASSUME NEW f \in {"java", "native"}, NEW L \in SUBSET Entries,
             crash' = [crash EXCEPT ![f].lost = L]
      PROVE  CrashTyped'
  BY <1>t, <1>7 DEF CrashTyped, Crash
<1>8. ASSUME NEW t \in Threads, appendFails(t) PROVE CrashTyped'
  <2>1. PICK n \in 1..entries : th[t].line = JavaEntry(n)
    BY <1>8 DEF appendFails, IInv, Dated
  <2>2. th[t].line[1] \in Entries
    BY <1>t, <2>1 DEF JavaEntry, Entries, Counted
  <2>3. crash' = [crash EXCEPT !["java"].lost = {th[t].line[1]}]
    BY <1>8 DEF appendFails
  <2>4. {th[t].line[1]} \in SUBSET Entries
    BY <2>2
  <2>5. QED
    BY <1>7, <2>3, <2>4
<1>9. CASE report
  <2>1. signal[1] \in Entries
    BY <1>9, LenProperties, ReportsTyped DEF report, IInv, SignalTyped
  <2>2. UNCHANGED crash
        \/ crash' = [crash EXCEPT !["native"].lost = crash["native"].lost \cup {signal[1]}]
    BY <1>9 DEF report
  <2>3. crash["native"].lost \cup {signal[1]} \in SUBSET Entries
    BY <1>t, <2>1 DEF Crash
  <2>4. QED
    BY <1>6, <1>7, <2>2, <2>3
<1>10. QED
  BY <1>2, <1>3, <1>4, <1>5, <1>6, <1>8, <1>9 DEF Next, vars, checkpoint,
    rotate, deleteFails, open, seek, write, fail, appendToFile, install, clearAll, Delete, truncateInPlace, Kept,
    crash_handler_install, crash_log_checkpoint, start

\* Between crashes no thread comes to report one, and a report under way
\* stays with its thread and its file unless clearAll() deletes that file.
LEMMA ReporterKept ==
    ASSUME IInv, [Next]_vars,
           \A t \in Threads : ~uncaughtException(t) /\ ~appendToFile(t) /\ ~appendFails(t)
    PROVE  \A u \in Threads : th'[u].at \in {"append", "dies"} =>
             /\ th'[u].at = th[u].at /\ th'[u].line = th[u].line
             /\ th[u].at = "append" /\ th'[u].orphan =>
                  th[u].orphan \/ Delete("java", "idle", "clear native")
<1>t. ThreadsTyped /\ Main \in Threads
  BY CrashLogAssumption DEF IInv
<1> SUFFICES ASSUME NEW u \in Threads, th'[u].at \in {"append", "dies"}
             PROVE  /\ th'[u].at = th[u].at /\ th'[u].line = th[u].line
                    /\ th[u].at = "append" /\ th'[u].orphan =>
                         th[u].orphan \/ Delete("java", "idle", "clear native")
  OBVIOUS
<1>1. ASSUME UNCHANGED th
      PROVE  th'[u].at = th[u].at /\ th'[u].line = th[u].line
             /\ (th'[u].orphan => th[u].orphan)
  BY <1>1
<1>2. ASSUME NEW t \in Threads, NEW r, th' = [th EXCEPT ![t] = r],
             r.at \notin {"append", "dies"}
      PROVE  th'[u].at = th[u].at /\ th'[u].line = th[u].line
             /\ (th'[u].orphan => th[u].orphan)
  <2>1. th'[t] = r /\ \A v \in Threads \ {t} : th'[v] = th[v]
    BY <1>2, <1>t DEF ThreadsTyped
  <2>2. u # t
    BY <1>2, <2>1
  <2>3. QED
    BY <2>1, <2>2
<1>3. ASSUME NEW t \in Threads,
             \/ checkpoint(t) \/ deleteFails(t) \/ open(t) \/ seek(t)
             \/ write(t) \/ fail(t)
      PROVE  th'[u].at = th[u].at /\ th'[u].line = th[u].line
             /\ (th'[u].orphan => th[u].orphan)
  <2>1. CASE checkpoint(t)
    <3>1. PICK n \in LineSizes :
            th' = [th EXCEPT ![t] =
                     [Idle EXCEPT !.at = IF TooLong THEN "delete" ELSE "open",
                                  !.line = [i \in 1..n |-> <<"kt", lines', i>>]]]
      BY <2>1 DEF checkpoint
    <3> DEFINE r == [Idle EXCEPT !.at = IF TooLong THEN "delete" ELSE "open",
                                 !.line = [i \in 1..n |-> <<"kt", lines', i>>]]
    <3>2. r.at \notin {"append", "dies"}
      BY DEF Idle
    <3>3. th' = [th EXCEPT ![t] = r]
      BY <3>1
    <3> HIDE DEF r
    <3>4. QED
      BY <1>2, <3>2, <3>3
  <2>2. CASE deleteFails(t) \/ open(t) \/ seek(t)
    <3>1. \E o : th' = [th EXCEPT ![t].at = "write", ![t].off = o]
                 \/ th' = [th EXCEPT ![t].at = "seek"]
                 \/ th' = [th EXCEPT ![t].at = "open", ![t].orphan = FALSE]
      BY <2>2 DEF deleteFails, open, seek
    <3>2. th'[t].at \in {"write", "seek", "open"}
          /\ \A v \in Threads \ {t} : th'[v] = th[v]
      BY <1>t, <3>1 DEF ThreadsTyped, Thread
    <3>3. QED
      BY <3>2
  <2>3. CASE write(t) \/ fail(t)
    <3>1. th' = [th EXCEPT ![t] = Idle] /\ Idle.at = "idle"
      BY <2>3 DEF write, fail, Idle
    <3>2. QED
      BY <1>2, <3>1
  <2>4. QED
    BY <1>3, <2>1, <2>2, <2>3
<1>4. ASSUME NEW a, a \notin {"append", "dies"},
             th' = [th EXCEPT ![Main] = [Idle EXCEPT !.at = a]]
      PROVE  th'[u].at = th[u].at /\ th'[u].line = th[u].line
             /\ (th'[u].orphan => th[u].orphan)
  <2>1. [Idle EXCEPT !.at = a].at = a
    BY DEF Idle
  <2>2. QED
    BY <1>2, <1>4, <1>t, <2>1
<1>5. CASE install \/ truncateInPlace \/ \E lib \in Libs : crash_handler_install(lib)
  <2>1. CASE install
    <3>1. "ciadpi" \notin {"append", "dies"}
      OBVIOUS
    <3>2. th' = [th EXCEPT ![Main] = [Idle EXCEPT !.at = "ciadpi"]]
      BY <2>1 DEF install, MainAt
    <3>3. QED
      BY <1>4, <3>1, <3>2
  <2>2. CASE truncateInPlace
    <3>1. "clear checkpoints" \notin {"append", "dies"}
      OBVIOUS
    <3>2. th' = [th EXCEPT ![Main] = [Idle EXCEPT !.at = "clear checkpoints"]]
      BY <2>2 DEF truncateInPlace, MainAt
    <3>3. QED
      BY <1>4, <3>1, <3>2
  <2>3. ASSUME NEW lib \in Libs, crash_handler_install(lib)
        PROVE  th'[u].at = th[u].at /\ th'[u].line = th[u].line
               /\ (th'[u].orphan => th[u].orphan)
    <3>1. (IF lib = "ciadpi" THEN "tun2socks" ELSE "idle") \notin {"append", "dies"}
      OBVIOUS
    <3>2. QED
      BY <1>4, <2>3, <3>1 DEF crash_handler_install, MainAt
  <2>4. QED
    BY <1>5, <2>1, <2>2, <2>3
<1>6. ASSUME NEW f \in Files, NEW t \in Threads,
             NEW o, o = Orphaned(f), u # t => th'[u] = o[u],
             u # t
      PROVE  /\ th'[u].at = th[u].at /\ th'[u].line = th[u].line
             /\ th[u].at = "append" /\ th'[u].orphan => th[u].orphan \/ f = "java"
  BY <1>6, <1>t, OrphanedTyped DEF HoldsAt, Files
<1>7. ASSUME NEW t \in Threads, rotate(t)
      PROVE  th'[u].at = th[u].at /\ th'[u].line = th[u].line
             /\ (th[u].at = "append" /\ th'[u].orphan => th[u].orphan)
  <2> DEFINE o == Orphaned("checkpoints")
  <2>1. o \in [Threads -> Thread] /\ "checkpoints" \in Files
    BY <1>t, OrphanedTyped DEF Files
  <2>2. th' = [o EXCEPT ![t].at = "open", ![t].orphan = FALSE]
    BY <1>7 DEF rotate
  <2>3. th'[t].at = "open" /\ \A v \in Threads \ {t} : th'[v] = o[v]
    <3> HIDE DEF o
    <3>1. QED
      BY <2>1, <2>2 DEF Thread
  <2>4. u # t
    BY <2>3
  <2>5. QED
    BY <1>6, <2>1, <2>3, <2>4
<1>8. ASSUME NEW f \in Files, NEW from, NEW to, to \notin {"append", "dies"},
             Delete(f, from, to)
      PROVE  /\ th'[u].at = th[u].at /\ th'[u].line = th[u].line
             /\ th[u].at = "append" /\ th'[u].orphan => th[u].orphan \/ f = "java"
  <2> DEFINE o == Orphaned(f)
             r == [Idle EXCEPT !.at = to]
  <2>1. o \in [Threads -> Thread] /\ r.at = to
    BY <1>t, OrphanedTyped DEF Idle
  <2>2. th' = [o EXCEPT ![Main] = r]
    BY <1>8 DEF Delete
  <2>3. th'[Main].at = to /\ \A v \in Threads \ {Main} : th'[v] = o[v]
    <3> HIDE DEF o, r
    <3>1. QED
      BY <1>t, <2>1, <2>2
  <2>4. u # Main
    BY <1>8, <2>3
  <2>5. QED
    BY <1>6, <1>t, <2>3, <2>4
<1>9. CASE clearAll
  <2>1. "java" \in Files /\ "checkpoints" \in Files
    BY DEF Files
  <2>2. CASE Delete("java", "idle", "clear native")
    BY <1>8, <2>1, <2>2
  <2>3. CASE Delete("checkpoints", "clear checkpoints", "idle")
    BY <1>8, <2>1, <2>3
  <2>4. ASSUME NEW from, NEW to \in {"clear native", "clear checkpoints", "idle"},
               Kept(from, to)
        PROVE  th'[u].at = th[u].at /\ th'[u].line = th[u].line
               /\ (th'[u].orphan => th[u].orphan)
    BY <1>4, <2>4 DEF Kept, MainAt
  <2>5. QED
    BY <1>5, <1>9, <2>2, <2>3, <2>4 DEF clearAll
<1>10. CASE die
  BY <1>10 DEF die, Idle
<1>11. QED
  BY <1>1, <1>3, <1>5, <1>7, <1>9, <1>10 DEF Next, vars, crash_log_checkpoint,
    crash_signal_handler, report, start

\* What is written bears the number of an entry begun.
LEMMA NextDated == IInv /\ [Next]_vars => Dated'
<1> SUFFICES ASSUME IInv, [Next]_vars PROVE Dated'
  OBVIOUS
<1>t. /\ Dated /\ Counted /\ Counted' /\ MaxEntries \in Nat
      /\ FilesTyped /\ SignalTyped /\ ThreadsTyped
  BY CrashLogAssumption, NextCounted DEF IInv
<1>g. entries \in Nat /\ entries' \in Nat
      /\ (entries' = entries \/ entries' = entries + 1)
  <2>1. UNCHANGED entries \/ entries' = entries + 1
    BY DEF Next, vars, checkpoint, rotate, deleteFails, open, seek, write, fail,
      uncaughtException, appendToFile, appendFails, install, clearAll, Delete, Emptied,
      truncateInPlace, Kept, crash_handler_install, crash_log_checkpoint,
      crash_signal_handler, report, die, start
  <2>2. QED
    BY <1>t, <2>1 DEF Counted
<1>n. \A x \in Entries : x[2] \in Nat
  BY CrashLogAssumption DEF Entries
<1>f. ASSUME NEW f \in Files
      PROVE  /\ data[f] \in Seq(Entries) /\ DOMAIN data[f] = 1..Len(data[f])
             /\ \A j \in DOMAIN data[f] : data[f][j] \in Entries
  BY <1>t, LenProperties, ElementOfSeq DEF FilesTyped
<1>1. ASSUME NEW f \in {"java", "native"},
             data'[f] = data[f] \/ data'[f] = <<>>
             \/ (\E x \in Entries : x[2] =< entries' /\ data'[f] = data[f] \o <<x>>)
      PROVE  \A j \in DOMAIN data'[f] : data'[f][j][2] =< entries'
  <2>f. f \in Files /\ \A j \in DOMAIN data[f] : data[f][j][2] =< entries
    BY <1>t DEF Dated, Files
  <2>g. \A j \in DOMAIN data[f] : data[f][j][2] =< entries'
    <3>1. \A j \in DOMAIN data[f] : data[f][j][2] \in Nat
      BY <1>f, <1>n, <2>f
    <3>2. QED
      BY <1>g, <2>f, <3>1
  <2>1. CASE data'[f] = data[f]
    BY <2>1, <2>g
  <2>2. CASE data'[f] = <<>>
    BY <2>2
  <2>3. CASE \E x \in Entries : x[2] =< entries' /\ data'[f] = data[f] \o <<x>>
    <3>1. PICK x \in Entries : x[2] =< entries' /\ data'[f] = data[f] \o <<x>>
      BY <2>3
    <3>2. /\ DOMAIN data'[f] = 1..(Len(data[f]) + 1) /\ Len(data[f]) \in Nat
          /\ \A j \in 1..Len(data[f]) : data'[f][j] = data[f][j]
          /\ data'[f][Len(data[f]) + 1] = x
          /\ DOMAIN data[f] = 1..Len(data[f])
      BY <1>f, <2>f, <3>1, AppendPiece
    <3>3. \A j \in DOMAIN data'[f] : j \in 1..Len(data[f]) \/ j = Len(data[f]) + 1
      BY <3>2
    <3>4. QED
      BY <2>g, <3>1, <3>2, <3>3
  <2>4. QED
    BY <1>1, <2>1, <2>2, <2>3
<1>2. \A j \in DOMAIN data'["java"] : data'["java"][j][2] =< entries'
  <2>1. ASSUME NEW t \in Threads, appendToFile(t)
        PROVE  data'["java"] = data["java"]
               \/ \E x \in Entries : x[2] =< entries'
                                     /\ data'["java"] = data["java"] \o <<x>>
    <3>1. CASE th[t].orphan
      BY <2>1, <3>1 DEF appendToFile
    <3>2. CASE ~th[t].orphan
      <4>1. PICK n \in 1..entries : th[t].line = JavaEntry(n)
        BY <1>t, <2>1 DEF appendToFile, Dated
      <4>2. <<"java", n, 1>> \in Entries /\ <<"java", n, 1>>[2] =< entries'
        BY <1>g, <1>t, <4>1 DEF Entries, Counted
      <4>3. data'["java"] = data["java"] \o <<<<"java", n, 1>>>>
        BY <1>t, <2>1, <3>2, <4>1 DEF appendToFile, FilesTyped, Files, JavaEntry
      <4>4. QED
        BY <4>2, <4>3
    <3>3. QED
      BY <3>1, <3>2
  <2>2. CASE \A t \in Threads : ~appendToFile(t)
    <3>1. data'["java"] = data["java"] \/ data'["java"] = <<>>
      BY <1>t, <2>2 DEF FilesTyped, Files, Next, vars, checkpoint, rotate, deleteFails, open,
        seek, write, fail, uncaughtException, appendFails, install, clearAll, Delete,
        Emptied, truncateInPlace, Kept, crash_handler_install, crash_log_checkpoint, safe_write,
        crash_signal_handler, report, die, start
    <3>2. QED
      BY <1>1, <3>1
  <2>3. QED
    BY <1>1, <2>1, <2>2
<1>3. \A j \in DOMAIN data'["native"] : data'["native"][j][2] =< entries'
  <2>1. ASSUME NEW lib \in Libs, crash_log_checkpoint(lib)
        PROVE  data'["native"] = data["native"]
               \/ \E x \in Entries : x[2] =< entries'
                                     /\ data'["native"] = data["native"] \o <<x>>
    <3>1. <<lib, entries', 0>> \in NativeEntry /\ <<lib, entries', 0>>[2] =< entries'
      BY <1>g, <1>t, <2>1 DEF crash_log_checkpoint, NativeEntry, Counted
    <3>2. data'["native"] = data["native"] \o <<<<lib, entries', 0>>>>
          \/ data' = data
      BY <1>t, <2>1 DEF crash_log_checkpoint, safe_write, FilesTyped, Files
    <3>3. QED
      BY <3>1, <3>2, ReportsTyped
  <2>2. CASE report
    <3>1. signal[1] \in NativeEntry /\ signal[1][2] =< entries'
      BY <1>t, <2>2, LenProperties DEF report, SignalTyped, Dated
    <3>2. data'["native"] = data["native"] \o <<signal[1]>> \/ data' = data
      BY <1>t, <2>2 DEF report, safe_write, FilesTyped, Files
    <3>3. QED
      BY <1>1, <3>1, <3>2, ReportsTyped
  <2>3. CASE ~report /\ \A lib \in Libs : ~crash_log_checkpoint(lib)
    <3>1. data'["native"] = data["native"] \/ data'["native"] = <<>>
      BY <1>t, <2>3 DEF FilesTyped, Files, Next, vars, checkpoint, rotate, deleteFails, open,
        seek, write, fail, uncaughtException, appendToFile, appendFails, install, clearAll,
        Delete, Emptied, truncateInPlace, Kept, crash_handler_install,
        crash_signal_handler, die, start
    <3>2. QED
      BY <1>1, <3>1
  <2>4. QED
    BY <1>1, <2>1, <2>2, <2>3
<1>4. \A i \in 1..(Len(signal') - 1) : signal'[i][2] =< entries'
  <2>1. CASE crash_signal_handler
    <3> DEFINE e == Report("tun2socks", entries') \o Report("ciadpi", entries')
    <3>1. entries' \in 1..MaxEntries
      BY <1>t, <2>1 DEF crash_signal_handler, Counted
    <3>2. /\ e \in Seq(Entries)
          /\ \A i \in DOMAIN e : e[i] \in NativeEntry /\ e[i][2] = entries'
      BY <3>1, EntryProper
    <3>3. signal' = Append(e, Dies)
      BY <2>1 DEF crash_signal_handler
    <3> HIDE DEF e
    <3>4. /\ Len(signal') = Len(e) + 1 /\ Len(e) \in Nat /\ DOMAIN e = 1..Len(e)
          /\ \A i \in 1..Len(e) : signal'[i] = e[i]
      BY <3>2, <3>3, SignalAppended
    <3>5. \A i \in 1..(Len(signal') - 1) : i \in DOMAIN e
      BY <3>4
    <3>6. QED
      BY <1>g, <3>2, <3>4, <3>5
  <2>2. CASE report
    <3>1. /\ Len(signal') = Len(signal) - 1 /\ Len(signal) \in Nat
          /\ \A i \in 1..Len(signal') : signal'[i] = signal[i + 1]
      BY <1>t, <2>2, SignalShifted
    <3>2. UNCHANGED entries
      BY <2>2 DEF report
    <3>3. QED
      BY <1>t, <3>1, <3>2 DEF Dated
  <2>3. CASE die
    BY <2>3 DEF die
  <2>4. CASE UNCHANGED signal
    <3>1. \A i \in 1..(Len(signal) - 1) : signal[i][2] \in Nat
      BY <1>n, <1>t, ReportsTyped DEF SignalTyped
    <3>2. QED
      BY <1>g, <1>t, <2>4, <3>1 DEF Dated
  <2>5. QED
    BY <2>1, <2>2, <2>3, <2>4 DEF Next, vars, checkpoint, rotate, deleteFails, open, seek,
      write, fail, uncaughtException, appendToFile, appendFails, install, clearAll, Delete,
      Emptied, truncateInPlace, Kept, crash_handler_install, crash_log_checkpoint, start
<1>5. ASSUME NEW u \in Threads, th'[u].at = "append"
      PROVE  \E n \in 1..entries' : th'[u].line = JavaEntry(n)
  <2>1. CASE \E t \in Threads : uncaughtException(t)
    <3>1. PICK t \in Threads : uncaughtException(t)
      BY <2>1
    <3>2. /\ th'[t].line = JavaEntry(entries') /\ entries' \in 1..entries'
          /\ \A v \in Threads \ {t} : th'[v] = th[v] /\ th[v].at # "append"
      BY <1>g, <1>t, <3>1 DEF uncaughtException, ThreadsTyped, Idle, Counted
    <3>3. QED
      BY <1>5, <3>2
  <2>2. CASE \E t \in Threads : appendToFile(t) \/ appendFails(t)
    <3>1. PICK t \in Threads : appendToFile(t) \/ appendFails(t)
      BY <2>2
    <3>2. /\ th'[t].at = "dies" /\ UNCHANGED entries
          /\ \A v \in Threads \ {t} : th'[v] = th[v]
      BY <1>t, <3>1 DEF appendToFile, appendFails, ThreadsTyped, Idle
    <3>3. u # t
      BY <1>5, <3>2
    <3>4. QED
      BY <1>5, <1>t, <3>2, <3>3 DEF Dated
  <2>3. CASE \A t \in Threads :
               ~uncaughtException(t) /\ ~appendToFile(t) /\ ~appendFails(t)
    <3>1. th[u].at = "append" /\ th'[u].line = th[u].line
      BY <1>5, <2>3, ReporterKept
    <3>2. PICK n \in 1..entries : th[u].line = JavaEntry(n)
      BY <1>t, <3>1 DEF Dated
    <3>3. n \in 1..entries'
      BY <1>g
    <3>4. QED
      BY <3>1, <3>2, <3>3
  <2>4. QED
    BY <2>1, <2>2, <2>3
<1>6. QED
  BY <1>2, <1>3, <1>4, <1>5 DEF Dated

\* The pieces a signal handler has written are in the native file, once and in
\* order, whatever is logged between them.
LEMMA NextNativeReport == IInv /\ [Next]_vars => NativeReport'
<1> SUFFICES ASSUME IInv, [Next]_vars PROVE NativeReport'
  OBVIOUS
<1> DEFINE c == crash["native"]
           d == data["native"]
<1>t. /\ NativeReport /\ CrashTyped /\ Dated /\ Linked /\ SignalTyped /\ Counted
      /\ FilesTyped /\ MaxEntries \in Nat
  BY CrashLogAssumption DEF IInv
<1>c. /\ c \in Crash
      /\ DOMAIN crash = {"java", "native"}
      /\ c.entry \in Seq(Entries) /\ Len(c.entry) \in Nat
      /\ DOMAIN c.entry = 1..Len(c.entry)
  <2>1. c \in Crash /\ DOMAIN crash = {"java", "native"}
    BY <1>t DEF CrashTyped
  <2>2. c.entry \in Seq(Entries)
    BY <2>1 DEF Crash
  <2>3. QED
    BY <2>1, <2>2, LenProperties
<1>d. d \in Seq(Entries) /\ DOMAIN d = 1..Len(d)
      /\ \A j \in DOMAIN d : d[j] \in Entries /\ d[j][2] \in Nat
  <2>1. d \in Seq(Entries)
    BY <1>t DEF FilesTyped, Files
  <2>2. DOMAIN d = 1..Len(d) /\ \A j \in DOMAIN d : d[j] \in Entries
    BY <2>1, LenProperties, ElementOfSeq
  <2>3. \A x \in Entries : x[2] \in Nat
    BY CrashLogAssumption DEF Entries
  <2>4. QED
    BY <2>1, <2>2, <2>3
<1>s. Len(signal) \in Nat /\ (signal # <<>> => Len(signal) >= 1)
  BY <1>t, LenProperties, EmptySeq DEF SignalTyped
<1>1. ASSUME data'["native"] = d, signal' = signal, crash'["native"] = c
      PROVE  NativeReport'
  BY <1>1, <1>t DEF NativeReport
<1>2. ASSUME NEW lib \in Libs, crash_log_checkpoint(lib) PROVE NativeReport'
  <2> DEFINE x == <<lib, entries', 0>>
  <2>1. entries' \in 1..MaxEntries
    BY <1>2, <1>t DEF crash_log_checkpoint, Counted
  <2>2. x \in Entries
    BY <2>1 DEF Entries
  <2>3. fd[lib] = "open"
    BY <1>2, <1>t DEF crash_log_checkpoint, safe_write, Linked
  <2>4. /\ data'["native"] = d \o <<x>> \/ data'["native"] = d
        /\ UNCHANGED <<signal, crash>>
    BY <1>2, <1>t, <2>3 DEF crash_log_checkpoint, safe_write, FilesTyped, Files
  <2>5. Proper(c.entry) => \A i \in DOMAIN c.entry : c.entry[i] # x
    BY DEF Proper
  <2> HIDE DEF x
  <2>6. ASSUME Proper(c.entry), NEW n \in 0..Len(c.entry),
               Reported(d, c.entry, n, c.lost)
        PROVE  Reported(d \o <<x>>, c.entry, n, c.lost)
    BY <1>c, <1>d, <2>2, <2>5, <2>6, ReportedOther
  <2> DEFINE n == Len(c.entry) + 1 - Len(signal)
  <2>7. signal # <<>> /\ n >= 0 => n \in 0..Len(c.entry)
    BY <1>c, <1>s
  <2>8. Len(c.entry) \in 0..Len(c.entry)
    BY <1>c
  <2>9. CASE data'["native"] = d \o <<x>>
    BY <1>t, <2>4, <2>6, <2>7, <2>8, <2>9 DEF NativeReport
  <2>10. QED
    BY <1>1, <2>4, <2>9
<1>3. CASE report
  <2> DEFINE n == Len(c.entry) + 1 - Len(signal)
             e == c.entry
  <2>1. PICK ok \in BOOLEAN :
          /\ safe_write(signal[1][1], <<signal[1]>>, ok)
          /\ crash' = IF ok THEN crash
                      ELSE [crash EXCEPT !["native"].lost = c.lost \cup {signal[1]}]
    BY <1>3 DEF report
  <2>l. /\ crash'["native"].entry = c.entry /\ crash'["native"].over = c.over
        /\ crash'["native"].cleared = c.cleared
        /\ crash'["native"].lost = IF ok THEN c.lost ELSE c.lost \cup {signal[1]}
    BY <1>c, <2>1 DEF Crash
  <2>2. CASE c.cleared
    BY <2>l, <2>2 DEF NativeReport
  <2>3. CASE ~c.cleared
    <3>1. Len(signal) > 1 /\ signal # <<>>
      BY <1>3, EmptySeq DEF report
    <3>2. /\ ~c.over /\ Proper(e) /\ n >= 0 /\ Reported(d, e, n, c.lost)
          /\ \A i \in 1..(Len(signal) - 1) : signal[i] = e[n + i]
      BY <1>t, <2>3, <3>1 DEF NativeReport
    <3>3. n \in Nat /\ n < Len(e)
      BY <1>c, <1>s, <3>1, <3>2
    <3>4. signal[1] = e[n + 1] /\ signal[1] \in NativeEntry
      BY <1>s, <1>t, <3>1, <3>2 DEF SignalTyped
    <3>5. fd[signal[1][1]] = "open"
      <4>1. signal[1][1] \in Libs
        BY <3>4 DEF NativeEntry
      <4>2. QED
        BY <1>t, <2>1, <4>1 DEF safe_write, Linked
    <3>6. data'["native"] = IF ok THEN d \o <<e[n + 1]>> ELSE d
      BY <1>t, <2>1, <3>4, <3>5 DEF safe_write, FilesTyped, Files
    <3>7. /\ Len(signal') = Len(signal) - 1
          /\ \A i \in 1..Len(signal') : signal'[i] = signal[i + 1]
      BY <1>3, <1>t, SignalShifted
    <3> HIDE DEF e
    <3>8. Reported(data'["native"], e, n + 1, crash'["native"].lost)
      <4>1. CASE ok
        BY <1>c, <1>d, <2>l, <3>2, <3>3, <3>6, <4>1, ReportedNext DEF e
      <4>2. CASE ~ok
        <5>1. Reported(d, e, n + 1, c.lost \cup {e[n + 1]})
          BY <1>c, <1>d, <3>2, <3>3, ReportedLost DEF e
        <5>2. QED
          BY <2>l, <3>4, <3>6, <4>2, <5>1
      <4>3. QED
        BY <4>1, <4>2
    <3>9. Len(e) \in Nat
      BY <1>c DEF e
    <3>10. n + 1 = Len(e) + 1 - Len(signal') /\ n + 1 >= 0
      BY <1>s, <3>3, <3>7, <3>9 DEF e
    <3>11. ASSUME NEW i \in 1..(Len(signal') - 1)
           PROVE  signal'[i] = e[Len(e) + 1 - Len(signal') + i]
      <4>1. i \in 1..Len(signal') /\ i + 1 \in 1..(Len(signal) - 1)
            /\ n + (i + 1) = Len(e) + 1 - Len(signal') + i
        <5>1. Len(signal') \in Int /\ Len(signal') = Len(signal) - 1 /\ i \in Int
          BY <1>s, <3>7
        <5>2. i \in 1..Len(signal') /\ i + 1 \in 1..(Len(signal) - 1)
          BY <1>s, <5>1
        <5>3. n + (i + 1) = (n + 1) + i
          <6>1. \A x, y \in Int : x + (y + 1) = (x + 1) + y
            OBVIOUS
          <6>2. n \in Int
            BY <3>3
          <6> HIDE DEF n
          <6>3. QED
            BY <5>1, <6>1, <6>2
        <5>4. QED
          BY <3>10, <5>2, <5>3
      <4>2. QED
        BY <3>2, <3>7, <4>1
    <3>12. QED
      BY <2>l, <3>2, <3>8, <3>10, <3>11 DEF NativeReport, e
  <2>4. QED
    BY <2>2, <2>3
<1>4. CASE crash_signal_handler
  <2> DEFINE e == Report("tun2socks", entries') \o Report("ciadpi", entries')
  <2>1. entries' \in 1..MaxEntries /\ entries' = entries + 1 /\ entries \in Nat
    BY <1>4, <1>t DEF crash_signal_handler, Counted
  <2>2. /\ e \in Seq(Entries) /\ Proper(e)
        /\ \A i \in DOMAIN e : e[i][2] = entries'
    BY <2>1, EntryProper
  <2>3. /\ signal' = Append(e, Dies) /\ UNCHANGED data
        /\ crash' = [crash EXCEPT !["native"] = [NoCrash EXCEPT !.entry = e]]
    BY <1>4 DEF crash_signal_handler
  <2> HIDE DEF e
  <2>4. /\ Len(signal') = Len(e) + 1 /\ Len(e) \in Nat /\ DOMAIN e = 1..Len(e)
        /\ \A i \in 1..Len(e) : signal'[i] = e[i]
    BY <2>2, <2>3, SignalAppended
  <2>5. /\ crash'["native"].entry = e /\ ~crash'["native"].over
        /\ ~crash'["native"].cleared
    BY <1>c, <2>3 DEF NoCrash
  <2>6. \A i \in DOMAIN e, j \in DOMAIN d : d[j] # e[i]
    <3>1. \A j \in DOMAIN d : d[j][2] # entries'
      BY <1>d, <1>t, <2>1 DEF Dated
    <3>2. QED
      BY <2>2, <3>1
  <2>7. Reported(d, e, 0, crash'["native"].lost)
    BY <2>4, <2>6 DEF Reported
  <2>8. Len(e) + 1 - Len(signal') = 0 /\ Len(signal') - 1 = Len(e)
    BY <2>4
  <2>9. \A i \in 1..(Len(signal') - 1) : signal'[i] = e[0 + i]
    BY <2>4, <2>8
  <2>10. QED
    BY <2>2, <2>3, <2>5, <2>7, <2>8, <2>9 DEF NativeReport
<1>5. ASSUME NEW f \in Files, Emptied(f) PROVE NativeReport'
  <2>1. CASE f = "native"
    <3>1. crash'["native"].cleared
      BY <1>5, <1>c, <2>1 DEF Emptied, Crash
    <3>2. QED
      BY <3>1 DEF NativeReport
  <2>2. CASE f # "native"
    BY <1>1, <1>5, <1>c, <1>t, <2>2 DEF Emptied, FilesTyped, Files
  <2>3. QED
    BY <2>1, <2>2
<1>6. CASE die
  <2>1. PICK a \in BOOLEAN, b \in BOOLEAN :
          /\ crash' = [crash EXCEPT !["java"].over = a, !["native"].over = b]
          /\ b => c.over \/ signal = <<Dies>>
    BY <1>6, <1>t, DieEffect
  <2>2. signal' = <<>> /\ UNCHANGED data
    BY <1>6 DEF die
  <2>3. /\ crash'["native"].entry = c.entry /\ crash'["native"].cleared = c.cleared
        /\ crash'["native"].over = b /\ crash'["native"].lost = c.lost
    BY <1>c, <1>t, <2>1 DEF CrashTyped, Crash
  <2>4. ASSUME ~c.cleared, signal = <<Dies>>
        PROVE  Proper(c.entry) /\ Reported(d, c.entry, Len(c.entry), c.lost)
    <3>1. signal # <<>> /\ Len(signal) = 1
      BY <2>4
    <3>2. Len(c.entry) + 1 - Len(signal) = Len(c.entry)
      BY <1>c, <3>1
    <3>3. QED
      BY <1>t, <2>4, <3>1, <3>2 DEF NativeReport
  <2>5. ~c.cleared /\ b => Proper(c.entry)
                            /\ Reported(d, c.entry, Len(c.entry), c.lost)
    BY <1>t, <2>1, <2>4 DEF NativeReport
  <2>6. QED
    BY <2>2, <2>3, <2>5 DEF NativeReport
<1>7. ASSUME NEW t \in Threads, uncaughtException(t) PROVE NativeReport'
  BY <1>1, <1>7, <1>c DEF uncaughtException
<1>8. ASSUME NEW t \in Threads, rotate(t) \/ write(t) \/ appendToFile(t)
      PROVE  NativeReport'
  BY <1>1, <1>8, <1>t DEF rotate, write, appendToFile, FilesTyped, Files
<1>9. CASE clearAll
  BY <1>1, <1>5, <1>9 DEF clearAll, Delete, truncateInPlace, Kept, Files
<1>10. ASSUME NEW t \in Threads, appendFails(t) PROVE NativeReport'
  BY <1>1, <1>10, <1>c DEF appendFails
<1>11. QED
  BY <1>1, <1>2, <1>3, <1>4, <1>6, <1>7, <1>8, <1>9, <1>10 DEF Next, vars, checkpoint,
    deleteFails, open, seek, fail, install, crash_handler_install, start

\* The thread of a Java crash appends its report to the file it has found,
\* before the process ends.
LEMMA NextJavaReport == IInv /\ [Next]_vars => JavaReport'
<1> SUFFICES ASSUME IInv, [Next]_vars PROVE JavaReport'
  OBVIOUS
<1> DEFINE c == crash["java"]
           d == data["java"]
           Reporter(t) == th[t].at \in {"append", "dies"}
<1>t. /\ JavaReport /\ CrashTyped /\ Dated /\ Counted /\ FilesTyped /\ ThreadsTyped
      /\ MaxEntries \in Nat /\ Main \in Threads
  BY CrashLogAssumption DEF IInv
<1>c. /\ c \in Crash
      /\ DOMAIN crash = {"java", "native"} /\ c.entry \in Seq(Entries)
  BY <1>t DEF CrashTyped, Crash
<1>d. d \in Seq(Entries) /\ DOMAIN d = 1..Len(d)
      /\ \A j \in DOMAIN d : d[j] \in Entries /\ d[j][2] \in Nat
  <2>1. d \in Seq(Entries)
    BY <1>t DEF FilesTyped, Files
  <2>2. DOMAIN d = 1..Len(d) /\ \A j \in DOMAIN d : d[j] \in Entries
    BY <2>1, LenProperties, ElementOfSeq
  <2>3. \A x \in Entries : x[2] \in Nat
    BY CrashLogAssumption DEF Entries
  <2>4. QED
    BY <2>1, <2>2, <2>3
<1>1. ASSUME NEW t \in Threads, uncaughtException(t) PROVE JavaReport'
  <2> DEFINE e == JavaEntry(entries')
  <2>1. entries' \in 1..MaxEntries /\ entries' = entries + 1 /\ entries \in Nat
    BY <1>1, <1>t DEF uncaughtException, Counted
  <2>2. /\ \A u \in Threads : ~Reporter(u)
        /\ UNCHANGED data
        /\ th' = [th EXCEPT ![t] = [Idle EXCEPT !.at = "append", !.line = e]]
        /\ crash' = [crash EXCEPT !["java"] = [NoCrash EXCEPT !.entry = e]]
    BY <1>1 DEF uncaughtException
  <2>3. /\ th'[t].at = "append" /\ th'[t].line = e /\ ~th'[t].orphan
        /\ \A u \in Threads \ {t} : th'[u] = th[u]
    BY <1>t, <2>2 DEF ThreadsTyped, Idle
  <2>4. crash'["java"].entry = e /\ ~crash'["java"].over
    BY <1>c, <2>2 DEF NoCrash
  <2>5. Len(e) = 1 /\ e[1][2] = entries'
    BY DEF JavaEntry
  <2>6. \A j \in DOMAIN d : d[j] # e[1]
    BY <1>d, <1>t, <2>1, <2>5 DEF Dated
  <2> HIDE DEF e
  <2>7. Reported(d, e, 0, crash'["java"].lost)
    BY <2>5, <2>6 DEF Reported
  <2>8. \A u \in Threads : th'[u].at \in {"append", "dies"} => u = t
    BY <2>2, <2>3
  <2>9. QED
    BY <2>2, <2>3, <2>4, <2>5, <2>7, <2>8 DEF JavaReport
<1>2. ASSUME NEW t \in Threads, appendToFile(t) PROVE JavaReport'
  <2>1. /\ th[t].at = "append" /\ th'[t].at = "dies" /\ UNCHANGED crash
        /\ \A u \in Threads \ {t} : th'[u] = th[u]
    BY <1>2, <1>t DEF appendToFile, ThreadsTyped, Idle
  <2>2. \A u \in Threads : th'[u].at \in {"append", "dies"} => u = t
    BY <1>t, <2>1 DEF JavaReport
  <2>3. ASSUME ~c.cleared PROVE Reported(data'["java"], c.entry, Len(c.entry), c.lost)
    <3>1. /\ ~th[t].orphan /\ th[t].line = c.entry /\ Len(c.entry) = 1
          /\ Reported(d, c.entry, 0, c.lost)
      BY <1>t, <2>1, <2>3 DEF JavaReport
    <3>2. PICK n \in 1..entries : c.entry = JavaEntry(n)
      BY <1>t, <2>1, <3>1 DEF Dated
    <3>3. c.entry = <<c.entry[1]>> /\ Proper(c.entry)
      BY <3>2 DEF JavaEntry, Proper
    <3>4. data'["java"] = d \o <<c.entry[0 + 1]>>
      <4>1. data'["java"] = d \o c.entry
        BY <1>2, <1>t, <3>1 DEF appendToFile, FilesTyped, Files
      <4>2. 0 + 1 = 1
        OBVIOUS
      <4>3. d \o c.entry = d \o <<c.entry[1]>>
        BY <3>3
      <4>4. QED
        BY <4>1, <4>2, <4>3
    <3>5. Reported(d \o <<c.entry[0 + 1]>>, c.entry, 0 + 1, c.lost)
      BY <1>c, <1>d, <3>1, <3>3, ReportedNext
    <3>6. QED
      BY <3>1, <3>4, <3>5
  <2>4. QED
    BY <2>1, <2>2, <2>3 DEF JavaReport
<1>4. ASSUME NEW t \in Threads, appendFails(t) PROVE JavaReport'
  <2>1. /\ th[t].at = "append" /\ th'[t].at = "dies" /\ UNCHANGED data
        /\ \A u \in Threads \ {t} : th'[u] = th[u]
        /\ crash' = [crash EXCEPT !["java"].lost = {th[t].line[1]}]
    BY <1>4, <1>t DEF appendFails, ThreadsTyped, Idle
  <2>2. \A u \in Threads : th'[u].at \in {"append", "dies"} => u = t
    BY <1>t, <2>1 DEF JavaReport
  <2>3. /\ crash'["java"].entry = c.entry /\ crash'["java"].cleared = c.cleared
        /\ crash'["java"].lost = {th[t].line[1]}
    BY <1>c, <2>1 DEF Crash
  <2>4. ASSUME ~c.cleared
        PROVE  Reported(d, c.entry, Len(c.entry), {th[t].line[1]})
    <3>1. th[t].line = c.entry /\ Len(c.entry) = 1 /\ Reported(d, c.entry, 0, c.lost)
      BY <1>t, <2>1, <2>4 DEF JavaReport
    <3>2. \A j \in DOMAIN d : d[j] # c.entry[1]
      BY <3>1 DEF Reported
    <3>3. QED
      BY <3>1, <3>2 DEF Reported
  <2>5. QED
    BY <2>1, <2>2, <2>3, <2>4 DEF JavaReport
<1>3. CASE \A t \in Threads :
             ~uncaughtException(t) /\ ~appendToFile(t) /\ ~appendFails(t)
  <2>1. \A u \in Threads : th'[u].at \in {"append", "dies"} =>
          /\ th'[u].at = th[u].at /\ th'[u].line = th[u].line
          /\ th[u].at = "append" /\ th'[u].orphan =>
               th[u].orphan \/ Delete("java", "idle", "clear native")
    BY <1>3, ReporterKept
  <2>2. \A t, u \in Threads :
          th'[t].at \in {"append", "dies"} /\ th'[u].at \in {"append", "dies"} => t = u
    BY <1>t, <2>1 DEF JavaReport
  <2>3. CASE Delete("java", "idle", "clear native")
    <3>1. crash'["java"].cleared
      BY <1>c, <2>3 DEF Delete, Emptied, Crash
    <3>2. QED
      BY <2>2, <3>1 DEF JavaReport
  <2>4. CASE ~Delete("java", "idle", "clear native")
    <3>1. data'["java"] = d
      BY <1>3, <1>t, <2>4 DEF FilesTyped, Files, Next, vars, checkpoint, rotate, deleteFails,
        open, seek, write, fail, install, clearAll, Delete, Emptied,
        truncateInPlace, Kept, crash_handler_install, crash_log_checkpoint, safe_write,
        crash_signal_handler, report, die, start
    <3>2. \/ crash'["java"] = c
          \/ die
      BY <1>3, <1>c, <2>4 DEF Next, vars, checkpoint, rotate, deleteFails,
        open, seek, write, fail, install, clearAll, Delete, Emptied,
        truncateInPlace, Kept, crash_handler_install, crash_log_checkpoint,
        crash_signal_handler, report, start
    <3>3. CASE crash'["java"] = c
      <4>1. \A t \in Threads : th'[t].at = "append" =>
              th[t].at = "append" /\ th'[t].line = th[t].line
              /\ (th'[t].orphan => th[t].orphan)
        BY <2>1, <2>4
      <4>2. (\E t \in Threads : th'[t].at = "dies")
              => \E t \in Threads : th[t].at = "dies"
        BY <2>1
      <4>3. QED
        BY <1>t, <2>2, <3>1, <3>3, <4>1, <4>2 DEF JavaReport
    <3>4. CASE die
      <4>1. PICK a \in BOOLEAN, b \in BOOLEAN :
              /\ crash' = [crash EXCEPT !["java"].over = a, !["native"].over = b]
              /\ a => c.over \/ \E t \in Threads : th[t].at = "dies"
        BY <1>t, <3>4, DieEffect
      <4>2. /\ crash'["java"].entry = c.entry /\ crash'["java"].cleared = c.cleared
            /\ crash'["java"].over = a /\ crash'["java"].lost = c.lost
        BY <1>c, <1>t, <4>1 DEF CrashTyped, Crash
      <4>3. \A t \in Threads : th'[t].at = "idle"
        BY <3>4 DEF die, Idle
      <4>4. QED
        BY <1>t, <2>2, <3>1, <4>1, <4>2, <4>3 DEF JavaReport
    <3>5. QED
      BY <3>2, <3>3, <3>4
  <2>5. QED
    BY <2>3, <2>4
<1>5. QED
  BY <1>1, <1>2, <1>3, <1>4

-----------------------------------------------------------------------------
(* The theorems.                                                           *)

\* At first there are no files and the process does not run.
LEMMA InitIInv == Init => IInv
<1> SUFFICES ASSUME Init PROVE IInv
  OBVIOUS
<1>1. Counted
  <2>1. \A n \in Nat : 0 \in 0..n
    OBVIOUS
  <2>2. starts \in 0..MaxStarts /\ lines \in 0..MaxLines
        /\ entries \in 0..MaxEntries
    BY <2>1, CrashLogAssumption DEF Init
  <2>3. QED
    BY <2>2 DEF Init, Counted
<1>2. th = [t \in Threads |-> Idle] /\ Idle \in Thread /\ Idle.at = "idle"
  BY IdleTyped DEF Init, Stage
<1>3. ThreadsTyped
  BY <1>2 DEF ThreadsTyped
<1>4. FilesTyped /\ LogsKept /\ SignalTyped
  <2>1. /\ \A S : <<>> \in Seq(S)
        /\ Len(<<>>) = 0
    BY EmptySeq
  <2>2. QED
    BY <2>1 DEF Init, FilesTyped, LogsKept, SignalTyped
<1>5. Linked
  BY DEF Init, Linked
<1>6. WithinFile /\ AtEnd
  BY <1>2 DEF WithinFile, AtEnd, Writer
<1>7. Room
  <2>1. IsFiniteSet(Threads \ Committed)
    BY CrashLogAssumption, FS_Subset
  <2>2. Cardinality(Threads \ Committed) \in Nat
    BY <2>1, FS_CardinalityType
  <2>3. Len(data["checkpoints"]) = 0
    BY EmptySeq DEF Init, Files
  <2>4. Cardinality(Threads \ Committed) * MaxLine \in Nat
    BY <2>2, MaxLineTyped
  <2>5. QED
    BY <2>3, <2>4, CrashLogAssumption DEF Room
<1>8. CrashTyped
  <2>1. <<>> \in Seq(Entries)
    BY EmptySeq
  <2>2. QED
    BY <2>1 DEF Init, CrashTyped, Crash, NoCrash
<1>9. Dated
  <2>1. data["native"] = <<>> /\ data["java"] = <<>> /\ signal = <<>>
        /\ Len(signal) = 0
    BY DEF Init, Files
  <2>2. QED
    BY <1>2, <2>1 DEF Dated
<1>10. NativeReport /\ JavaReport
  <2>1. ~crash["java"].over /\ ~crash["native"].over /\ signal = <<>>
    BY DEF Init, NoCrash
  <2>2. QED
    BY <1>2, <2>1 DEF NativeReport, JavaReport
<1>11. QED
  BY <1>1, <1>3, <1>4, <1>5, <1>6, <1>7, <1>8, <1>9, <1>10 DEF IInv

\* Every step of the threads, the handlers and the system keeps IInv.
LEMMA NextIInv == IInv /\ [Next]_vars => IInv'
  BY NextCounted, StepKinds, NextFiles, NextSignal, NextLinked, NextWriters,
    NextRoom, NextCrashTyped, NextDated,
    NextNativeReport, NextJavaReport
  DEF IInv

\* IInv holds in every reachable state.
THEOREM Invariance == Spec => []IInv
  BY InitIInv, NextIInv, PTL DEF Spec

\* Types, and the bound on the checkpoint file: whatever the limit, the sizes
\* of the lines and the number of threads, it passes the limit by at most one
\* line for each of them (checkpoint() tests the size before it writes), until
\* delete() refuses to rotate it.
THEOREM SizeBounded == Spec => []TypeOK
<1>1. ASSUME IInv PROVE TypeOK
  <2>1. Counted /\ Linked /\ ThreadsTyped /\ FilesTyped /\ Room
    BY <1>1 DEF IInv
  <2>2. \A f \in Files : \A i \in DOMAIN data[f] : data[f][i] \in Entries
    BY <2>1, LenProperties, ElementOfSeq DEF FilesTyped
  <2>3. \A t \in Threads : th[t].orphan \in BOOLEAN /\ th[t].off \in Nat
    BY <2>1 DEF ThreadsTyped, Thread
  <2>4. ASSUME ~undeleted
        PROVE  Len(data["checkpoints"])
                 =< MAX_CHECKPOINT_FILE_SIZE + Cardinality(Threads) * MaxLine
    <3> DEFINE c == Cardinality(Threads \ Committed)
               n == Cardinality(Threads)
    <3>1. c \in Nat /\ n \in Nat /\ c =< n
      BY CrashLogAssumption, FS_Subset, FS_CardinalityType
    <3>2. Len(data["checkpoints"]) \in Nat
      BY <2>1, LenProperties DEF FilesTyped, Files
    <3>3. Len(data["checkpoints"]) =< MAX_CHECKPOINT_FILE_SIZE + c * MaxLine
      BY <2>1, <2>4 DEF Room
    <3> HIDE DEF c, n
    <3>4. c * MaxLine =< n * MaxLine /\ c * MaxLine \in Nat /\ n * MaxLine \in Nat
      BY <3>1, MaxLineTyped, TimesMonotone
    <3>5. Len(data["checkpoints"]) =< MAX_CHECKPOINT_FILE_SIZE + n * MaxLine
      BY <3>2, <3>3, <3>4, CrashLogAssumption
    <3>6. QED
      BY <3>5 DEF n
  <2>5. fd \in [Libs -> {"none", "open", "orphan"}]
    BY <2>1 DEF Linked
  <2>6. QED
    BY <2>1, <2>2, <2>3, <2>4, <2>5 DEF TypeOK, Counted
<1>2. QED
  BY <1>1, Invariance, PTL

\* For any number of threads, starts and entries, the java and native logs
\* show all that was written to them since they were last emptied, and so do
\* the checkpoints until two threads have met in checkpoint().
THEOREM NothingLost == Spec => []LogsKept
<1>1. IInv => LogsKept
  BY DEF IInv
<1>2. QED
  BY <1>1, Invariance, PTL

\* For any number of threads, starts and entries: a process that died of a
\* crash its handlers reported left the report, once and in order, in the file
\* the next start reads, unless the user cleared it; only the pieces that
\* write() or appendText() refused are missing.
THEOREM CrashesTold == Spec => []CrashTold
<1>1. ASSUME IInv PROVE CrashTold
  <2>1. CrashTyped /\ NativeReport /\ JavaReport
    BY <1>1 DEF IInv
  <2>2. ASSUME NEW s, NEW e \in Seq(Entries), NEW lost,
               Reported(s, e, Len(e), lost)
        PROVE  Told(s, e, lost)
    <3>1. DOMAIN e = 1..Len(e)
      BY LenProperties
    <3>2. QED
      BY <2>2, <3>1 DEF Reported, Told
  <2>3. \A f \in {"java", "native"} : crash[f].entry \in Seq(Entries)
    BY <2>1 DEF CrashTyped, Crash
  <2>4. crash["java"].over /\ ~crash["java"].cleared
          => Told(data["java"], crash["java"].entry, crash["java"].lost)
    BY <2>1, <2>2, <2>3 DEF JavaReport
  <2>5. crash["native"].over /\ ~crash["native"].cleared
          => Told(data["native"], crash["native"].entry, crash["native"].lost)
    BY <2>1, <2>2, <2>3 DEF NativeReport
  <2>6. QED
    BY <2>4, <2>5 DEF CrashTold
<1>2. QED
  BY <1>1, Invariance, PTL

=============================================================================
