------------------------------ MODULE CrashLog ------------------------------
(***************************************************************************)
(* The three diagnostic files of the application: CrashLogger.kt writes    *)
(* the Kotlin checkpoints and the Java crashes, opening the file anew for  *)
(* every entry; the two copies of crash_handler.c (one in ciadpi_jni.so,   *)
(* one in tun2socks_jni.so) append native checkpoints and crashes through  *)
(* descriptors they open once per process.  No lock protects any of it,    *)
(* the user may clear the files at any time, and the process may be killed *)
(* between any two system calls.  A file is what its name shows; a deleted *)
(* file lives on for those who have it open, who then write where nobody   *)
(* will read (an orphan).  What the process has written survives it; the   *)
(* loss of unsynced pages in a power failure is not modelled.              *)
(***************************************************************************)
EXTENDS Integers, Sequences, FiniteSets

CONSTANTS
    Threads,       \* the Kotlin threads that call checkpoint()
    Main,          \* the one that runs the activity and its callbacks
    MAX_CHECKPOINT_FILE_SIZE,
    LineSizes,     \* sizes of a checkpoint line, in bytes
    MaxLines,      \* bound on the checkpoints of the Kotlin threads
    MaxEntries,    \* bound on the native checkpoints and the crashes
    MaxStarts      \* bound on the starts of the process

ASSUME CrashLogAssumption ==
    /\ Main \in Threads /\ IsFiniteSet(Threads)
    /\ MAX_CHECKPOINT_FILE_SIZE \in Nat
    /\ LineSizes \subseteq Nat \ {0}
    /\ \E n \in LineSizes : \A m \in LineSizes : m =< n
    /\ MaxLines \in Nat /\ MaxEntries \in Nat /\ MaxStarts \in Nat

VARIABLES
    up,       \* the process runs
    starts,   \* how often it was started
    lines,    \* Kotlin checkpoints begun so far: the identity of the next one
    entries,  \* the same for native checkpoints and crashes
    data,     \* what each file name shows: <<>> when there is no such file
    th,       \* the Kotlin threads
    installed,\* CrashLogger.installed
    fd,       \* g_log_fd of each copy of crash_handler.c
    signal,   \* the writes crash_signal_handler() still has to make
    log,      \* history: what was written to each file since it was last emptied
    raced,    \* history: two checkpoints wrote, or rotated, at the same time
    undeleted,\* history: delete() refused to rotate the checkpoint file
    crash     \* history: the latest crash of each kind

vars == <<up, starts, lines, entries, data, th, installed, fd, signal, log, raced,
          undeleted, crash>>

Files == {"java", "native", "checkpoints"}
Libs == {"ciadpi", "tun2socks"}
Idle == [at |-> "idle", line |-> <<>>, off |-> 0, orphan |-> FALSE]
\* entry: the pieces of the report; lost: those write() refused
NoCrash == [entry |-> <<>>, over |-> FALSE, cleared |-> FALSE, lost |-> {}]

(* The steps between which a thread relies on the file that had the name f *)
(* before: found too long, or opened.                                      *)
HoldsAt(f) == CASE f = "java" -> {"append"} [] f = "checkpoints" -> {"delete", "seek", "write"}
                [] OTHER -> {}

(* Deleting f by its name: the threads that hold it are left with an       *)
(* orphan.                                                                 *)
Orphaned(f) == [t \in Threads |-> [th[t] EXCEPT !.orphan = @ \/ th[t].at \in HoldsAt(f)]]

(***************************************************************************)
(* CrashLogger.checkpoint(): the size is tested, the file deleted, opened, *)
(* its length read, and the line written at that offset, in five separate  *)
(* system calls.                                                           *)
(***************************************************************************)
TooLong_never == FALSE                                           \* (mutant)
TooLong == Len(data["checkpoints"]) > MAX_CHECKPOINT_FILE_SIZE

checkpoint(t) ==
    /\ up /\ th[t].at = "idle" /\ lines < MaxLines
    /\ lines' = lines + 1
    /\ \E n \in LineSizes :
          th' = [th EXCEPT ![t] = [Idle EXCEPT !.at = IF TooLong THEN "delete" ELSE "open",
                                               !.line = [i \in 1..n |-> <<"kt", lines', i>>]]]
    /\ UNCHANGED <<up, starts, entries, data, installed, fd, signal, log, raced, undeleted, crash>>

(* f.delete(): by name, whatever file has that name now.  A file other     *)
(* than the one that was found too long is lost to a race.                 *)
rotate(t) ==
    LET stale == th[t].orphan /\ data["checkpoints"] # <<>> IN
    /\ up /\ th[t].at = "delete"
    /\ data' = [data EXCEPT !["checkpoints"] = <<>>]
    /\ th' = [Orphaned("checkpoints") EXCEPT ![t].at = "open", ![t].orphan = FALSE]
    /\ raced' = stale
    /\ log' = IF stale THEN log ELSE [log EXCEPT !["checkpoints"] = <<>>]
    /\ undeleted' = FALSE
    /\ UNCHANGED <<up, starts, lines, entries, installed, fd, signal, crash>>

(* delete() returns FALSE, which nobody looks at: the line is appended to  *)
(* the file that was too long.                                             *)
deleteFails(t) ==
    /\ up /\ th[t].at = "delete"
    /\ th' = [th EXCEPT ![t].at = "open", ![t].orphan = FALSE]
    /\ undeleted' = TRUE
    /\ UNCHANGED <<up, starts, lines, entries, data, installed, fd, signal, log, raced, crash>>

open(t) ==
    /\ up /\ th[t].at = "open"
    /\ th' = [th EXCEPT ![t].at = "seek"]
    /\ UNCHANGED <<up, starts, lines, entries, data, installed, fd, signal, log, raced, undeleted, crash>>

End_start(t) == 0                                                \* (mutant)
End(t) == Len(data["checkpoints"])

(* Two threads that have both read the length of the same file write over  *)
(* each other.                                                             *)
seek(t) ==
    /\ up /\ th[t].at = "seek"
    /\ th' = [th EXCEPT ![t].at = "write", ![t].off = IF th[t].orphan THEN 0 ELSE End(t)]
    /\ raced' = (raced \/ /\ ~th[t].orphan
                          /\ \E u \in Threads \ {t} : th[u].at = "write" /\ ~th[u].orphan)
    /\ UNCHANGED <<up, starts, lines, entries, data, installed, fd, signal, log, undeleted, crash>>

Written(s, off, line) ==
    [i \in 1..(IF Len(s) > off + Len(line) THEN Len(s) ELSE off + Len(line)) |->
        IF i \in (off + 1)..(off + Len(line)) THEN line[i - off] ELSE s[i]]

write(t) ==
    /\ up /\ th[t].at = "write"
    /\ IF th[t].orphan
       THEN UNCHANGED <<data, log>>
       ELSE /\ data' = [data EXCEPT !["checkpoints"] = Written(@, th[t].off, th[t].line)]
            /\ log' = [log EXCEPT !["checkpoints"] = @ \o th[t].line]
    /\ th' = [th EXCEPT ![t] = Idle]
    /\ UNCHANGED <<up, starts, lines, entries, installed, fd, signal, raced, undeleted, crash>>

(* An exception of any of these calls is swallowed; the line is not kept.  *)
fail(t) ==
    /\ up /\ th[t].at \in {"open", "seek", "write"}
    /\ th' = [th EXCEPT ![t] = Idle]
    /\ UNCHANGED <<up, starts, lines, entries, data, installed, fd, signal, log, raced, undeleted, crash>>

(***************************************************************************)
(* The activity: onCreate() installs the handlers, clearAll() empties the  *)
(* files.  Both run on the main thread, step by step.                      *)
(***************************************************************************)
MainAt(from, to) ==
    /\ up /\ th[Main].at = from
    /\ th' = [th EXCEPT ![Main] = [Idle EXCEPT !.at = to]]

install ==
    /\ MainAt("idle", "ciadpi")
    /\ installed' = TRUE
    /\ UNCHANGED <<up, starts, lines, entries, data, fd, signal, log, raced, undeleted, crash>>

crash_handler_install(lib) ==
    /\ MainAt(lib, IF lib = "ciadpi" THEN "tun2socks" ELSE "idle")
    /\ \/ fd[lib] = "none" /\ fd' = [fd EXCEPT ![lib] = "open"]
       \/ UNCHANGED fd                     \* open already, or open() fails
    /\ UNCHANGED <<up, starts, lines, entries, data, installed, signal, log, raced, undeleted, crash>>

(* File.delete() of f by clearAll().                                       *)
Emptied(f) ==
    /\ data' = [data EXCEPT ![f] = <<>>]
    /\ log' = [log EXCEPT ![f] = <<>>]
    /\ raced' = (raced /\ f # "checkpoints")
    /\ undeleted' = (undeleted /\ f # "checkpoints")
    /\ crash' = [g \in DOMAIN crash |->
                    IF g = f THEN [crash[g] EXCEPT !.cleared = TRUE, !.entry = <<>>] ELSE crash[g]]
    /\ UNCHANGED <<up, starts, lines, entries, installed, signal>>

Delete(f, from, to) ==
    /\ up /\ th[Main].at = from
    /\ Emptied(f)
    /\ th' = [Orphaned(f) EXCEPT ![Main] = [Idle EXCEPT !.at = to]]
    /\ UNCHANGED fd

(* The version before 3.7.9 deleted the native file too.                   *)
truncateInPlace_unlinks ==                                       \* (mutant)
    /\ MainAt("clear native", "clear checkpoints")
    /\ Emptied("native")
    /\ fd' = [lib \in Libs |-> IF fd[lib] = "open" THEN "orphan" ELSE fd[lib]]

(* setLength(0): the same file, now empty.                                 *)
truncateInPlace ==
    /\ MainAt("clear native", "clear checkpoints")
    /\ Emptied("native")
    /\ UNCHANGED fd

(* delete() or the truncation fails, and clearAll() goes on.               *)
Kept(from, to) ==
    /\ MainAt(from, to)
    /\ UNCHANGED <<up, starts, lines, entries, data, installed, fd, signal, log, raced,
                   undeleted, crash>>

clearAll ==
    \/ Delete("java", "idle", "clear native") \/ Kept("idle", "clear native")
    \/ truncateInPlace \/ Kept("clear native", "clear checkpoints")
    \/ Delete("checkpoints", "clear checkpoints", "idle") \/ Kept("clear checkpoints", "idle")

(***************************************************************************)
(* Crashes.  An uncaught exception of a Kotlin thread is appended to the   *)
(* Java file, then the system's handler ends the process (one such crash   *)
(* at a time is modelled).                                                 *)
(***************************************************************************)
JavaEntry(n) == <<<<"java", n, 1>>>>

uncaughtException(t) ==
    /\ up /\ installed /\ th[t].at = "idle" /\ entries < MaxEntries
    /\ \A u \in Threads : th[u].at \notin {"append", "dies"}
    /\ entries' = entries + 1
    /\ th' = [th EXCEPT ![t] = [Idle EXCEPT !.at = "append", !.line = JavaEntry(entries')]]
    /\ crash' = [crash EXCEPT !["java"] = [NoCrash EXCEPT !.entry = JavaEntry(entries')]]
    /\ UNCHANGED <<up, starts, lines, installed, fd, signal, data, log, raced, undeleted>>

appendToFile(t) ==
    /\ up /\ th[t].at = "append"
    /\ IF th[t].orphan
       THEN UNCHANGED <<data, log>>
       ELSE /\ data' = [data EXCEPT !["java"] = @ \o th[t].line]
            /\ log' = [log EXCEPT !["java"] = @ \o th[t].line]
    /\ th' = [th EXCEPT ![t] = [Idle EXCEPT !.at = "dies"]]
    /\ UNCHANGED <<up, starts, lines, entries, installed, fd, signal, raced, undeleted, crash>>

(* An exception of appendText() is swallowed and the process dies untold.  *)
appendFails(t) ==
    /\ up /\ th[t].at = "append"
    /\ crash' = [crash EXCEPT !["java"].lost = {th[t].line[1]}]
    /\ th' = [th EXCEPT ![t] = [Idle EXCEPT !.at = "dies"]]
    /\ UNCHANGED <<up, starts, lines, entries, data, installed, fd, signal, log, raced,
                   undeleted>>

(***************************************************************************)
(* Native code.  crash_log_checkpoint() is one write() with O_APPEND, the  *)
(* result of which is ignored (ok: the kernel takes the bytes).            *)
(***************************************************************************)
safe_write(lib, bytes, ok) ==
    /\ fd[lib] # "none"
    /\ data' = IF ~ok \/ fd[lib] = "orphan" THEN data
               ELSE [data EXCEPT !["native"] = @ \o bytes]
    /\ log' = IF ok THEN [log EXCEPT !["native"] = @ \o bytes] ELSE log

crash_log_checkpoint(lib) ==
    /\ up /\ entries < MaxEntries
    /\ entries' = entries + 1
    /\ \E ok \in BOOLEAN : safe_write(lib, <<<<lib, entries', 0>>>>, ok)
    /\ UNCHANGED <<up, starts, lines, th, installed, fd, signal, raced, undeleted, crash>>

(* A signal: the handler of tun2socks_jni.so, installed last, writes its   *)
(* report piece by piece and calls the one it replaced, which writes its   *)
(* own; other threads go on meanwhile.                                     *)
Dies == <<"dies", 0, 0>>      \* then the system's handler ends the process
Report(lib, n) == IF fd[lib] = "none" THEN <<>> ELSE <<<<lib, n, 1>>, <<lib, n, 2>>>>

crash_signal_handler ==
    /\ up /\ signal = <<>> /\ entries < MaxEntries
    /\ entries' = entries + 1
    /\ LET entry == Report("tun2socks", entries') \o Report("ciadpi", entries')
       IN  /\ entry # <<>>
           /\ signal' = Append(entry, Dies)
           /\ crash' = [crash EXCEPT !["native"] = [NoCrash EXCEPT !.entry = entry]]
    /\ UNCHANGED <<up, starts, lines, data, th, installed, fd, log, raced, undeleted>>

report ==
    /\ up /\ Len(signal) > 1
    /\ \E ok \in BOOLEAN :
          /\ safe_write(signal[1][1], <<signal[1]>>, ok)
          /\ crash' = IF ok THEN crash
                      ELSE [crash EXCEPT !["native"].lost = @ \cup {signal[1]}]
    /\ signal' = Tail(signal)
    /\ UNCHANGED <<up, starts, lines, entries, th, installed, fd, raced, undeleted>>

(***************************************************************************)
(* The end of the process: after a crash was reported, or killed.          *)
(***************************************************************************)
die ==
    /\ up /\ up' = FALSE
    /\ crash' = [crash EXCEPT !["java"].over = @ \/ \E t \in Threads : th[t].at = "dies",
                              !["native"].over = @ \/ signal = <<Dies>>]
    /\ th' = [t \in Threads |-> Idle]
    /\ installed' = FALSE /\ fd' = [lib \in Libs |-> "none"] /\ signal' = <<>>
    /\ UNCHANGED <<starts, lines, entries, data, log, raced, undeleted>>

start ==
    /\ ~up /\ starts < MaxStarts
    /\ up' = TRUE /\ starts' = starts + 1
    /\ UNCHANGED <<lines, entries, data, th, installed, fd, signal, log, raced, undeleted, crash>>

Init ==
    /\ up = FALSE /\ starts = 0 /\ lines = 0 /\ entries = 0
    /\ data = [f \in Files |-> <<>>]
    /\ th = [t \in Threads |-> Idle]
    /\ installed = FALSE /\ fd = [lib \in Libs |-> "none"] /\ signal = <<>>
    /\ log = [f \in Files |-> <<>>] /\ raced = FALSE /\ undeleted = FALSE
    /\ crash = [f \in {"java", "native"} |-> NoCrash]

Next ==
    \/ \E t \in Threads : \/ checkpoint(t) \/ rotate(t) \/ deleteFails(t) \/ open(t)
                          \/ seek(t) \/ write(t) \/ fail(t)
                          \/ uncaughtException(t) \/ appendToFile(t) \/ appendFails(t)
    \/ install \/ clearAll
    \/ \E lib \in Libs : crash_handler_install(lib) \/ crash_log_checkpoint(lib)
    \/ crash_signal_handler \/ report \/ die \/ start

Spec == Init /\ [][Next]_vars

----------------------------------------------------------------------------
MaxLine == CHOOSE n \in LineSizes : \A m \in LineSizes : m =< n
Entries == {<<"kt", n, i>> : n \in 1..MaxLines, i \in 1..MaxLine}
           \cup {<<w, n, i>> : w \in Libs \cup {"java"}, n \in 1..MaxEntries, i \in 0..2}

(* Types, and the bound on the checkpoint file: it passes the limit by at  *)
(* most one line for every thread, since a thread that had found it short  *)
(* enough writes once (checkpoint(), CrashLogger.kt:108), until delete()   *)
(* refuses to rotate it.                                                   *)
TypeOK ==
    /\ up \in BOOLEAN /\ installed \in BOOLEAN /\ raced \in BOOLEAN /\ undeleted \in BOOLEAN
    /\ starts \in 0..MaxStarts /\ lines \in 0..MaxLines /\ entries \in 0..MaxEntries
    /\ fd \in [Libs -> {"none", "open", "orphan"}]
    /\ \A t \in Threads : th[t].orphan \in BOOLEAN /\ th[t].off \in Nat
    /\ \A f \in Files : \A i \in DOMAIN data[f] : data[f][i] \in Entries
    /\ undeleted \/ Len(data["checkpoints"])
          =< MAX_CHECKPOINT_FILE_SIZE + Cardinality(Threads) * MaxLine

(* What was written to a file since it was last emptied is what its name   *)
(* shows, whole and in the order of the writes, whoever cleared, rotated,  *)
(* crashed or restarted in between.  For the checkpoints this fails only   *)
(* when two threads wrote from the same length or one deleted the file     *)
(* another had just begun (no lock in checkpoint(), CrashLogger.kt:105);   *)
(* for the native file it needs clearAll() to keep the inode that          *)
(* g_log_fd holds (CrashLogger.kt:196).                                    *)
LogsKept == \A f \in Files : data[f] = log[f] \/ (f = "checkpoints" /\ raced)

(* Each piece of the report e but the ones lost is in the file s exactly   *)
(* once, in the order in which e has them, whatever else is between them.  *)
Told(s, e, lost) ==
    /\ \A i \in DOMAIN e : e[i] \in lost
          \/ \E j \in DOMAIN s : \A k \in DOMAIN s : s[k] = e[i] <=> k = j
    /\ \A i, k \in DOMAIN e, j, l \in DOMAIN s :
          i < k /\ s[j] = e[i] /\ s[l] = e[k] => j < l

(* A process that died of a crash its handlers reported left the report,   *)
(* once and in order, in the file the next start reads, unless the user    *)
(* cleared the files after the crash began: whatever other threads logged  *)
(* during the report and whatever was cleared before it (install(),        *)
(* CrashLogger.kt:49; crash_signal_handler(), crash_handler.c:91).  What   *)
(* is missing of it are the pieces the file system refused to write, which *)
(* nobody notices (appendToFile(), CrashLogger.kt:75; safe_write(),        *)
(* crash_handler.c:55), and a refusal costs no piece but its own.          *)
CrashTold ==
    \A f \in {"java", "native"} :
        crash[f].over /\ ~crash[f].cleared => Told(data[f], crash[f].entry, crash[f].lost)
=============================================================================
