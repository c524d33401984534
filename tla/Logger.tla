------------------------------- MODULE Logger -------------------------------
(***************************************************************************)
(* The logging of the library and of the application around it:            *)
(* src/src/log.  Every LOGE, LOGW, LOGI of the library goes through the    *)
(* static proxy DefaultLogger to the real logger it holds: the library's   *)
(* own RealDefaultLogger, which has no file, until the application hands   *)
(* its logger over (accept_real_logger).  The application logs to its own  *)
(* instance and sets its file, level and printing at any time.             *)
(*                                                                         *)
(* A logger is a std::fstream with a buffer in front of the file, a mutex  *)
(* that log() holds while it writes, flushes and prints, and settings that *)
(* the other functions change without that mutex.  A line is handed to the *)
(* stream in two pieces, its head and its tail, and the stream may push    *)
(* what it holds to the disk at any of them: a process killed between two  *)
(* steps loses what was not pushed.                                        *)
(***************************************************************************)
EXTENDS Naturals, Sequences, FiniteSets, SequencesExt

CONSTANTS Threads,       \* the threads that log
          LibraryThreads,\* those of them that run the library's code
          Says,          \* the levels each of a thread's messages may have
          Levels,        \* the levels of the messages that are logged
          Warning,       \* LVL_WARNING: lines up to it are flushed
          MaxLogLevel,   \* MAX_LOG_LEVEL, the level a new logger starts with
          Files,         \* paths of log files
          Asks,          \* the settings calls the application may make
          MaxAsks,       \* bound: settings calls
          MaxFaults,     \* bound: writes to the disk that fail
          NoFile, NoThread, NoLine

Loggers == {"own", "given"}
Parts   == {"head", "tail"}

(* A settings call of a logger: init, logfile, level or print, with the    *)
(* arguments it uses; an empty path is NoFile.                             *)
Ask == [to: Loggers, call: {"init", "logfile", "level", "print"},
        path: Files \cup {NoFile}, lvl: Levels, prints: BOOLEAN]

ASSUME LoggerAssumption ==
    /\ LibraryThreads \subseteq Threads
    /\ Levels \subseteq Nat /\ Warning \in Nat /\ MaxLogLevel \in Levels
    /\ Says \in [Threads -> Seq(SUBSET Levels)] /\ MaxAsks \in Nat /\ MaxFaults \in Nat
    /\ Asks \subseteq Ask
    /\ NoFile \notin Files /\ NoThread \notin Threads

(* One call of log(): who calls, its number, the level of the message.     *)
Line  == [by: Threads, n: Nat, lvl: Levels]
Piece == [line: Line, part: Parts]

VARIABLES
    logger,     \* the RealDefaultLogger objects
    holder,     \* what real_logger_holder() points to
    adopted,    \* DefaultLogger::adopted
    disk,       \* the pieces in each file
    pc,         \* where each thread is in log()
    line,       \* the line of the call a thread is in
    at,         \* the logger that call reached
    lines,      \* log calls each thread has made
    ask,        \* the settings call under way, and where it is
    asked,      \* settings calls made
    faults,     \* writes that failed
    process,    \* "up", "exited" or "killed"
    shown,      \* lines printed to the terminal
    told,       \* history: the lines of finished calls and what held for them
    overtaken,  \* history: lines met by a settings call or a failed write
    struck      \* history: loggers a write failed of since they opened a file

vars == <<logger, holder, adopted, disk, pc, line, at, lines, ask, asked,
          faults, process, shown, told, overtaken, struck>>
threads  == <<pc, line, at, lines>>
settings == <<holder, adopted, ask, asked>>
troubles == <<faults, overtaken, struck>>
-----------------------------------------------------------------------------
(* The stream of a logger.                                                 *)

Up == process = "up"

(* The lines whose call is under way on l.                                 *)
InHand(l) == {line[t] : t \in {u \in Threads : pc[u] # "idle" /\ at[u] = l}}

(* A thread has passed the mutex of l and is at its stream.                *)
Busy(l) == logger[l].owner # NoThread

(* What a file has, with what its logger has yet to push to it.            *)
Contents(f) == disk[f] \o (LET of == {l \in Loggers : logger[l].file = f} IN
                           IF of = {} THEN <<>>
                           ELSE logger[CHOOSE l \in of : TRUE].buf)

LinesOf(pieces) == {pieces[i].line : i \in DOMAIN pieces}

(* l holds the pieces `all`: it pushes the first k of them to its file.    *)
Push(l, all, k) ==
    /\ logger' = [logger EXCEPT ![l].buf = SubSeq(all, k + 1, Len(all))]
    /\ disk' = [disk EXCEPT ![logger[l].file] = @ \o SubSeq(all, 1, k)]

(* A write to the disk fails (a full disk): part of it may be there, the   *)
(* rest is gone, and badbit makes the stream refuse everything until the   *)
(* file is opened again.                                                   *)
WriteFails(l, all) ==
    /\ faults < MaxFaults
    /\ faults' = faults + 1
    /\ \E k \in 0..Len(all) - 1 :
          disk' = [disk EXCEPT ![logger[l].file] = @ \o SubSeq(all, 1, k)]
    /\ logger' = [logger EXCEPT ![l].buf = <<>>, ![l].bad = TRUE]
    /\ overtaken' = overtaken \cup LinesOf(all) \cup InHand(l)
    /\ struck' = struck \cup {l}

(* alogfile << finalLogStr, one piece of it: kept in the buffer, or pushed *)
(* to the file together with what the buffer held.                         *)
Put(t, part) ==
    LET l   == at[t]
        all == Append(logger[l].buf, [line |-> line[t], part |-> part])
    IN  \/ /\ logger[l].bad \/ logger[l].file = NoFile
           /\ overtaken' = IF l \in struck THEN overtaken \cup {line[t]}
                           ELSE overtaken
           /\ UNCHANGED <<logger, disk, faults, struck>>
        \/ /\ ~logger[l].bad /\ logger[l].file # NoFile
           /\ \/ /\ \E k \in {0, Len(all)} : Push(l, all, k)
                 /\ UNCHANGED troubles
              \/ WriteFails(l, all)
-----------------------------------------------------------------------------
(* log(): DefaultLogger forwards to the held logger, RealDefaultLogger     *)
(* writes.                                                                 *)

Begin(t) ==
    /\ Up /\ pc[t] = "idle" /\ lines[t] < Len(Says[t])
    /\ \E v \in Says[t][lines[t] + 1] :
          LET new == [by |-> t, n |-> lines[t] + 1, lvl |-> v]
              l   == IF t \in LibraryThreads THEN holder ELSE "given"
          IN  /\ line' = [line EXCEPT ![t] = new]
              /\ at' = [at EXCEPT ![t] = l]
              /\ overtaken' = IF ask # <<>> /\ ask[1].to = l
                              THEN overtaken \cup {new} ELSE overtaken
    /\ lines' = [lines EXCEPT ![t] = @ + 1]
    /\ pc' = [pc EXCEPT ![t] = "check"]
    /\ UNCHANGED <<logger, disk, settings, faults, process, shown, told, struck>>

(* What the finished call of t leaves for the properties.                  *)
Told(t) == [line |-> line[t], to |-> at[t], file |-> logger[at[t]].file,
            lvl |-> logger[at[t]].lvl, prints |-> logger[at[t]].prints]

(* The level is read before the mutex is taken.                            *)
CheckLevel(t) ==
    /\ Up /\ pc[t] = "check"
    /\ \/ /\ line[t].lvl > logger[at[t]].lvl
          /\ pc' = [pc EXCEPT ![t] = "idle"]
          /\ told' = told \cup {Told(t)}
       \/ /\ line[t].lvl <= logger[at[t]].lvl
          /\ pc' = [pc EXCEPT ![t] = "lock"]
          /\ UNCHANGED told
    /\ UNCHANGED <<logger, disk, line, at, lines, settings, process, shown,
                   troubles>>

(* Mutant: the mutex is not waited for.                                     *)
LockNotWaiting(t) ==
    /\ Up /\ pc[t] = "lock"
    /\ logger' = [logger EXCEPT ![at[t]].owner = t]
    /\ pc' = [pc EXCEPT ![t] =
                IF logger[at[t]].file = NoFile THEN "print" ELSE "head"]
    /\ UNCHANGED <<disk, line, at, lines, settings, process, shown, told,
                   troubles>>

Lock(t) ==
    /\ Up /\ pc[t] = "lock" /\ logger[at[t]].owner = NoThread
    /\ logger' = [logger EXCEPT ![at[t]].owner = t]
    /\ pc' = [pc EXCEPT ![t] =
                IF logger[at[t]].file = NoFile THEN "print" ELSE "head"]
    /\ UNCHANGED <<disk, line, at, lines, settings, process, shown, told,
                   troubles>>

WriteHead(t) ==
    /\ Up /\ pc[t] = "head"
    /\ Put(t, "head")
    /\ pc' = [pc EXCEPT ![t] = "tail"]
    /\ UNCHANGED <<line, at, lines, settings, process, shown, told>>

(* Mutant: a warning is not flushed.                                        *)
WriteTailUnflushed(t) ==
    /\ Up /\ pc[t] = "tail"
    /\ Put(t, "tail")
    /\ pc' = [pc EXCEPT ![t] =
                IF line[t].lvl < Warning THEN "flush" ELSE "print"]
    /\ UNCHANGED <<line, at, lines, settings, process, shown, told>>

WriteTail(t) ==
    /\ Up /\ pc[t] = "tail"
    /\ Put(t, "tail")
    /\ pc' = [pc EXCEPT ![t] =
                IF line[t].lvl <= Warning THEN "flush" ELSE "print"]
    /\ UNCHANGED <<line, at, lines, settings, process, shown, told>>

Flush(t) ==
    LET l == at[t]  all == logger[l].buf IN
    /\ Up /\ pc[t] = "flush"
    /\ \/ /\ logger[l].file = NoFile \/ all = <<>>
          /\ UNCHANGED <<logger, disk, troubles>>
       \/ /\ logger[l].file # NoFile /\ all # <<>>
          /\ \/ Push(l, all, Len(all)) /\ UNCHANGED troubles
             \/ WriteFails(l, all)
    /\ pc' = [pc EXCEPT ![t] = "print"]
    /\ UNCHANGED <<line, at, lines, settings, process, shown, told>>

(* Mutant: the mutex is kept.                                              *)
PrintAndKeep(t) ==
    /\ Up /\ pc[t] = "print"
    /\ shown' = IF logger[at[t]].prints THEN shown \cup {line[t]} ELSE shown
    /\ pc' = [pc EXCEPT ![t] = "idle"]
    /\ told' = told \cup {Told(t)}
    /\ UNCHANGED <<logger, disk, line, at, lines, settings, process, troubles>>
(* Prints the line, releases the mutex and returns.                        *)
PrintAndReturn(t) ==
    /\ Up /\ pc[t] = "print"
    /\ shown' = IF logger[at[t]].prints THEN shown \cup {line[t]} ELSE shown
    /\ logger' = [logger EXCEPT ![at[t]].owner = NoThread]
    /\ pc' = [pc EXCEPT ![t] = "idle"]
    /\ told' = told \cup {Told(t)}
    /\ UNCHANGED <<disk, line, at, lines, settings, process, troubles>>
-----------------------------------------------------------------------------
(* The application: handing its logger over, and its settings calls.       *)

(* accept_real_logger before the first use of the library, as its comment  *)
(* asks; a null pointer is ignored.                                        *)
AcceptRealLogger(ptr) ==
    /\ Up /\ \A t \in LibraryThreads : lines[t] = 0
    /\ ptr # "null" => ~adopted
    /\ IF ptr = "null" THEN UNCHANGED <<holder, adopted>>
                       ELSE holder' = ptr /\ adopted' = TRUE
    /\ UNCHANGED <<logger, disk, threads, ask, asked, process, shown, told,
                   troubles>>

(* Mutant: the open file is not closed first.                              *)
FirstStepOpening(a) == IF a.call \in {"init", "logfile"} THEN
                   IF a.path # NoFile THEN "open"
                   ELSE IF a.call = "init" THEN "level" ELSE "end"
                ELSE a.call

(* The first step of a call: what logfile, level and print begin with.     *)
FirstStep(a) == IF a.call \in {"init", "logfile"} THEN
                   IF a.path # NoFile THEN "close"
                   ELSE IF a.call = "init" THEN "level" ELSE "end"
                ELSE a.call

(* Two loggers are not given one path: that is what sharing one instance   *)
(* is for.                                                                 *)
SettingsCall(a) ==
    /\ Up /\ ask = <<>> /\ asked < MaxAsks
    /\ \A l \in Loggers \ {a.to} : a.path # NoFile => logger[l].file # a.path
    /\ asked' = asked + 1
    /\ ask' = IF FirstStep(a) = "end" THEN <<>> ELSE <<a, FirstStep(a)>>
    /\ overtaken' = overtaken \cup InHand(a.to)
    /\ UNCHANGED <<logger, disk, threads, holder, adopted, faults, process,
                   shown, told, struck>>

AskAt(step) == Up /\ ask # <<>> /\ ask[2] = step

(* Step of a settings call that is not its last for init, and is for the   *)
(* function of its own.                                                    *)
Continue(next) == ask' = IF ask[1].call = "init" THEN <<ask[1], next>> ELSE <<>>

(* alogfile.close(): the buffer goes to the file.  A thread may be inside  *)
(* the stream, since no mutex is taken: what the buffer held may then be   *)
(* lost as well.                                                           *)
CloseFile ==
    LET l == ask[1].to  all == logger[l].buf
        closed == [logger EXCEPT ![l].file = NoFile, ![l].buf = <<>>] IN
    /\ AskAt("close")
    /\ ask' = <<ask[1], "open">>
    /\ logger' = closed
    /\ \/ logger[l].file = NoFile /\ UNCHANGED <<disk, overtaken, faults>>
       \/ /\ logger[l].file # NoFile
          /\ \/ /\ disk' = [disk EXCEPT ![logger[l].file] = @ \o all]
                /\ UNCHANGED <<overtaken, faults>>
             \/ /\ Busy(l) \/ faults < MaxFaults
                /\ faults' = IF Busy(l) THEN faults ELSE faults + 1
                /\ \E k \in 0..Len(all) : disk' =
                     [disk EXCEPT ![logger[l].file] = @ \o SubSeq(all, 1, k)]
                /\ overtaken' = overtaken \cup LinesOf(all) \cup InHand(l)
    /\ UNCHANGED <<threads, holder, adopted, asked, process, shown, told, struck>>

(* alogfile.open(): a stream that is still open refuses it and is marked   *)
(* bad; one that opens starts clean; a failure ends the call by a throw.   *)
OpenFile ==
    LET l == ask[1].to IN
    /\ AskAt("open")
    /\ \/ /\ logger[l].file # NoFile
          /\ logger' = [logger EXCEPT ![l].bad = TRUE]
          /\ Continue("level")
       \/ /\ logger[l].file = NoFile
          /\ logger' = [logger EXCEPT ![l].file = ask[1].path, ![l].bad = FALSE]
          /\ Continue("level")
       \/ /\ logger[l].file = NoFile
          /\ logger' = [logger EXCEPT ![l].bad = TRUE]
          /\ ask' = <<>>
    /\ struck' = struck \ {l}
    /\ UNCHANGED <<disk, threads, holder, adopted, asked, faults, process,
                   shown, told, overtaken>>

SetLevel ==
    /\ AskAt("level")
    /\ logger' = [logger EXCEPT ![ask[1].to].lvl = ask[1].lvl]
    /\ Continue("print")
    /\ UNCHANGED <<disk, threads, holder, adopted, asked, process, shown, told,
                   troubles>>

SetPrint ==
    /\ AskAt("print")
    /\ logger' = [logger EXCEPT ![ask[1].to].prints = ask[1].prints]
    /\ ask' = <<>>
    /\ UNCHANGED <<disk, threads, holder, adopted, asked, process, shown, told,
                   troubles>>
-----------------------------------------------------------------------------
(* The end of the process.                                                 *)

NewLogger == [lvl |-> MaxLogLevel, prints |-> TRUE, file |-> NoFile,
              bad |-> FALSE, buf |-> <<>>, owner |-> NoThread]

(* The memory of a process that has not begun, or is gone.                 *)
Fresh ==
    [logger |-> [l \in Loggers |-> NewLogger],
     pc |-> [t \in Threads |-> "idle"],
     line |-> [t \in Threads |-> NoLine],
     at |-> [t \in Threads |-> "own"],
     lines |-> [t \in Threads |-> 0]]

End(how) ==
    /\ process' = how
    /\ logger' = Fresh.logger
    /\ pc' = Fresh.pc /\ line' = Fresh.line /\ at' = Fresh.at
    /\ lines' = Fresh.lines
    /\ holder' = "own" /\ adopted' = FALSE /\ ask' = <<>> /\ asked' = 0
    /\ UNCHANGED <<shown, told, troubles>>

(* main returns with no call under way: the destructors of the streams     *)
(* push the buffers.                                                       *)
Exit ==
    /\ Up /\ ask = <<>> /\ \A t \in Threads : pc[t] = "idle"
    /\ disk' = [f \in Files |-> Contents(f)]
    /\ End("exited")

(* The process is killed or crashes: what was not pushed is lost.          *)
Kill == Up /\ UNCHANGED disk /\ End("killed")

Init ==
    /\ logger = Fresh.logger
    /\ pc = Fresh.pc /\ line = Fresh.line /\ at = Fresh.at
    /\ lines = Fresh.lines
    /\ holder = "own" /\ adopted = FALSE
    /\ disk = [f \in Files |-> <<>>]
    /\ ask = <<>> /\ asked = 0 /\ faults = 0
    /\ process = "up"
    /\ shown = {} /\ told = {} /\ overtaken = {} /\ struck = {}

LogStep(t) == CheckLevel(t) \/ Lock(t) \/ WriteHead(t) \/ WriteTail(t)
              \/ Flush(t) \/ PrintAndReturn(t)
AskStep == CloseFile \/ OpenFile \/ SetLevel \/ SetPrint

Next ==
    \/ \E t \in Threads : Begin(t) \/ LogStep(t)
    \/ \E ptr \in {"given", "null"} : AcceptRealLogger(ptr)
    \/ \E a \in Asks : SettingsCall(a)
    \/ AskStep \/ Exit \/ Kill

Spec == Init /\ [][Next]_vars

(* The threads run: nothing in log() waits but its mutex.                  *)
Fairness == (\A t \in Threads : WF_vars(LogStep(t))) /\ WF_vars(AskStep)
FairSpec == Spec /\ Fairness
-----------------------------------------------------------------------------
(* Properties.                                                             *)

TypeOK ==
    /\ logger \in [Loggers -> [lvl: Levels, prints: BOOLEAN, bad: BOOLEAN,
                      file: Files \cup {NoFile}, buf: Seq(Piece),
                      owner: Threads \cup {NoThread}]]
    /\ holder \in Loggers /\ adopted \in BOOLEAN
    /\ disk \in [Files -> Seq(Piece)]
    /\ pc \in [Threads -> {"idle", "check", "lock", "head", "tail", "flush",
                           "print"}]
    /\ line \in [Threads -> Line \cup {NoLine}]
    /\ at \in [Threads -> Loggers]
    /\ lines \in [Threads -> Nat] /\ \A t \in Threads : lines[t] <= Len(Says[t])
    /\ ask = <<>> \/ ask \in Asks \X {"close", "open", "level", "print"}
    /\ asked \in 0..MaxAsks /\ faults \in 0..MaxFaults
    /\ process \in {"up", "exited", "killed"}
    /\ shown \subseteq Line /\ overtaken \subseteq Line
    /\ struck \subseteq Loggers

HeadOf(x) == [line |-> x, part |-> "head"]
TailOf(x) == [line |-> x, part |-> "tail"]

Holds(pieces, x) == {HeadOf(x), TailOf(x)} \subseteq ToSet(pieces)

(* The line of e passed the level of its logger and the logger had a file, *)
(* and neither a settings call nor a failed write came in between.         *)
Due(e) == e.line \notin overtaken /\ e.line.lvl <= e.lvl /\ e.file # NoFile

(* Lines of threads that log at the same time, of the library and of the   *)
(* application, stay whole in a file, each once, those of a thread in the  *)
(* order it logged them (multithread_logs in CTEST_DefaultLogger.cpp).     *)
LinesWhole ==
    \A f \in Files : LET d == disk[f] IN
        \A i \in {j \in DOMAIN d : d[j].line \notin overtaken} :
            /\ d[i].part = "head" /\ i < Len(d) => d[i + 1] = TailOf(d[i].line)
            /\ d[i].part = "tail" => i > 1 /\ d[i - 1] = HeadOf(d[i].line)
            /\ \A j \in 1..i - 1 :
                  /\ d[j] # d[i]
                  /\ d[j].line.by = d[i].line.by => d[j].line.n <= d[i].line.n

(* What log() was told while nothing disturbed it is in the file its       *)
(* logger was last given, or still in the buffer, and after main has       *)
(* returned in the file; a line above the level is nowhere; the terminal   *)
(* shows a line exactly when printing is on (log and init in               *)
(* RealDefaultLogger.cpp).  A line is missing for a reason the code gives. *)
LinesReachTheirFile ==
    \A e \in told :
        /\ Due(e) /\ process # "killed" => Holds(Contents(e.file), e.line)
        /\ e.line \notin overtaken =>
              /\ (e.line \in shown) = (e.prints /\ e.line.lvl <= e.lvl)
              /\ ~Due(e) => \A f \in Files : e.line \notin LinesOf(Contents(f))

(* When log() has returned for an error or a warning, that line and every  *)
(* line its thread logged to the same file before are on the disk, whatever*)
(* becomes of the process: flush() pushes the whole buffer, not the line.  *)
UrgentLinesSurvive ==
    \A e \in told : Due(e) /\ e.line.lvl <= Warning =>
        \A d \in told :
            /\ Due(d) /\ d.file = e.file
            /\ d.line.by = e.line.by /\ d.line.n <= e.line.n
            => Holds(disk[d.file], d.line)

(* Every log call returns while the process lives: the mutex is released   *)
(* on each path out of log(), and no settings call keeps it.               *)
LogCallsReturn ==
    \A t \in Threads : pc[t] # "idle" ~> (pc[t] = "idle" \/ ~Up)
=============================================================================
