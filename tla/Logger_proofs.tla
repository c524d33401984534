--------------------------- MODULE Logger_proofs ---------------------------
(***************************************************************************)
(* The lines of any number of threads, at any levels, stay whole in the    *)
(* files of the loggers and reach the file they are due in, whatever       *)
(* settings calls, failed writes and ends of the process come in between.  *)
(***************************************************************************)
EXTENDS Logger, SequenceTheorems, TLAPS

InCall(t) == pc[t] # "idle"
Writing == {"head", "tail", "flush", "print"}

\* A thread at the stream of a logger has its mutex.
Owned == \A t \in Threads : pc[t] \in Writing => logger[at[t]].owner = t

\* No two loggers have one file, nor will have after the settings call under
\* way; the file is closed when it is opened.
FilesApart ==
  /\ \A l, m \in Loggers :
        l # m /\ logger[l].file # NoFile => logger[l].file # logger[m].file
  /\ ask # <<>> /\ ask[2] \in {"close", "open"} =>
        /\ ask[1].path \in Files
        /\ \A m \in Loggers : logger[m].file = ask[1].path => m = ask[1].to
  /\ ask # <<>> /\ ask[2] = "open" => logger[ask[1].to].file = NoFile

\* A stream without a file holds nothing; one that refuses to write is bad
\* because a write failed.
Streams ==
  \A l \in Loggers :
    /\ logger[l].file = NoFile => logger[l].buf = <<>>
    /\ logger[l].bad /\ logger[l].file # NoFile => l \in struck

\* The line of a call is numbered by its thread, and a settings call under way
\* at its logger has overtaken it.
Calls ==
  \A t \in Threads : InCall(t) =>
    /\ line[t] \in Line /\ line[t].by = t /\ line[t].n = lines[t]
    /\ ask # <<>> /\ ask[1].to = at[t] => line[t] \in overtaken

Base == TypeOK /\ Owned /\ FilesApart /\ Streams /\ Calls

\* The pieces d, except those of the lines `over`, are whole as LinesWhole asks
\* of a file.
Whole(d, over) ==
  \A i \in 1..Len(d) : d[i].line \notin over =>
    /\ d[i].part = "head" /\ i < Len(d) => d[i + 1] = TailOf(d[i].line)
    /\ d[i].part = "tail" => i > 1 /\ d[i - 1] = HeadOf(d[i].line)
    /\ \A j \in 1..i - 1 :
          /\ d[j] # d[i]
          /\ d[j].line.by = d[i].line.by => d[j].line.n <= d[i].line.n

\* A file is whole together with what its logger has yet to push.
ContentsWhole == \A f \in Files : Whole(Contents(f), overtaken)

EndsWith(d, p) == Len(d) > 0 /\ d[Len(d)] = p

\* A line whose head is the last of a file is one whose thread is about to
\* write the tail.
Waiting(d, over) == Len(d) > 0 /\ d[Len(d)].part = "head" /\ d[Len(d)].line \notin over
AtTail(u, x, f) == pc[u] = "tail" /\ line[u] = x /\ logger[at[u]].file = f

PendingAt(f) ==
  Waiting(Contents(f), overtaken) =>
    \E u \in Threads : AtTail(u, Contents(f)[Len(Contents(f))].line, f)

Pending == \A f \in Files : PendingAt(f)

\* The lines of a thread are numbered as it goes: what is written of the line
\* of its call is no more than it has got to.
Past(x) == x.n <= lines[x.by] /\ (InCall(x.by) => x.n < lines[x.by])

PieceNumbered(p) ==
  \/ Past(p.line)
  \/ /\ p.line.n = lines[p.line.by]
     /\ \/ pc[p.line.by] = "tail" /\ p = HeadOf(line[p.line.by])
        \/ pc[p.line.by] \in {"flush", "print"}

Numbered ==
  /\ \A f \in Files : \A i \in DOMAIN Contents(f) : PieceNumbered(Contents(f)[i])
  /\ \A e \in told : /\ e.line \in Line /\ e.file \in Files \cup {NoFile}
                    /\ Past(e.line)
  /\ \A x \in shown : Past(x)

Nowhere(x) == \A f \in Files : \A i \in DOMAIN Contents(f) : Contents(f)[i].line # x

\* How far the line x of t has got at l, whose file is f, if nothing disturbed it.
ReachedIn(t, x, l, f) ==
  /\ pc[t] \in {"lock"} \cup Writing => x.lvl <= logger[l].lvl
  /\ pc[t] \in {"head", "tail", "flush"} => f # NoFile
  /\ pc[t] = "tail" => EndsWith(Contents(f), HeadOf(x))
  /\ pc[t] \in {"flush", "print"} /\ f # NoFile => Holds(Contents(f), x)
  /\ pc[t] = "print" /\ f = NoFile => Nowhere(x)
  /\ pc[t] = "print" /\ x.lvl <= Warning => logger[l].buf = <<>>

Reached(t) ==
  \A x \in {line[t]}, l \in {at[t]} :
    \A f \in {logger[l].file} : ReachedIn(t, x, l, f)

CallsReach ==
  \A t \in Threads : InCall(t) /\ line[t] \notin overtaken => Reached(t)

LogInv ==
  /\ Base
  /\ ContentsWhole
  /\ Up => Pending /\ Numbered /\ CallsReach
  /\ LinesReachTheirFile
  /\ UrgentLinesSurvive
-----------------------------------------------------------------------------
(* The base of the invariant: who is where, and what each logger has.      *)

\* A call in hand of l is that of a thread which l's line is.
LEMMA InHandOf ==
  ASSUME NEW l \in Loggers, NEW t \in Threads, InCall(t), at[t] = l
  PROVE  line[t] \in InHand(l)
BY DEF InHand, InCall

LEMMA LinesType ==
  ASSUME NEW all \in Seq(Piece)
  PROVE  LinesOf(all) \subseteq Line
<1>1. \A i \in DOMAIN all : all[i] \in Piece
  BY ElementOfSeq, LenProperties
<1> QED BY <1>1 DEF LinesOf, Piece

LEMMA InHandType ==
  ASSUME Base, NEW l \in Loggers
  PROVE  InHand(l) \subseteq Line
BY DEF InHand, Base, Calls, InCall

\* What a step of a stream leaves of its logger: its settings and its owner.
SameSettings ==
  \A l \in Loggers : /\ logger'[l].file = logger[l].file
                     /\ logger'[l].owner = logger[l].owner
                     /\ logger'[l].lvl = logger[l].lvl
                     /\ logger'[l].prints = logger[l].prints

LoggerType ==
  [Loggers -> [lvl: Levels, prints: BOOLEAN, bad: BOOLEAN,
               file: Files \cup {NoFile}, buf: Seq(Piece),
               owner: Threads \cup {NoThread}]]

\* The part of the base that the steps of a stream touch.
StreamBase ==
  /\ logger' \in LoggerType /\ disk' \in [Files -> Seq(Piece)]
  /\ SameSettings
  /\ Streams'
  /\ overtaken \subseteq overtaken' /\ overtaken' \subseteq Line
  /\ faults' \in 0..MaxFaults /\ struck' \subseteq Loggers

LEMMA PushBase ==
  ASSUME Base, NEW l \in Loggers, logger[l].file # NoFile,
         NEW all \in Seq(Piece), NEW k \in 0..Len(all), Push(l, all, k),
         UNCHANGED troubles
  PROVE  StreamBase
<1>1. SubSeq(all, k + 1, Len(all)) \in Seq(Piece) /\ SubSeq(all, 1, k) \in Seq(Piece)
  BY SubSeqProperties
<1>2. logger' \in LoggerType /\ SameSettings
  BY <1>1 DEF Base, TypeOK, Push, LoggerType, SameSettings
<1>3. disk' \in [Files -> Seq(Piece)]
  BY <1>1 DEF Base, TypeOK, Push
<1>4. Streams'
  BY DEF Base, TypeOK, Push, Streams, troubles
<1> QED BY <1>2, <1>3, <1>4 DEF Base, TypeOK, StreamBase, troubles

LEMMA FailBase ==
  ASSUME Base, NEW l \in Loggers, logger[l].file # NoFile,
         NEW all \in Seq(Piece), WriteFails(l, all)
  PROVE  StreamBase
<1>1. PICK k \in 0..Len(all) - 1 :
         disk' = [disk EXCEPT ![logger[l].file] = @ \o SubSeq(all, 1, k)]
  BY DEF WriteFails
<1>2. SubSeq(all, 1, k) \in Seq(Piece)
  BY SubSeqProperties
<1>3. logger' \in LoggerType /\ SameSettings
  <2>1. logger' = [logger EXCEPT ![l] = [@ EXCEPT !.buf = <<>>, !.bad = TRUE]]
    BY DEF Base, TypeOK, WriteFails
  <2>2. <<>> \in Seq(Piece)
    OBVIOUS
  <2> QED BY <2>1, <2>2 DEF Base, TypeOK, LoggerType, SameSettings
<1>4. disk' \in [Files -> Seq(Piece)]
  <2>1. logger[l].file \in Files /\ disk[logger[l].file] \in Seq(Piece)
    BY DEF Base, TypeOK
  <2>2. disk[logger[l].file] \o SubSeq(all, 1, k) \in Seq(Piece)
    BY <1>2, <2>1, ConcatProperties
  <2> QED BY <1>1, <2>2 DEF Base, TypeOK
<1>5. Streams'
  BY DEF Base, TypeOK, WriteFails, Streams
<1>6. overtaken \subseteq overtaken' /\ overtaken' \subseteq Line
  BY LinesType, InHandType DEF Base, TypeOK, WriteFails
<1>7. faults' \in 0..MaxFaults /\ struck' \subseteq Loggers
  <2>1. /\ faults < MaxFaults /\ faults' = faults + 1
        /\ struck' = struck \cup {l}
    BY DEF WriteFails
  <2>2. faults \in 0..MaxFaults /\ struck \subseteq Loggers /\ MaxFaults \in Nat
    BY LoggerAssumption DEF Base, TypeOK
  <2> QED BY <2>1, <2>2
<1> QED BY <1>3, <1>4, <1>5, <1>6, <1>7 DEF StreamBase


\* One field of one logger is set.
LEMMA FieldSet ==
  ASSUME logger \in LoggerType, NEW l \in Loggers
  PROVE  /\ \A o \in Threads \cup {NoThread} :
              [logger EXCEPT ![l].owner = o] \in LoggerType
         /\ \A v \in Levels : [logger EXCEPT ![l].lvl = v] \in LoggerType
         /\ \A p \in BOOLEAN : [logger EXCEPT ![l].prints = p] \in LoggerType
         /\ \A b \in BOOLEAN : [logger EXCEPT ![l].bad = b] \in LoggerType
         /\ \A f \in Files, b \in BOOLEAN :
              [logger EXCEPT ![l].file = f, ![l].bad = b] \in LoggerType
BY DEF LoggerType

LEMMA BeginBase ==
  ASSUME Base, NEW t \in Threads, Begin(t)
  PROVE  Base'
<1> USE DEF Base, Begin, threads, settings, troubles
<1>1. PICK v \in Says[t][lines[t] + 1] :
         line' = [line EXCEPT ![t] = [by |-> t, n |-> lines[t] + 1, lvl |-> v]]
  BY DEF Begin
<1>2. v \in Levels /\ lines[t] + 1 \in Nat /\ lines[t] + 1 <= Len(Says[t])
  <2>1. Says[t] \in Seq(SUBSET Levels) /\ lines[t] \in Nat /\ lines[t] < Len(Says[t])
    BY LoggerAssumption DEF TypeOK
  <2>2. lines[t] + 1 \in 1..Len(Says[t])
    BY <2>1, LenProperties
  <2>3. Says[t][lines[t] + 1] \in SUBSET Levels
    BY <2>1, <2>2, ElementOfSeq
  <2> QED BY <2>1, <2>2, <2>3
<1> DEFINE new == [by |-> t, n |-> lines[t] + 1, lvl |-> v]
<1>3. new \in Line /\ new.by = t /\ new.n = lines[t] + 1
  BY <1>2 DEF Line
<1>4. line' = [line EXCEPT ![t] = new]
  BY <1>1
<1>5. /\ overtaken' \subseteq overtaken \cup {new}
      /\ overtaken \subseteq overtaken'
      /\ ask # <<>> /\ ask[1].to = at'[t] => new \in overtaken'
      /\ at' \in [Threads -> Loggers]
      /\ \A u \in Threads \ {t} : at'[u] = at[u]
  <2>1. PICK w \in Says[t][lines[t] + 1] :
          LET x == [by |-> t, n |-> lines[t] + 1, lvl |-> w]
              l == IF t \in LibraryThreads THEN holder ELSE "given"
          IN  /\ line' = [line EXCEPT ![t] = x]
              /\ at' = [at EXCEPT ![t] = l]
              /\ overtaken' = IF ask # <<>> /\ ask[1].to = l
                              THEN overtaken \cup {x} ELSE overtaken
    BY DEF Begin
  <2>2. [by |-> t, n |-> lines[t] + 1, lvl |-> w] = new
    BY <1>4, <2>1 DEF TypeOK
  <2> QED BY <2>1, <2>2 DEF TypeOK, Loggers
<1> HIDE DEF new
<1>6. TypeOK'
  <2>1. line' \in [Threads -> Line \cup {NoLine}] /\ overtaken' \subseteq Line
    BY <1>3, <1>4, <1>5 DEF TypeOK
  <2>2. /\ lines' \in [Threads -> Nat]
        /\ \A u \in Threads : lines'[u] <= Len(Says[u])
    BY <1>2 DEF TypeOK
  <2> QED BY <1>5, <2>1, <2>2 DEF TypeOK
<1>7. Owned'
  BY LoggerAssumption DEF TypeOK, Owned, Writing
<1>8. FilesApart'
  BY LoggerAssumption DEF TypeOK, FilesApart, Ask
<1>9. Streams'
  BY DEF TypeOK, Streams
<1>10. Calls'
  BY <1>3, <1>4, <1>5 DEF TypeOK, Calls, InCall
<1> QED BY <1>6, <1>7, <1>8, <1>9, <1>10

LEMMA CheckLevelBase ==
  ASSUME Base, NEW t \in Threads, CheckLevel(t)
  PROVE  Base'
<1> USE DEF Base, CheckLevel, threads, settings, troubles
<1>1. TypeOK'
  BY LoggerAssumption DEF TypeOK, Loggers, Ask
<1>2. Owned'
  BY LoggerAssumption DEF TypeOK, Owned, Writing
<1>3. FilesApart'
  BY LoggerAssumption DEF TypeOK, FilesApart, Ask
<1>4. Streams'
  BY DEF TypeOK, Streams
<1>5. Calls'
  BY DEF TypeOK, Calls, InCall
<1> QED BY <1>1, <1>2, <1>3, <1>4, <1>5

LEMMA LockBase ==
  ASSUME Base, NEW t \in Threads, Lock(t)
  PROVE  Base'
<1> USE DEF Base, Lock, threads, settings, troubles
<1>1. TypeOK'
  <2>1. logger' \in LoggerType
    <3>1. logger \in LoggerType /\ at[t] \in Loggers
      BY DEF TypeOK, LoggerType
    <3> QED BY <3>1, FieldSet
  <2> QED BY <2>1 DEF TypeOK, LoggerType
<1>2. Owned'
  BY LoggerAssumption DEF TypeOK, Owned, Writing
<1>3. FilesApart'
  <2>1. \A l \in Loggers : logger'[l].file = logger[l].file
    BY DEF TypeOK
  <2> QED BY <2>1 DEF TypeOK, FilesApart
<1>4. Streams'
  BY DEF TypeOK, Streams
<1>5. Calls'
  BY DEF TypeOK, Calls, InCall
<1> QED BY <1>1, <1>2, <1>3, <1>4, <1>5

LEMMA PrintBase ==
  ASSUME Base, NEW t \in Threads, PrintAndReturn(t)
  PROVE  Base'
<1> USE DEF Base, PrintAndReturn, threads, settings, troubles
<1>1. TypeOK'
  <2>1. logger' \in LoggerType
    <3>1. logger \in LoggerType /\ at[t] \in Loggers
      BY DEF TypeOK, LoggerType
    <3> QED BY <3>1, FieldSet
  <2>2. shown' \subseteq Line
    BY DEF TypeOK, Calls, InCall
  <2> QED BY <2>1, <2>2 DEF TypeOK, LoggerType
<1>2. Owned'
  BY LoggerAssumption DEF TypeOK, Owned, Writing
<1>3. FilesApart'
  BY LoggerAssumption DEF TypeOK, FilesApart, Ask
<1>4. Streams'
  BY DEF TypeOK, Streams
<1>5. Calls'
  BY DEF TypeOK, Calls, InCall
<1> QED BY <1>1, <1>2, <1>3, <1>4, <1>5

LEMMA AcceptBase ==
  ASSUME Base, NEW ptr \in {"given", "null"}, AcceptRealLogger(ptr)
  PROVE  Base'
<1> USE DEF Base, AcceptRealLogger, threads, settings, troubles
<1>1. TypeOK'
  BY LoggerAssumption DEF TypeOK, Loggers, Ask
<1>2. Owned'
  BY LoggerAssumption DEF TypeOK, Owned, Writing
<1>3. FilesApart'
  BY LoggerAssumption DEF TypeOK, FilesApart, Ask
<1>4. Streams'
  BY DEF TypeOK, Streams
<1>5. Calls'
  BY DEF TypeOK, Calls, InCall
<1> QED BY <1>1, <1>2, <1>3, <1>4, <1>5

LEMMA SettingsBase ==
  ASSUME Base, NEW a \in Asks, SettingsCall(a)
  PROVE  Base'
<1> USE DEF Base, SettingsCall, FirstStep, InHand, threads, settings, troubles
<1>1. TypeOK'
  <2>1. overtaken' \subseteq Line
    BY InHandType, LoggerAssumption DEF TypeOK, Ask
  <2>2. ask' = <<>> \/ ask' \in Asks \X {"close", "open", "level", "print"}
    BY LoggerAssumption DEF Ask
  <2>3. asked' \in 0..MaxAsks
    BY LoggerAssumption DEF TypeOK
  <2> QED BY <2>1, <2>2, <2>3 DEF TypeOK
<1>2. Owned'
  BY LoggerAssumption DEF TypeOK, Owned, Writing
<1>3. FilesApart'
  BY LoggerAssumption DEF TypeOK, FilesApart, Ask
<1>4. Streams'
  BY DEF TypeOK, Streams
<1>5. Calls'
  BY DEF TypeOK, Calls, InCall
<1> QED BY <1>1, <1>2, <1>3, <1>4, <1>5

LEMMA OpenFileBase ==
  ASSUME Base, OpenFile
  PROVE  Base'
<1> DEFINE l == ask[1].to
           path == ask[1].path
<1>1. /\ ask # <<>> /\ ask[2] = "open"
      /\ ask \in Asks \X {"close", "open", "level", "print"} /\ ask[1] \in Ask
  BY LoggerAssumption DEF Base, TypeOK, OpenFile, AskAt
<1>2. /\ l \in Loggers /\ path \in Files /\ logger[l].file = NoFile
      /\ \A m \in Loggers : logger[m].file = path => m = l
  BY <1>1 DEF Base, FilesApart, Ask
<1>3. /\ \/ logger' = [logger EXCEPT ![l].file = path, ![l].bad = FALSE]
         \/ logger' = [logger EXCEPT ![l].bad = TRUE]
      /\ ask' = <<>> \/ ask' = <<ask[1], "level">>
      /\ struck' = struck \ {l}
      /\ UNCHANGED <<disk, pc, line, at, lines, holder, adopted, asked, faults, process,
                     shown, told, overtaken>>
  BY <1>2 DEF OpenFile, Continue, threads
<1>4. logger \in LoggerType
  BY DEF Base, TypeOK, LoggerType
<1>5. logger' \in LoggerType
  BY <1>2, <1>3, <1>4, FieldSet
<1>6. /\ \A m \in Loggers \ {l} : logger'[m] = logger[m]
      /\ logger'[l].owner = logger[l].owner /\ logger'[l].buf = logger[l].buf
      /\ \/ logger'[l].file = path /\ ~logger'[l].bad
         \/ logger'[l].file = NoFile
  BY <1>2, <1>3, <1>4 DEF LoggerType
<1> HIDE DEF l, path
<1>7. TypeOK'
  <2>1. ask' = <<>> \/ ask' \in Asks \X {"close", "open", "level", "print"}
    BY <1>1, <1>3
  <2> QED BY <1>3, <1>5, <2>1 DEF Base, TypeOK, LoggerType
<1>8. Owned'
  <2>1. \A m \in Loggers : logger'[m].owner = logger[m].owner
    BY <1>6
  <2> QED BY <1>3, <2>1 DEF Base, TypeOK, Owned
<1>9. FilesApart'
  BY <1>2, <1>3, <1>6, LoggerAssumption DEF Base, FilesApart
<1>10. Streams'
  BY <1>2, <1>3, <1>6 DEF Base, Streams
<1>11. Calls'
  BY <1>1, <1>3 DEF Base, Calls, InCall
<1> QED BY <1>7, <1>8, <1>9, <1>10, <1>11 DEF Base

LEMMA SetLevelBase ==
  ASSUME Base, SetLevel
  PROVE  Base'
<1> USE DEF Base, SetLevel, AskAt, Continue, threads, settings, troubles
<1>1. TypeOK'
  <2>1. ask \in Asks \X {"close", "open", "level", "print"} /\ ask[1] \in Ask
    BY LoggerAssumption DEF TypeOK
  <2>2. ask[1].to \in Loggers /\ ask[1].lvl \in Levels /\ ask[1].prints \in BOOLEAN
    BY <2>1 DEF Ask
  <2>3. logger' \in LoggerType
    <3>1. logger \in LoggerType
      BY DEF TypeOK, LoggerType
    <3> QED BY <2>2, <3>1, FieldSet
  <2>4. ask' = <<>> \/ ask' \in Asks \X {"close", "open", "level", "print"}
    BY <2>1
  <2> QED BY <2>3, <2>4 DEF TypeOK, LoggerType
<1>2. Owned'
  BY LoggerAssumption DEF TypeOK, Owned, Writing
<1>3. FilesApart'
  BY LoggerAssumption DEF TypeOK, FilesApart, Ask
<1>4. Streams'
  BY DEF TypeOK, Streams
<1>5. Calls'
  BY DEF TypeOK, Calls, InCall
<1> QED BY <1>1, <1>2, <1>3, <1>4, <1>5

LEMMA SetPrintBase ==
  ASSUME Base, SetPrint
  PROVE  Base'
<1> USE DEF Base, SetPrint, AskAt, threads, settings, troubles
<1>1. TypeOK'
  <2>1. ask \in Asks \X {"close", "open", "level", "print"} /\ ask[1] \in Ask
    BY LoggerAssumption DEF TypeOK
  <2>2. ask[1].to \in Loggers /\ ask[1].lvl \in Levels /\ ask[1].prints \in BOOLEAN
    BY <2>1 DEF Ask
  <2>3. logger' \in LoggerType
    <3>1. logger \in LoggerType
      BY DEF TypeOK, LoggerType
    <3> QED BY <2>2, <3>1, FieldSet
  <2>4. ask' = <<>> \/ ask' \in Asks \X {"close", "open", "level", "print"}
    BY <2>1
  <2> QED BY <2>3, <2>4 DEF TypeOK, LoggerType
<1>2. Owned'
  BY LoggerAssumption DEF TypeOK, Owned, Writing
<1>3. FilesApart'
  BY LoggerAssumption DEF TypeOK, FilesApart, Ask
<1>4. Streams'
  BY DEF TypeOK, Streams
<1>5. Calls'
  BY DEF TypeOK, Calls, InCall
<1> QED BY <1>1, <1>2, <1>3, <1>4, <1>5

-----------------------------------------------------------------------------
(* What a step does to the contents of the files.                          *)

ContentsAre ==
  /\ \A f \in Files : Contents(f) \in Seq(Piece)
  /\ \A l \in Loggers : logger[l].file # NoFile =>
        Contents(logger[l].file) = disk[logger[l].file] \o logger[l].buf
  /\ \A f \in Files : (\A l \in Loggers : logger[l].file # f) => Contents(f) = disk[f]

LEMMA ContentsOf == Base => ContentsAre
<1> SUFFICES ASSUME Base PROVE ContentsAre
  OBVIOUS
<1> DEFINE of(f) == {l \in Loggers : logger[l].file = f}
<1>1. \A f \in Files : disk[f] \in Seq(Piece)
  BY DEF Base, TypeOK
<1>2. \A l \in Loggers : logger[l].buf \in Seq(Piece)
  BY DEF Base, TypeOK
<1>3. ASSUME NEW f \in Files, NEW l \in Loggers, logger[l].file = f
      PROVE  Contents(f) = disk[f] \o logger[l].buf
  <2>1. of(f) = {l}
    BY <1>3, LoggerAssumption DEF Base, FilesApart, LoggerAssumption
  <2> QED BY <2>1 DEF Contents
<1>4. ASSUME NEW f \in Files, \A l \in Loggers : logger[l].file # f
      PROVE  Contents(f) = disk[f]
  <2>1. of(f) = {}
    BY <1>4
  <2>2. Contents(f) = disk[f] \o <<>>
    BY <2>1 DEF Contents
  <2> QED BY <1>1, <2>2, ConcatEmptySeq
<1>5. ASSUME NEW f \in Files PROVE Contents(f) \in Seq(Piece)
  BY <1>1, <1>2, <1>3, <1>4, ConcatProperties
<1>6. \A l \in Loggers : logger[l].file # NoFile => logger[l].file \in Files
  BY DEF Base, TypeOK
<1> QED BY <1>3, <1>4, <1>5, <1>6 DEF ContentsAre

\* The contents of a file after a step, from its logger.
LEMMA ContentsNext ==
  ASSUME Base', NEW l \in Loggers, NEW f \in Files, logger'[l].file = f
  PROVE  Contents(f)' = disk'[f] \o logger'[l].buf
<1>1. ContentsAre'
  BY ContentsOf, PTL
<1>2. logger'[l].file # NoFile
  BY LoggerAssumption
<1>3. (Contents(logger[l].file) = disk[logger[l].file] \o logger[l].buf)'
  BY <1>1, <1>2 DEF ContentsAre
<1> QED BY <1>3

SameContents == \A g \in Files : Contents(g)' = Contents(g)

\* The contents of f become c, those of the other files stay.
Becomes(f, c) ==
  Contents(f)' = c /\ \A g \in Files \ {f} : Contents(g)' = Contents(g)

\* Of the contents c the file f was to have, what is not on the disk may be
\* lost; its lines are overtaken.
CutShort(f, c) ==
  /\ \E n \in Len(disk[f])..Len(c) : Becomes(f, SubSeq(c, 1, n))
  /\ \A i \in Len(disk[f]) + 1..Len(c) : c[i].line \in overtaken'

DiskGrows ==
  \A f \in Files : /\ Len(disk[f]) <= Len(disk'[f])
                   /\ \A i \in 1..Len(disk[f]) : disk'[f][i] = disk[f][i]

LEMMA SameStreams ==
  ASSUME UNCHANGED disk,
         \A l \in Loggers : /\ logger'[l].file = logger[l].file
                            /\ logger'[l].buf = logger[l].buf
  PROVE  SameContents
<1> SUFFICES ASSUME NEW f \in Files PROVE Contents(f)' = Contents(f)
  BY DEF SameContents
<1> DEFINE of == {l \in Loggers : logger[l].file = f}
           ofNext == {l \in Loggers : logger'[l].file = f}
<1>1. of = ofNext
  OBVIOUS
<1>2. CASE of = {}
  BY <1>1, <1>2 DEF Contents
<1>3. CASE of # {}
  <2>1. (CHOOSE l \in of : TRUE) \in Loggers
    BY <1>3
  <2> QED BY <1>1, <1>3, <2>1 DEF Contents
<1> QED BY <1>2, <1>3

\* A step of a stream leaves the files of the others alone.
LEMMA OthersSame ==
  ASSUME Base, Base', NEW l \in Loggers, NEW g \in Files, disk'[g] = disk[g],
         logger[l].file # g, logger'[l].file # g,
         \A m \in Loggers \ {l} : logger'[m] = logger[m]
  PROVE  Contents(g)' = Contents(g)
<1> DEFINE of == {m \in Loggers : logger[m].file = g}
           ofNext == {m \in Loggers : logger'[m].file = g}
<1>1. of = ofNext /\ l \notin of
  OBVIOUS
<1>2. CASE of = {}
  BY <1>1, <1>2 DEF Contents
<1>3. CASE of # {}
  <2>1. PICK m \in Loggers \ {l} : logger[m].file = g
    BY <1>1, <1>3
  <2>2. logger'[m] = logger[m]
    BY <2>1
  <2>3. Contents(g) = disk[g] \o logger[m].buf
    <3>1. ContentsAre
      BY ContentsOf
    <3> QED BY <2>1, <3>1, LoggerAssumption DEF ContentsAre, LoggerAssumption
  <2>4. Contents(g)' = disk'[g] \o logger'[m].buf
    <3>1. logger'[m].file = g
      BY <2>1, <2>2
    <3> QED BY <3>1, ContentsNext
  <2> QED BY <2>2, <2>3, <2>4
<1> QED BY <1>2, <1>3

LEMMA Associative ==
  \A a, b, c \in Seq(Piece) : (a \o b) \o c = a \o (b \o c)
BY ConcatAssociative

\* Pieces written after those of the disk, of which k go to it.
LEMMA Pushed ==
  ASSUME NEW d \in Seq(Piece), NEW all \in Seq(Piece), NEW k \in 0..Len(all)
  PROVE  /\ d \o SubSeq(all, 1, k) = SubSeq(d \o all, 1, Len(d) + k)
         /\ (d \o SubSeq(all, 1, k)) \o SubSeq(all, k + 1, Len(all)) = d \o all
         /\ d \o SubSeq(all, 1, k) \in Seq(Piece)
         /\ Len(d) <= Len(d \o SubSeq(all, 1, k))
         /\ \A i \in 1..Len(d) : (d \o SubSeq(all, 1, k))[i] = d[i]
         /\ Len(d) + k \in Len(d)..Len(d \o all)
<1> DEFINE first == SubSeq(all, 1, k)
           rest == SubSeq(all, k + 1, Len(all))
<1>1. /\ first \in Seq(Piece) /\ Len(first) = k
      /\ \A i \in 1..k : first[i] = all[i]
  BY SubSeqProperties, ElementOfSeq
<1>2. rest \in Seq(Piece) /\ first \o rest = all
  <2>1. rest \in Seq(Piece)
    BY SubSeqProperties, ElementOfSeq
  <2>2. /\ 1 \in 1..Len(all) + 1 /\ k \in 1 - 1..Len(all)
        /\ Len(all) \in k..Len(all)
    BY LenProperties
  <2>3. first \o rest = SubSeq(all, 1, Len(all))
    BY <2>2, ConcatAdjacentSubSeq
  <2> QED BY <2>1, <2>3, SubSeqFull
<1> HIDE DEF first, rest
<1>3. d \o first \in Seq(Piece) /\ Len(d \o first) = Len(d) + k
      /\ \A i \in 1..Len(d) + k : (d \o first)[i] = IF i <= Len(d) THEN d[i]
                                                    ELSE all[i - Len(d)]
  BY <1>1, ConcatProperties, LenProperties
<1>4. d \o all \in Seq(Piece) /\ Len(d \o all) = Len(d) + Len(all)
      /\ \A i \in 1..Len(d) + Len(all) :
            (d \o all)[i] = IF i <= Len(d) THEN d[i] ELSE all[i - Len(d)]
  BY ConcatProperties, LenProperties
<1>5. (d \o first) \o rest = d \o all
  <2>0. first \in Seq(Piece) /\ rest \in Seq(Piece)
    BY <1>1, <1>2
  <2>1. (d \o first) \o rest = d \o (first \o rest)
    BY <2>0, Associative
  <2> QED BY <1>2, <2>1
<1> DEFINE cut == SubSeq(d \o all, 1, Len(d) + k)
<1>6. cut \in Seq(Piece) /\ Len(cut) = Len(d) + k
      /\ \A i \in 1..Len(d) + k : cut[i] = (d \o all)[i]
  <2>1. Len(d) + k \in Nat /\ Len(d) + k <= Len(d \o all)
    BY <1>4, LenProperties
  <2>2. \A i \in 1..Len(d) + k : (d \o all)[i] \in Piece
    BY <1>4, <2>1, ElementOfSeq
  <2> QED BY <2>1, <2>2, SubSeqProperties
<1> HIDE DEF cut
<1>7. cut = d \o first
  <2>1. \A i \in 1..Len(d) + k : cut[i] = (d \o first)[i]
    <3>1. Len(all) \in Nat /\ Len(d) \in Nat
      BY LenProperties
    <3>2. k \in Nat /\ k <= Len(all)
      BY <3>1
    <3> SUFFICES ASSUME NEW i \in 1..Len(d) + k PROVE cut[i] = (d \o first)[i]
      OBVIOUS
    <3>3. i \in 1..Len(d) + Len(all)
      BY <3>1, <3>2
    <3>4. (d \o all)[i] = IF i <= Len(d) THEN d[i] ELSE all[i - Len(d)]
      BY <1>4, <3>3
    <3>5. (d \o first)[i] = IF i <= Len(d) THEN d[i] ELSE all[i - Len(d)]
      BY <1>3
    <3> QED BY <1>6, <3>4, <3>5
  <2> QED BY <1>3, <1>6, <2>1, SeqEqual
<1>8. Len(d) + k \in Len(d)..Len(d \o all) /\ Len(d) <= Len(d \o first)
  BY <1>3, <1>4, LenProperties
<1>9. \A i \in 1..Len(d) : (d \o first)[i] = d[i]
  BY <1>3, LenProperties
<1> QED BY <1>3, <1>5, <1>7, <1>8, <1>9 DEF cut, first, rest

\* Some of what l holds goes to its file, nothing is lost.
LEMMA PushEffect ==
  ASSUME Base, Base', NEW l \in Loggers, NEW f \in Files, logger[l].file = f,
         NEW all \in Seq(Piece), NEW k \in 0..Len(all), Push(l, all, k)
  PROVE  /\ Becomes(f, disk[f] \o all)
         /\ DiskGrows
         /\ \A m \in Loggers \ {l} : logger'[m] = logger[m]
         /\ k = Len(all) => logger'[l].buf = <<>>
<1>1. disk[f] \in Seq(Piece) /\ disk \in [Files -> Seq(Piece)] /\ f # NoFile
  BY LoggerAssumption DEF Base, TypeOK
<1>2. /\ logger'[l].file = f /\ logger'[l].buf = SubSeq(all, k + 1, Len(all))
      /\ \A m \in Loggers \ {l} : logger'[m] = logger[m]
  BY DEF Base, TypeOK, Push
<1>3. /\ disk'[f] = disk[f] \o SubSeq(all, 1, k)
      /\ \A g \in Files \ {f} : disk'[g] = disk[g]
  BY <1>1 DEF Push
<1>4. Contents(f)' = disk[f] \o all
  <2>1. Contents(f)' = disk'[f] \o logger'[l].buf
    BY <1>1, <1>2, ContentsNext
  <2>2. (disk[f] \o SubSeq(all, 1, k)) \o SubSeq(all, k + 1, Len(all))
          = disk[f] \o all
    BY <1>1, Pushed
  <2> QED BY <1>2, <1>3, <2>1, <2>2
<1>5. ASSUME NEW g \in Files \ {f} PROVE Contents(g)' = Contents(g)
  BY <1>2, <1>3, OthersSame
<1>6. DiskGrows
  <2>1. /\ Len(disk[f]) <= Len(disk'[f])
        /\ \A i \in 1..Len(disk[f]) : disk'[f][i] = disk[f][i]
    BY <1>1, <1>3, Pushed
  <2>2. ASSUME NEW g \in Files PROVE Len(disk[g]) \in Nat
    <3>1. disk[g] \in Seq(Piece)
      BY <1>1
    <3> QED BY <3>1, LenProperties
  <2>3. \A g \in Files \ {f} :
          /\ Len(disk[g]) <= Len(disk'[g])
          /\ \A i \in 1..Len(disk[g]) : disk'[g][i] = disk[g][i]
    BY <1>3, <2>2
  <2> QED BY <2>1, <2>3 DEF DiskGrows
<1>7. k = Len(all) => logger'[l].buf = <<>>
  <2>1. Len(all) \in Nat
    BY LenProperties
  <2> QED BY <1>2, <2>1, SubSeqEmpty
<1> QED BY <1>2, <1>4, <1>5, <1>6, <1>7 DEF Becomes

\* What a file loses is of lines that are overtaken.
LEMMA LostOvertaken ==
  ASSUME NEW d \in Seq(Piece), NEW all \in Seq(Piece), LinesOf(all) \subseteq overtaken'
  PROVE  \A i \in Len(d) + 1..Len(d \o all) : (d \o all)[i].line \in overtaken'
<1>1. Len(d) \in Nat /\ Len(all) \in Nat
  BY LenProperties
<1>2. /\ Len(d \o all) = Len(d) + Len(all)
      /\ \A i \in 1..Len(d) + Len(all) :
            (d \o all)[i] = IF i <= Len(d) THEN d[i] ELSE all[i - Len(d)]
  BY ConcatProperties
<1> SUFFICES ASSUME NEW i \in Len(d) + 1..Len(d \o all)
             PROVE  (d \o all)[i].line \in overtaken'
  OBVIOUS
<1>3. i - Len(d) \in 1..Len(all) /\ (d \o all)[i] = all[i - Len(d)]
  BY <1>1, <1>2
<1>4. all[i - Len(d)].line \in LinesOf(all)
  BY <1>3, LenProperties DEF LinesOf
<1> QED BY <1>3, <1>4

\* A write that fails cuts the contents of its file short.
LEMMA FailEffect ==
  ASSUME Base, Base', NEW l \in Loggers, NEW f \in Files, logger[l].file = f,
         NEW all \in Seq(Piece), WriteFails(l, all)
  PROVE  /\ CutShort(f, disk[f] \o all)
         /\ DiskGrows
         /\ \A m \in Loggers \ {l} : logger'[m] = logger[m]
         /\ logger'[l].buf = <<>>
         /\ overtaken \cup InHand(l) \subseteq overtaken'
<1>1. disk[f] \in Seq(Piece) /\ disk \in [Files -> Seq(Piece)] /\ Len(all) \in Nat
  BY LenProperties DEF Base, TypeOK
<1>2. /\ logger'[l].file = f /\ logger'[l].buf = <<>>
      /\ \A m \in Loggers \ {l} : logger'[m] = logger[m]
  BY DEF Base, TypeOK, WriteFails
<1>3. overtaken' = overtaken \cup LinesOf(all) \cup InHand(l)
  BY DEF WriteFails
<1>4. PICK k \in 0..Len(all) - 1 : disk' = [disk EXCEPT ![f] = @ \o SubSeq(all, 1, k)]
  BY DEF WriteFails
<1>5. k \in 0..Len(all)
  BY <1>1
<1>6. /\ disk'[f] = disk[f] \o SubSeq(all, 1, k)
      /\ \A g \in Files \ {f} : disk'[g] = disk[g]
  BY <1>1, <1>4
<1>7. /\ disk'[f] = SubSeq(disk[f] \o all, 1, Len(disk[f]) + k)
      /\ disk'[f] \in Seq(Piece)
      /\ Len(disk[f]) + k \in Len(disk[f])..Len(disk[f] \o all)
      /\ Len(disk[f]) <= Len(disk'[f])
      /\ \A i \in 1..Len(disk[f]) : disk'[f][i] = disk[f][i]
  BY <1>1, <1>5, <1>6, Pushed
<1>8. Contents(f)' = disk'[f]
  <2>1. Contents(f)' = disk'[f] \o <<>>
    BY <1>2, ContentsNext
  <2> QED BY <1>7, <2>1, ConcatEmptySeq
<1>9. ASSUME NEW g \in Files \ {f} PROVE Contents(g)' = Contents(g)
  BY <1>2, <1>6, OthersSame
<1>10. DiskGrows
  <2>1. ASSUME NEW g \in Files PROVE Len(disk[g]) \in Nat
    <3>1. disk[g] \in Seq(Piece)
      BY <1>1
    <3> QED BY <3>1, LenProperties
  <2>2. \A g \in Files \ {f} :
          /\ Len(disk[g]) <= Len(disk'[g])
          /\ \A i \in 1..Len(disk[g]) : disk'[g][i] = disk[g][i]
    BY <1>6, <2>1
  <2> QED BY <1>7, <2>2 DEF DiskGrows
<1>11. CutShort(f, disk[f] \o all)
  <2>1. Becomes(f, SubSeq(disk[f] \o all, 1, Len(disk[f]) + k))
    BY <1>7, <1>8, <1>9 DEF Becomes
  <2>2. \A i \in Len(disk[f]) + 1..Len(disk[f] \o all) :
           (disk[f] \o all)[i].line \in overtaken'
    BY <1>1, <1>3, LostOvertaken
  <2> QED BY <1>7, <2>1, <2>2 DEF CutShort
<1> QED BY <1>2, <1>3, <1>10, <1>11

LEMMA AppendBehind ==
  \A d, b \in Seq(Piece), p \in Piece : d \o Append(b, p) = Append(d \o b, p)
<1> SUFFICES ASSUME NEW d \in Seq(Piece), NEW b \in Seq(Piece), NEW p \in Piece
             PROVE  d \o Append(b, p) = Append(d \o b, p)
  OBVIOUS
<1>1. <<p>> \in Seq(Piece) /\ d \o b \in Seq(Piece)
  BY ConcatProperties
<1>2. d \o Append(b, p) = d \o (b \o <<p>>)
  BY AppendIsConcat
<1>3. d \o (b \o <<p>>) = (d \o b) \o <<p>>
  BY <1>1, Associative
<1> QED BY <1>1, <1>2, <1>3, AppendIsConcat

\* A step of t that writes p: the stream drops it, takes it or fails.
Dropped(t) ==
  /\ SameContents /\ UNCHANGED <<logger, disk, struck>>
  /\ logger[at[t]].file = NoFile \/ line[t] \in overtaken'
Taken(t, f, p) ==
  /\ Becomes(f, Append(Contents(f), p)) /\ UNCHANGED <<overtaken, struck>>
Failed(t, f, c) ==
  /\ CutShort(f, c) /\ InHand(at[t]) \subseteq overtaken'
  /\ logger'[at[t]].buf = <<>>

PieceOf(t, part) == [line |-> line[t], part |-> part]

LEMMA PutEffect ==
  ASSUME Base, NEW t \in Threads, NEW part \in Parts, InCall(t), Put(t, part)
  PROVE  /\ StreamBase
         /\ Base' =>
              /\ DiskGrows
              /\ \A m \in Loggers \ {at[t]} : logger'[m] = logger[m]
              /\ \/ Dropped(t)
                 \/ \E f \in Files :
                      /\ logger[at[t]].file = f
                      /\ \/ Taken(t, f, PieceOf(t, part))
                         \/ Failed(t, f, Append(Contents(f), PieceOf(t, part)))
<1> DEFINE l == at[t]
           p == PieceOf(t, part)
           all == Append(logger[l].buf, p)
<1>1. /\ l \in Loggers /\ p \in Piece /\ logger[l].buf \in Seq(Piece)
      /\ line[t] \in Line /\ logger[l].file \in Files \cup {NoFile}
      /\ disk \in [Files -> Seq(Piece)]
  BY DEF Base, TypeOK, Calls, PieceOf, Piece
<1>2. all \in Seq(Piece) /\ Len(all) \in Nat
  BY <1>1, AppendProperties, LenProperties
<1>3. \/ /\ logger[l].bad \/ logger[l].file = NoFile
         /\ overtaken' = IF l \in struck THEN overtaken \cup {line[t]} ELSE overtaken
         /\ UNCHANGED <<logger, disk, faults, struck>>
      \/ /\ logger[l].file # NoFile
         /\ \/ /\ \E k \in {0, Len(all)} : Push(l, all, k)
               /\ UNCHANGED troubles
            \/ WriteFails(l, all)
  BY DEF Put, PieceOf
<1> HIDE DEF all, p, l
<1>4. ASSUME logger[l].file # NoFile
      PROVE  /\ logger[l].file \in Files
             /\ disk[logger[l].file] \o all = Append(Contents(logger[l].file), p)
  <2>1. logger[l].file \in Files
    BY <1>1, <1>4
  <2>2. Contents(logger[l].file) = disk[logger[l].file] \o logger[l].buf
    BY <1>1, <1>4, ContentsOf DEF ContentsAre
  <2>3. disk[logger[l].file] \in Seq(Piece)
    BY <1>1, <2>1
  <2>4. disk[logger[l].file] \o Append(logger[l].buf, p)
          = Append(disk[logger[l].file] \o logger[l].buf, p)
    BY <1>1, <2>3, AppendBehind
  <2> QED BY <2>1, <2>2, <2>4 DEF all
<1>5. CASE /\ logger[l].bad \/ logger[l].file = NoFile
           /\ overtaken' = IF l \in struck THEN overtaken \cup {line[t]} ELSE overtaken
           /\ UNCHANGED <<logger, disk, faults, struck>>
  <2>1. logger[l].file # NoFile => line[t] \in overtaken'
    BY <1>1, <1>5 DEF Base, Streams
  <2>2. SameContents
    BY <1>5, SameStreams
  <2>3. StreamBase
    BY <1>1, <1>5 DEF Base, TypeOK, Streams, StreamBase, SameSettings, LoggerType
  <2>4. DiskGrows
    BY <1>1, <1>5, LenProperties DEF DiskGrows
  <2> QED BY <1>5, <2>1, <2>2, <2>3, <2>4 DEF Dropped, l
<1>6. CASE /\ logger[l].file # NoFile
           /\ \E k \in {0, Len(all)} : Push(l, all, k)
           /\ UNCHANGED troubles
  <2>1. PICK k \in {0, Len(all)} : Push(l, all, k)
    BY <1>6
  <2>2. k \in 0..Len(all)
    BY <1>2
  <2>3. PICK f \in Files : logger[l].file = f /\ disk[f] \o all = Append(Contents(f), p)
    BY <1>4, <1>6
  <2>4. StreamBase
    BY <1>1, <1>2, <1>6, <2>1, <2>2, PushBase
  <2>5. Base' => /\ Becomes(f, disk[f] \o all) /\ DiskGrows
                 /\ \A m \in Loggers \ {l} : logger'[m] = logger[m]
    BY <1>1, <1>2, <2>1, <2>2, <2>3, PushEffect
  <2> QED BY <1>6, <2>3, <2>4, <2>5 DEF Taken, troubles, l, p
<1>7. CASE logger[l].file # NoFile /\ WriteFails(l, all)
  <2>1. PICK f \in Files : logger[l].file = f /\ disk[f] \o all = Append(Contents(f), p)
    BY <1>4, <1>7
  <2>2. StreamBase
    BY <1>1, <1>2, <1>7, FailBase
  <2>3. Base' => /\ CutShort(f, disk[f] \o all) /\ InHand(l) \subseteq overtaken'
                 /\ logger'[l].buf = <<>> /\ DiskGrows
                 /\ \A m \in Loggers \ {l} : logger'[m] = logger[m]
    BY <1>1, <1>2, <1>7, <2>1, FailEffect
  <2> QED BY <2>1, <2>2, <2>3 DEF Failed, l, p
<1> QED BY <1>3, <1>5, <1>6, <1>7

LEMMA FlushEffect ==
  ASSUME Base, NEW t \in Threads, Flush(t)
  PROVE  /\ StreamBase
         /\ Base' =>
              /\ DiskGrows
              /\ \A m \in Loggers \ {at[t]} : logger'[m] = logger[m]
              /\ \/ SameContents /\ UNCHANGED <<overtaken, struck>>
                 \/ \E f \in Files : /\ logger[at[t]].file = f
                                     /\ Failed(t, f, Contents(f))
              /\ logger'[at[t]].buf = <<>>
<1> DEFINE l == at[t]
           all == logger[l].buf
<1>1. l \in Loggers /\ all \in Seq(Piece) /\ logger[l].file \in Files \cup {NoFile}
  BY DEF Base, TypeOK
<1>2. Len(all) \in Nat /\ disk \in [Files -> Seq(Piece)]
  BY <1>1, LenProperties DEF Base, TypeOK
<1>3. \/ /\ logger[l].file = NoFile \/ all = <<>>
         /\ UNCHANGED <<logger, disk, troubles>>
      \/ /\ logger[l].file # NoFile
         /\ \/ Push(l, all, Len(all)) /\ UNCHANGED troubles
            \/ WriteFails(l, all)
  BY DEF Flush
<1> HIDE DEF all, l
<1>4. ASSUME logger[l].file # NoFile
      PROVE  \E f \in Files : logger[l].file = f /\ disk[f] \o all = Contents(f)
  <2>1. logger[l].file \in Files
    BY <1>1, <1>4
  <2>2. Contents(logger[l].file) = disk[logger[l].file] \o logger[l].buf
    BY <1>1, <1>4, ContentsOf DEF ContentsAre
  <2> QED BY <2>1, <2>2 DEF all
<1>5. CASE /\ logger[l].file = NoFile \/ all = <<>>
           /\ UNCHANGED <<logger, disk, troubles>>
  <2>1. SameContents
    BY <1>5, SameStreams
  <2>2. StreamBase
    BY <1>1, <1>5 DEF Base, TypeOK, Streams, StreamBase, SameSettings, LoggerType, troubles
  <2>3. DiskGrows
    BY <1>2, <1>5, LenProperties DEF DiskGrows
  <2>4. logger'[l].buf = <<>>
    BY <1>1, <1>5 DEF Base, Streams, all
  <2> QED BY <1>5, <2>1, <2>2, <2>3, <2>4 DEF l, troubles
<1>6. CASE /\ logger[l].file # NoFile
           /\ Push(l, all, Len(all)) /\ UNCHANGED troubles
  <2>1. PICK f \in Files : logger[l].file = f /\ disk[f] \o all = Contents(f)
    BY <1>4, <1>6
  <2>2. Len(all) \in 0..Len(all)
    BY <1>2
  <2>3. StreamBase
    BY <1>1, <1>6, <2>2, PushBase
  <2>4. Base' => /\ Becomes(f, disk[f] \o all) /\ DiskGrows
                 /\ \A m \in Loggers \ {l} : logger'[m] = logger[m]
                 /\ logger'[l].buf = <<>>
    BY <1>1, <1>6, <2>1, <2>2, PushEffect
  <2>5. Base' => SameContents
    BY <2>1, <2>4 DEF Becomes, SameContents
  <2> QED BY <1>6, <2>3, <2>4, <2>5 DEF l, troubles
<1>7. CASE logger[l].file # NoFile /\ WriteFails(l, all)
  <2>1. PICK f \in Files : logger[l].file = f /\ disk[f] \o all = Contents(f)
    BY <1>4, <1>7
  <2>2. StreamBase
    BY <1>1, <1>7, FailBase
  <2>3. Base' => /\ CutShort(f, disk[f] \o all) /\ InHand(l) \subseteq overtaken'
                 /\ logger'[l].buf = <<>> /\ DiskGrows
                 /\ \A m \in Loggers \ {l} : logger'[m] = logger[m]
    BY <1>1, <1>7, <2>1, FailEffect
  <2> QED BY <2>1, <2>2, <2>3 DEF Failed, l
<1> QED BY <1>3, <1>5, <1>6, <1>7

\* The base after a step of t at its stream.
LEMMA StreamStepBase ==
  ASSUME Base, NEW t \in Threads, StreamBase, pc[t] \in {"head", "tail", "flush"},
         NEW next \in {"tail", "flush", "print"}, pc' = [pc EXCEPT ![t] = next],
         UNCHANGED <<line, at, lines, settings, process, shown, told>>
  PROVE  Base'
<1> USE DEF StreamBase, settings
<1>1. TypeOK'
  BY DEF Base, TypeOK, LoggerType
<1>2. Owned'
  BY DEF Base, TypeOK, Owned, SameSettings, Writing
<1>3. FilesApart'
  <2>1. ask' = ask /\ \A l \in Loggers : logger'[l].file = logger[l].file
    BY DEF SameSettings
  <2>2. ask # <<>> => ask[1].to \in Loggers
    BY LoggerAssumption DEF Base, TypeOK, Ask
  <2> QED BY <2>1, <2>2 DEF Base, FilesApart
<1>4. Calls'
  BY DEF Base, TypeOK, Calls, InCall
<1> QED BY <1>1, <1>2, <1>3, <1>4 DEF Base

\* The file of a logger is closed.
LEMMA CloseFileBase ==
  ASSUME Base, CloseFile
  PROVE  Base'
<1> DEFINE l == ask[1].to
           all == logger[l].buf
<1>1. /\ ask # <<>> /\ ask[2] = "close" /\ ask' = <<ask[1], "open">>
      /\ ask \in Asks \X {"close", "open", "level", "print"} /\ ask[1] \in Ask
  BY LoggerAssumption DEF Base, TypeOK, CloseFile, AskAt
<1>2. /\ l \in Loggers /\ all \in Seq(Piece) /\ logger[l].file \in Files \cup {NoFile}
      /\ logger \in LoggerType
  BY <1>1 DEF Base, TypeOK, Ask, LoggerType
<1>3. /\ logger' = [logger EXCEPT ![l].file = NoFile, ![l].buf = <<>>]
      /\ UNCHANGED <<pc, line, at, lines, holder, adopted, asked, process, shown, told,
                     struck>>
  BY DEF CloseFile, threads
<1>4. /\ logger' \in LoggerType
      /\ logger'[l].file = NoFile /\ logger'[l].buf = <<>>
      /\ logger'[l].owner = logger[l].owner
      /\ \A m \in Loggers \ {l} : logger'[m] = logger[m]
  <2>1. <<>> \in Seq(Piece)
    OBVIOUS
  <2> QED BY <1>2, <1>3, <2>1 DEF LoggerType
<1>5. /\ disk' \in [Files -> Seq(Piece)]
      /\ overtaken \subseteq overtaken' /\ overtaken' \subseteq Line
      /\ faults' \in 0..MaxFaults
  <2>1. \/ UNCHANGED <<disk, overtaken>>
        \/ /\ logger[l].file # NoFile
           /\ disk' = [disk EXCEPT ![logger[l].file] = @ \o all]
           /\ UNCHANGED overtaken
        \/ /\ logger[l].file # NoFile
           /\ \E k \in 0..Len(all) : disk' =
                [disk EXCEPT ![logger[l].file] = @ \o SubSeq(all, 1, k)]
           /\ overtaken' = overtaken \cup LinesOf(all) \cup InHand(l)
    BY DEF CloseFile
  <2>2. /\ disk \in [Files -> Seq(Piece)] /\ overtaken \subseteq Line
        /\ faults \in 0..MaxFaults /\ MaxFaults \in Nat
    BY LoggerAssumption DEF Base, TypeOK
  <2>3. LinesOf(all) \subseteq Line /\ InHand(l) \subseteq Line
    BY <1>2, LinesType, InHandType
  <2>4. \A k \in 0..Len(all) : SubSeq(all, 1, k) \in Seq(Piece)
    BY <1>2, SubSeqProperties, ElementOfSeq
  <2>5. \A f \in Files, b \in Seq(Piece) : disk[f] \o b \in Seq(Piece)
    BY <2>2, ConcatProperties
  <2> HIDE DEF all, l
  <2>6. disk' \in [Files -> Seq(Piece)]
    BY <1>2, <2>1, <2>2, <2>4, <2>5
  <2>7. overtaken \subseteq overtaken' /\ overtaken' \subseteq Line
    BY <2>1, <2>2, <2>3
  <2>8. faults' \in 0..MaxFaults
    <3>1. \/ faults' = faults
          \/ faults < MaxFaults /\ faults' = faults + 1
      BY Zenon DEF CloseFile
    <3> QED BY <2>2, <3>1
  <2> QED BY <2>6, <2>7, <2>8
<1> HIDE DEF l, all
<1>6. TypeOK'
  BY <1>1, <1>3, <1>4, <1>5 DEF Base, TypeOK, LoggerType
<1>7. Owned'
  <2>1. \A m \in Loggers : logger'[m].owner = logger[m].owner
    BY <1>4
  <2> QED BY <1>3, <2>1 DEF Base, TypeOK, Owned
<1>8. FilesApart'
  <2>1. ask'[1] = ask[1] /\ ask[1].path \in Files
    BY <1>1 DEF Base, FilesApart
  <2>2. ASSUME NEW m \in Loggers, logger'[m].file = ask[1].path PROVE m = l
    BY <1>1, <1>4, <2>1, <2>2 DEF Base, FilesApart, l
  <2>3. \A m, q \in Loggers :
           m # q /\ logger'[m].file # NoFile => logger'[m].file # logger'[q].file
    BY <1>4 DEF Base, FilesApart
  <2> QED BY <1>1, <1>4, <2>1, <2>2, <2>3 DEF FilesApart, l
<1>9. Streams'
  BY <1>3, <1>4 DEF Base, Streams
<1>10. Calls'
  BY <1>1, <1>3, <1>5 DEF Base, Calls, InCall
<1> QED BY <1>6, <1>7, <1>8, <1>9, <1>10 DEF Base

LEMMA CloseFileEffect ==
  ASSUME Base, CloseFile
  PROVE  /\ DiskGrows
         /\ \/ SameContents /\ UNCHANGED overtaken
            \/ \E f \in Files : /\ logger[ask[1].to].file = f
                                /\ CutShort(f, Contents(f))
                                /\ overtaken \cup InHand(ask[1].to) \subseteq overtaken'
<1> DEFINE l == ask[1].to
           all == logger[l].buf
<1>1. /\ ask # <<>> /\ ask[1] \in Ask
  BY LoggerAssumption DEF Base, TypeOK, CloseFile, AskAt
<1>2. /\ l \in Loggers /\ all \in Seq(Piece) /\ logger[l].file \in Files \cup {NoFile}
      /\ Len(all) \in Nat
  BY <1>1, LenProperties DEF Base, TypeOK, Ask
<1>3. Base' /\ ContentsAre'
  BY CloseFileBase, ContentsOf, PTL
<1>4. /\ logger'[l].file = NoFile /\ logger'[l].buf = <<>>
      /\ \A m \in Loggers \ {l} : logger'[m] = logger[m]
  BY <1>2 DEF CloseFile, Base, TypeOK
<1>5. disk \in [Files -> Seq(Piece)] /\ \A g \in Files : Len(disk[g]) \in Nat
  <2>1. disk \in [Files -> Seq(Piece)]
    BY DEF Base, TypeOK
  <2>2. ASSUME NEW g \in Files PROVE Len(disk[g]) \in Nat
    <3>1. disk[g] \in Seq(Piece)
      BY <2>1
    <3> QED BY <3>1, LenProperties
  <2> QED BY <2>1, <2>2
<1>6. CASE logger[l].file = NoFile
  <2>1. UNCHANGED <<disk, overtaken>>
    BY <1>6 DEF CloseFile
  <2>2. all = <<>>
    BY <1>2, <1>6 DEF Base, Streams
  <2>3. SameContents
    BY <1>4, <1>6, <2>1, <2>2, SameStreams
  <2> QED BY <1>5, <2>1, <2>3 DEF DiskGrows
<1>7. ASSUME NEW f \in Files, logger[l].file = f, NEW k \in 0..Len(all),
             disk' = [disk EXCEPT ![f] = @ \o SubSeq(all, 1, k)]
      PROVE  /\ DiskGrows
             /\ Becomes(f, SubSeq(Contents(f), 1, Len(disk[f]) + k))
             /\ Contents(f) = disk[f] \o all
             /\ Len(disk[f]) + k \in Len(disk[f])..Len(Contents(f))
  <2>1. f # NoFile /\ disk[f] \in Seq(Piece)
    BY <1>5, LoggerAssumption
  <2>2. Contents(f) = disk[f] \o all
    BY <1>2, <1>7, <2>1, ContentsOf DEF ContentsAre
  <2> HIDE DEF all
  <2>3. /\ disk'[f] = disk[f] \o SubSeq(all, 1, k)
        /\ \A g \in Files \ {f} : disk'[g] = disk[g]
    BY <1>5, <1>7
  <2>4. /\ disk'[f] = SubSeq(disk[f] \o all, 1, Len(disk[f]) + k)
        /\ Len(disk[f]) + k \in Len(disk[f])..Len(disk[f] \o all)
        /\ Len(disk[f]) <= Len(disk'[f])
        /\ \A i \in 1..Len(disk[f]) : disk'[f][i] = disk[f][i]
    <3>1. all \in Seq(Piece) /\ k \in 0..Len(all)
      BY <1>2, <1>7
    <3>2. /\ disk[f] \o SubSeq(all, 1, k) = SubSeq(disk[f] \o all, 1, Len(disk[f]) + k)
          /\ Len(disk[f]) + k \in Len(disk[f])..Len(disk[f] \o all)
          /\ Len(disk[f]) <= Len(disk[f] \o SubSeq(all, 1, k))
          /\ \A i \in 1..Len(disk[f]) : (disk[f] \o SubSeq(all, 1, k))[i] = disk[f][i]
      BY <2>1, <3>1, Pushed
    <3> QED BY <2>3, <3>2
  <2>5. DiskGrows
    <3>1. \A g \in Files \ {f} :
            /\ Len(disk[g]) <= Len(disk'[g])
            /\ \A i \in 1..Len(disk[g]) : disk'[g][i] = disk[g][i]
      BY <1>5, <2>3
    <3> QED BY <2>4, <3>1 DEF DiskGrows
  <2>6. Contents(f)' = disk'[f]
    <3>1. \A m \in Loggers : logger'[m].file # f
      BY <1>2, <1>4, <1>7, <2>1 DEF Base, FilesApart
    <3> QED BY <1>3, <3>1 DEF ContentsAre
  <2>7. ASSUME NEW g \in Files \ {f} PROVE Contents(g)' = Contents(g)
    <3>1. logger[l].file # g /\ logger'[l].file # g /\ disk'[g] = disk[g]
      BY <1>4, <1>7, <2>3, LoggerAssumption
    <3> QED BY <1>2, <1>3, <1>4, <3>1, OthersSame
  <2> QED BY <2>2, <2>4, <2>5, <2>6, <2>7 DEF Becomes
<1>8. CASE /\ logger[l].file # NoFile
           /\ disk' = [disk EXCEPT ![logger[l].file] = @ \o all]
           /\ UNCHANGED <<overtaken, faults>>
  <2>1. PICK f \in Files : logger[l].file = f
    BY <1>2, <1>8
  <2>2. SubSeq(all, 1, Len(all)) = all /\ Len(all) \in 0..Len(all)
    BY <1>2, SubSeqFull
  <2>3. disk' = [disk EXCEPT ![f] = @ \o SubSeq(all, 1, Len(all))]
    BY <1>8, <2>1, <2>2
  <2>4. /\ DiskGrows
        /\ Becomes(f, SubSeq(Contents(f), 1, Len(disk[f]) + Len(all)))
        /\ Contents(f) = disk[f] \o all
    BY <1>7, <2>1, <2>2, <2>3
  <2>5. Contents(f) \in Seq(Piece) /\ Len(Contents(f)) = Len(disk[f]) + Len(all)
    <3>1. disk[f] \in Seq(Piece)
      BY <1>5
    <3> QED BY <1>2, <2>4, <3>1, ConcatProperties
  <2>6. SubSeq(Contents(f), 1, Len(disk[f]) + Len(all)) = Contents(f)
    BY <2>5, SubSeqFull
  <2>7. SameContents
    BY <2>4, <2>6 DEF Becomes, SameContents
  <2> QED BY <1>8, <2>4, <2>7
<1>9. CASE /\ logger[l].file # NoFile
           /\ \E k \in 0..Len(all) :
                 disk' = [disk EXCEPT ![logger[l].file] = @ \o SubSeq(all, 1, k)]
           /\ overtaken' = overtaken \cup LinesOf(all) \cup InHand(l)
  <2>1. PICK f \in Files : logger[l].file = f
    BY <1>2, <1>9
  <2>2. PICK k \in 0..Len(all) : disk' = [disk EXCEPT ![f] = @ \o SubSeq(all, 1, k)]
    BY <1>9, <2>1
  <2>3. /\ DiskGrows
        /\ Becomes(f, SubSeq(Contents(f), 1, Len(disk[f]) + k))
        /\ Contents(f) = disk[f] \o all
        /\ Len(disk[f]) + k \in Len(disk[f])..Len(Contents(f))
    BY <1>7, <2>1, <2>2
  <2>4. \A i \in Len(disk[f]) + 1..Len(Contents(f)) : Contents(f)[i].line \in overtaken'
    <3>1. disk[f] \in Seq(Piece) /\ LinesOf(all) \subseteq overtaken'
      BY <1>5, <1>9
    <3> QED BY <1>2, <2>3, <3>1, LostOvertaken
  <2>5. CutShort(f, Contents(f))
    BY <2>3, <2>4 DEF CutShort
  <2> QED BY <1>9, <2>1, <2>3, <2>5
<1>10. \/ logger[l].file = NoFile
       \/ /\ logger[l].file # NoFile
          /\ disk' = [disk EXCEPT ![logger[l].file] = @ \o all]
          /\ UNCHANGED <<overtaken, faults>>
       \/ /\ logger[l].file # NoFile
          /\ \E k \in 0..Len(all) :
                disk' = [disk EXCEPT ![logger[l].file] = @ \o SubSeq(all, 1, k)]
          /\ overtaken' = overtaken \cup LinesOf(all) \cup InHand(l)
  BY DEF CloseFile
<1> QED BY <1>6, <1>8, <1>9, <1>10

SameFiles == \A l \in Loggers : /\ logger'[l].file = logger[l].file
                                /\ logger'[l].buf = logger[l].buf

\* The owner, the level and the printing are not the stream.
LEMMA FieldLeaves ==
  ASSUME logger \in LoggerType, NEW l \in Loggers, NEW v,
         \/ logger' = [logger EXCEPT ![l].owner = v]
         \/ logger' = [logger EXCEPT ![l].lvl = v]
         \/ logger' = [logger EXCEPT ![l].prints = v]
  PROVE  SameFiles
<1> SUFFICES ASSUME NEW m \in Loggers
             PROVE  logger'[m].file = logger[m].file /\ logger'[m].buf = logger[m].buf
  BY DEF SameFiles
<1>1. CASE logger' = [logger EXCEPT ![l].owner = v]
  BY <1>1 DEF LoggerType
<1>2. CASE logger' = [logger EXCEPT ![l].lvl = v]
  BY <1>2 DEF LoggerType
<1>3. CASE logger' = [logger EXCEPT ![l].prints = v]
  BY <1>3 DEF LoggerType
<1> QED BY <1>1, <1>2, <1>3

\* The steps which leave the streams alone.
Calm(t) == Begin(t) \/ CheckLevel(t) \/ Lock(t) \/ PrintAndReturn(t)
CalmAsk == \/ \E ptr \in {"given", "null"} : AcceptRealLogger(ptr)
           \/ \E a \in Asks : SettingsCall(a)
           \/ SetLevel \/ SetPrint

LEMMA CalmEffect ==
  ASSUME Base, (\E t \in Threads : Calm(t)) \/ CalmAsk
  PROVE  /\ UNCHANGED disk /\ SameFiles /\ SameContents /\ overtaken \subseteq overtaken'
<1>0. logger \in LoggerType /\ \A t \in Threads : at[t] \in Loggers
  BY DEF Base, TypeOK, LoggerType
<1>1. UNCHANGED disk /\ SameFiles
  <2>1. ASSUME NEW t \in Threads, Calm(t) PROVE UNCHANGED disk /\ SameFiles
    <3>1. /\ UNCHANGED disk
          /\ \/ UNCHANGED logger
             \/ \E o \in Threads \cup {NoThread} :
                   logger' = [logger EXCEPT ![at[t]].owner = o]
      BY <2>1 DEF Calm, Begin, CheckLevel, Lock, PrintAndReturn
    <3>2. at[t] \in Loggers
      BY <1>0
    <3> QED BY <1>0, <3>1, <3>2, FieldLeaves DEF SameFiles
  <2>2. ASSUME NEW ptr \in {"given", "null"}, AcceptRealLogger(ptr)
        PROVE UNCHANGED disk /\ SameFiles
    BY <2>2 DEF AcceptRealLogger, SameFiles
  <2>3. ASSUME NEW a \in Asks, SettingsCall(a) PROVE UNCHANGED disk /\ SameFiles
    BY <2>3 DEF SettingsCall, SameFiles
  <2>4. ASSUME SetLevel \/ SetPrint PROVE UNCHANGED disk /\ SameFiles
    <3>1. /\ UNCHANGED disk
          /\ \/ logger' = [logger EXCEPT ![ask[1].to].lvl = ask[1].lvl]
             \/ logger' = [logger EXCEPT ![ask[1].to].prints = ask[1].prints]
      BY <2>4 DEF SetLevel, SetPrint
    <3>2. ask[1].to \in Loggers
      BY <2>4, LoggerAssumption DEF SetLevel, SetPrint, AskAt, Base, TypeOK, Ask
    <3> QED BY <1>0, <3>1, <3>2, FieldLeaves
  <2> QED BY <2>1, <2>2, <2>3, <2>4 DEF CalmAsk
<1>2. SameContents
  BY <1>1, SameStreams DEF SameFiles
<1>3. overtaken \subseteq overtaken'
  <2>1. ASSUME NEW t \in Threads, Calm(t) PROVE overtaken \subseteq overtaken'
    <3>1. CASE Begin(t)
      BY <3>1 DEF Begin
    <3>2. CASE CheckLevel(t) \/ Lock(t) \/ PrintAndReturn(t)
      BY <3>2 DEF CheckLevel, Lock, PrintAndReturn, troubles
    <3> QED BY <2>1, <3>1, <3>2 DEF Calm
  <2>2. ASSUME NEW ptr \in {"given", "null"}, AcceptRealLogger(ptr)
        PROVE overtaken \subseteq overtaken'
    BY <2>2 DEF AcceptRealLogger, troubles
  <2>3. ASSUME NEW a \in Asks, SettingsCall(a) PROVE overtaken \subseteq overtaken'
    BY <2>3 DEF SettingsCall
  <2>4. ASSUME SetLevel \/ SetPrint PROVE overtaken \subseteq overtaken'
    BY <2>4 DEF SetLevel, SetPrint, troubles
  <2> QED BY <2>1, <2>2, <2>3, <2>4 DEF CalmAsk
<1> QED BY <1>1, <1>2, <1>3

\* A file that is opened has what it had.
LEMMA OpenFileEffect ==
  ASSUME Base, OpenFile
  PROVE  UNCHANGED <<disk, overtaken>> /\ SameContents
<1> DEFINE l == ask[1].to
           path == ask[1].path
<1>1. /\ ask # <<>> /\ ask[2] = "open" /\ ask[1] \in Ask
  BY LoggerAssumption DEF Base, TypeOK, OpenFile, AskAt
<1>2. /\ l \in Loggers /\ path \in Files /\ logger[l].file = NoFile
      /\ logger[l].buf = <<>>
      /\ \A m \in Loggers : logger[m].file = path => m = l
  BY <1>1 DEF Base, FilesApart, Streams, Ask
<1>3. /\ \/ logger' = [logger EXCEPT ![l].file = path, ![l].bad = FALSE]
         \/ logger' = [logger EXCEPT ![l].bad = TRUE]
      /\ UNCHANGED <<disk, overtaken>>
  BY <1>2 DEF OpenFile
<1>4. /\ \A m \in Loggers \ {l} : logger'[m] = logger[m]
      /\ logger'[l].buf = <<>>
      /\ logger'[l].file = path \/ logger'[l].file = NoFile
  <2>1. logger \in LoggerType
    BY DEF Base, TypeOK, LoggerType
  <2> QED BY <1>2, <1>3, <2>1 DEF LoggerType
<1> HIDE DEF l, path
<1>5. Base' /\ ContentsAre /\ ContentsAre'
  BY OpenFileBase, ContentsOf, PTL
<1>6. \A g \in Files : disk[g] \o <<>> = disk[g]
  BY ConcatEmptySeq DEF Base, TypeOK
<1>7. ASSUME NEW g \in Files PROVE Contents(g)' = Contents(g)
  <2>1. CASE logger'[l].file = g
    <3>1. Contents(g)' = disk[g]
      <4>1. Contents(g)' = disk'[g] \o logger'[l].buf
        BY <1>2, <1>5, <2>1, ContentsNext
      <4> QED BY <1>3, <1>4, <1>6, <4>1
    <3>2. \A m \in Loggers : logger[m].file # g
      BY <1>2, <1>4, <2>1, LoggerAssumption
    <3> QED BY <1>5, <3>1, <3>2 DEF ContentsAre
  <2>2. CASE logger'[l].file # g
    <3>1. logger[l].file # g /\ disk'[g] = disk[g]
      BY <1>2, <1>3, LoggerAssumption
    <3> QED BY <1>2, <1>4, <1>5, <2>2, <3>1, OthersSame
  <2> QED BY <2>1, <2>2
<1> QED BY <1>3, <1>7 DEF SameContents

\* The process ends: every file has what it had, or what was on the disk.
LEMMA EndBase ==
  ASSUME Base, NEW how \in {"exited", "killed"}, End(how),
         disk' \in [Files -> Seq(Piece)]
  PROVE  Base' /\ \A f \in Files : Contents(f)' = disk'[f]
<1> USE DEF End, Fresh, troubles
<1>1. \A l \in Loggers : logger'[l] = NewLogger
  OBVIOUS
<1>2. TypeOK'
  <2>1. logger' \in LoggerType
    <3>1. NewLogger \in [lvl: Levels, prints: BOOLEAN, bad: BOOLEAN,
                         file: Files \cup {NoFile}, buf: Seq(Piece),
                         owner: Threads \cup {NoThread}]
      BY LoggerAssumption DEF NewLogger
    <3> QED BY <3>1 DEF LoggerType
  <2>2. /\ lines' \in [Threads -> Nat]
        /\ \A t \in Threads : lines'[t] <= Len(Says[t])
    <3>1. ASSUME NEW t \in Threads PROVE Len(Says[t]) \in Nat
      <4>1. Says[t] \in Seq(SUBSET Levels)
        BY LoggerAssumption
      <4> QED BY <4>1, LenProperties
    <3>2. lines' = [t \in Threads |-> 0]
      OBVIOUS
    <3> QED BY <3>1, <3>2
  <2>3. asked' \in 0..MaxAsks
    BY LoggerAssumption
  <2> QED BY <2>1, <2>2, <2>3 DEF Base, TypeOK, LoggerType, Loggers
<1>3. Owned' /\ FilesApart' /\ Streams' /\ Calls'
  BY <1>1, LoggerAssumption
  DEF Owned, FilesApart, Streams, Calls, InCall, NewLogger, Writing
<1>4. Base'
  BY <1>2, <1>3 DEF Base
<1>5. \A f \in Files : Contents(f)' = disk'[f]
  <2>1. ContentsAre'
    BY <1>4, ContentsOf, PTL
  <2>2. \A f \in Files, l \in Loggers : logger'[l].file # f
    BY <1>1, LoggerAssumption DEF NewLogger
  <2> QED BY <2>1, <2>2 DEF ContentsAre
<1> QED BY <1>4, <1>5

\* Every step keeps the base.
LEMMA BaseStep == Base /\ [Next]_vars => Base'
<1> SUFFICES ASSUME Base, [Next]_vars PROVE Base'
  OBVIOUS
<1>1. ASSUME NEW t \in Threads, Begin(t) \/ LogStep(t) PROVE Base'
  <2>1. CASE WriteHead(t)
    <3>1. InCall(t) /\ "head" \in Parts
      BY <2>1 DEF WriteHead, InCall, Parts
    <3>2. StreamBase
      BY <2>1, <3>1, PutEffect DEF WriteHead
    <3> QED BY <2>1, <3>2, StreamStepBase DEF WriteHead
  <2>2. CASE WriteTail(t)
    <3>1. InCall(t) /\ "tail" \in Parts
      BY <2>2 DEF WriteTail, InCall, Parts
    <3>2. StreamBase
      BY <2>2, <3>1, PutEffect DEF WriteTail
    <3> QED BY <2>2, <3>2, StreamStepBase DEF WriteTail
  <2>3. CASE Flush(t)
    <3>1. StreamBase
      BY <2>3, FlushEffect
    <3> QED BY <2>3, <3>1, StreamStepBase DEF Flush
  <2> QED BY <1>1, <2>1, <2>2, <2>3, BeginBase, CheckLevelBase, LockBase, PrintBase
          DEF LogStep
<1>2. CASE AskStep
  BY <1>2, CloseFileBase, OpenFileBase, SetLevelBase, SetPrintBase DEF AskStep
<1>3. CASE Exit
  <2>1. disk' \in [Files -> Seq(Piece)]
    BY <1>3, ContentsOf DEF Exit, ContentsAre
  <2> QED BY <1>3, <2>1, EndBase DEF Exit
<1>4. CASE Kill
  BY <1>4, EndBase DEF Kill, Base, TypeOK
<1>5. CASE UNCHANGED vars
  BY <1>5 DEF vars, Base, TypeOK, Owned, FilesApart, Streams, Calls, InCall
<1> QED BY <1>1, <1>2, <1>3, <1>4, <1>5, AcceptBase, SettingsBase DEF Next
-----------------------------------------------------------------------------
(* The files stay whole.                                                   *)

LEMMA WholeMore ==
  ASSUME NEW d, NEW over, NEW more, over \subseteq more, Whole(d, over)
  PROVE  Whole(d, more)
BY DEF Whole

LEMMA WholePrefix ==
  ASSUME NEW d \in Seq(Piece), NEW over, Whole(d, over), NEW n \in 0..Len(d)
  PROVE  Whole(SubSeq(d, 1, n), over)
<1>1. Len(d) \in Nat /\ n \in Nat
  BY LenProperties
<1>2. \A i \in 1..n : d[i] \in Piece
  BY <1>1, ElementOfSeq
<1>3. Len(SubSeq(d, 1, n)) = n /\ \A i \in 1..n : SubSeq(d, 1, n)[i] = d[i]
  BY <1>1, <1>2, SubSeqProperties
<1> DEFINE c == SubSeq(d, 1, n)
<1> HIDE DEF c
<1>4. SUFFICES Whole(c, over)
  BY DEF c
<1>5. Len(c) = n /\ \A i \in 1..n : c[i] = d[i]
  BY <1>3 DEF c
<1> SUFFICES ASSUME NEW i \in 1..n, c[i].line \notin over
             PROVE  /\ c[i].part = "head" /\ i < n => c[i + 1] = TailOf(c[i].line)
                    /\ c[i].part = "tail" => i > 1 /\ c[i - 1] = HeadOf(c[i].line)
                    /\ \A j \in 1..i - 1 :
                          /\ c[j] # c[i]
                          /\ c[j].line.by = c[i].line.by => c[j].line.n <= c[i].line.n
  BY <1>5 DEF Whole
<1>6. i \in 1..Len(d) /\ c[i] = d[i] /\ d[i].line \notin over
  BY <1>1, <1>5
<1>7. i < n => i + 1 \in 1..n /\ i < Len(d)
  BY <1>1
<1>8. i > 1 => i - 1 \in 1..n
  BY <1>1
<1>9. \A j \in 1..i - 1 : j \in 1..n
  BY <1>1
<1> QED BY <1>5, <1>6, <1>7, <1>8, <1>9 DEF Whole

\* A piece that follows on the last one, and on all of its thread.
Follows(d, over, p) ==
  /\ d # <<>> /\ d[Len(d)].part = "head" /\ d[Len(d)].line \notin over =>
        p = TailOf(d[Len(d)].line)
  /\ p.line \notin over =>
        /\ p.part = "tail" => EndsWith(d, HeadOf(p.line))
        /\ \A j \in 1..Len(d) :
              /\ d[j] # p
              /\ d[j].line.by = p.line.by => d[j].line.n <= p.line.n

LEMMA WholeAppend ==
  ASSUME NEW d \in Seq(Piece), NEW over, NEW p \in Piece, Whole(d, over), Follows(d, over, p)
  PROVE  Whole(Append(d, p), over)
<1> DEFINE c == Append(d, p)
           m == Len(d)
<1>1. m \in Nat
  BY LenProperties
<1>2. /\ Len(c) = m + 1 /\ c[m + 1] = p
      /\ \A i \in 1..m : c[i] = d[i]
  BY AppendProperties
<1>3. m > 0 => d # <<>>
  BY LenProperties
<1> HIDE DEF c
<1> SUFFICES ASSUME NEW i \in 1..m + 1, c[i].line \notin over
             PROVE  /\ c[i].part = "head" /\ i < m + 1 => c[i + 1] = TailOf(c[i].line)
                    /\ c[i].part = "tail" => i > 1 /\ c[i - 1] = HeadOf(c[i].line)
                    /\ \A j \in 1..i - 1 :
                          /\ c[j] # c[i]
                          /\ c[j].line.by = c[i].line.by => c[j].line.n <= c[i].line.n
  BY <1>2 DEF Whole, c
<1>4. CASE i = m + 1
  <2>1. c[i] = p /\ i - 1 = m
    BY <1>1, <1>2, <1>4
  <2>2. p.part = "tail" => m > 0 /\ c[m] = HeadOf(p.line)
    <3>1. p.part = "tail" => m > 0 /\ d[m] = HeadOf(p.line)
      BY <2>1 DEF Follows, EndsWith
    <3> QED BY <1>1, <1>2, <3>1
  <2>3. \A j \in 1..m : c[j] # p /\ (c[j].line.by = p.line.by => c[j].line.n <= p.line.n)
    BY <1>2, <2>1 DEF Follows
  <2> QED BY <1>1, <1>4, <2>1, <2>2, <2>3
<1>5. CASE i \in 1..m
  <2>1. c[i] = d[i] /\ d[i].line \notin over
    BY <1>2, <1>5
  <2>2. c[i].part = "head" => c[i + 1] = TailOf(c[i].line)
    <3>1. CASE i = m
      BY <1>1, <1>2, <1>3, <1>5, <2>1, <3>1 DEF Follows
    <3>2. CASE i < m
      <4>1. i + 1 \in 1..m
        BY <1>1, <1>5, <3>2
      <4> QED BY <1>2, <1>5, <2>1, <3>2, <4>1 DEF Whole
    <3> QED BY <1>1, <1>5, <3>1, <3>2
  <2>3. c[i].part = "tail" => i > 1 /\ c[i - 1] = HeadOf(c[i].line)
    <3>1. d[i].part = "tail" => i > 1 /\ d[i - 1] = HeadOf(d[i].line)
      BY <1>5, <2>1 DEF Whole
    <3>2. i > 1 => i - 1 \in 1..m
      BY <1>1, <1>5
    <3> QED BY <1>2, <2>1, <3>1, <3>2
  <2>4. \A j \in 1..i - 1 : /\ c[j] # c[i]
                            /\ c[j].line.by = c[i].line.by => c[j].line.n <= c[i].line.n
    <3>1. \A j \in 1..i - 1 : j \in 1..m
      BY <1>1, <1>5
    <3> QED BY <1>2, <1>5, <2>1, <3>1 DEF Whole
  <2> QED BY <2>2, <2>3, <2>4
<1>6. i = m + 1 \/ i \in 1..m
  BY <1>1
<1> QED BY <1>4, <1>5, <1>6

LEMMA PieceFacts ==
  ASSUME NEW x, NEW y
  PROVE  /\ HeadOf(x).line = x /\ HeadOf(x).part = "head"
         /\ TailOf(x).line = x /\ TailOf(x).part = "tail"
         /\ HeadOf(x) # TailOf(y)
BY DEF HeadOf, TailOf

LEMMA SameLogger ==
  ASSUME Base, NEW t \in Threads, NEW u \in Threads,
         NEW f \in Files, logger[at[t]].file = f, logger[at[u]].file = f
  PROVE  at[t] = at[u]
<1>1. at[t] \in Loggers /\ at[u] \in Loggers /\ f # NoFile
  BY LoggerAssumption DEF Base, TypeOK
<1> QED BY <1>1 DEF Base, FilesApart

\* The thread whose tail a file waits for is the one that has its logger.
LEMMA OneAtAFile ==
  ASSUME Base, NEW t \in Threads, NEW u \in Threads, pc[t] \in Writing, pc[u] \in Writing,
         NEW f \in Files, logger[at[t]].file = f, logger[at[u]].file = f
  PROVE  t = u
BY SameLogger DEF Base, Owned

\* What a file has of the thread that writes its head is of earlier lines.
LEMMA HeadFollows ==
  ASSUME Base, Pending, Numbered, NEW t \in Threads, pc[t] = "head",
         NEW f \in Files, logger[at[t]].file = f
  PROVE  Follows(Contents(f), overtaken, HeadOf(line[t]))
<1> DEFINE d == Contents(f)
           x == line[t]
<1>1. x.by = t /\ x.n = lines[t]
  BY DEF Base, Calls, InCall
<1>2. d \in Seq(Piece) /\ Len(d) \in Nat /\ DOMAIN d = 1..Len(d)
  BY ContentsOf, LenProperties DEF ContentsAre
<1>3. ASSUME d # <<>>, d[Len(d)].part = "head", d[Len(d)].line \notin overtaken
      PROVE  FALSE
  <2>1. Len(d) > 0
    BY <1>2, <1>3, EmptySeq, LenProperties
  <2>2. PICK u \in Threads :
          pc[u] = "tail" /\ line[u] = d[Len(d)].line /\ logger[at[u]].file = f
    BY <1>3, <2>1 DEF Pending, PendingAt, Waiting, AtTail
  <2>3. t = u
    BY <2>2, OneAtAFile DEF Writing
  <2> QED BY <2>2, <2>3
<1>4. ASSUME NEW j \in 1..Len(d)
      PROVE  /\ d[j] # HeadOf(x)
             /\ d[j].line.by = x.by => d[j].line.n <= x.n
  <2>1. PieceNumbered(d[j]) /\ d[j] \in Piece
    BY <1>2, ElementOfSeq DEF Numbered
  <2>2. d[j].line.by = t => d[j].line.n < lines[t]
    BY <2>1 DEF PieceNumbered, Past, InCall
  <2>3. d[j].line.n \in Nat /\ lines[t] \in Nat
    BY <2>1 DEF Piece, Line, Base, TypeOK
  <2> QED BY <1>1, <2>2, <2>3, PieceFacts
<1> QED BY <1>3, <1>4, PieceFacts DEF Follows

\* The head of a line is the last in its file when the tail is written.
LEMMA TailFollows ==
  ASSUME Base, Pending, Numbered, CallsReach, NEW t \in Threads, pc[t] = "tail",
         NEW f \in Files, logger[at[t]].file = f
  PROVE  Follows(Contents(f), overtaken, TailOf(line[t]))
<1> DEFINE d == Contents(f)
           x == line[t]
<1>1. x.by = t /\ x.n = lines[t]
  BY DEF Base, Calls, InCall
<1>2. d \in Seq(Piece) /\ Len(d) \in Nat /\ DOMAIN d = 1..Len(d)
  BY ContentsOf, LenProperties DEF ContentsAre
<1>3. ASSUME d # <<>>, d[Len(d)].part = "head", d[Len(d)].line \notin overtaken
      PROVE  d[Len(d)].line = x
  <2>1. Len(d) > 0
    BY <1>2, <1>3, EmptySeq, LenProperties
  <2>2. PICK u \in Threads :
          pc[u] = "tail" /\ line[u] = d[Len(d)].line /\ logger[at[u]].file = f
    BY <1>3, <2>1 DEF Pending, PendingAt, Waiting, AtTail
  <2>3. t = u
    BY <2>2, OneAtAFile DEF Writing
  <2> QED BY <2>2, <2>3
<1>4. ASSUME NEW j \in 1..Len(d)
      PROVE  /\ d[j] # TailOf(x)
             /\ d[j].line.by = x.by => d[j].line.n <= x.n
  <2>1. PieceNumbered(d[j]) /\ d[j] \in Piece
    BY <1>2, ElementOfSeq DEF Numbered
  <2>2. d[j].line.by = t => d[j].line.n < lines[t] \/ d[j] = HeadOf(x)
    BY <2>1 DEF PieceNumbered, Past, InCall
  <2>3. d[j].line.n \in Nat /\ lines[t] \in Nat
    BY <2>1 DEF Piece, Line, Base, TypeOK
  <2> QED BY <1>1, <2>2, <2>3, PieceFacts
<1>5. x \notin overtaken => EndsWith(d, HeadOf(x))
  BY DEF CallsReach, Reached, ReachedIn, InCall
<1> QED BY <1>3, <1>4, <1>5, PieceFacts DEF Follows

\* A thread whose write fails has been overtaken, with whoever was about to
\* write a tail.
LEMMA LostFollows ==
  ASSUME Base, Pending, NEW t \in Threads, InCall(t),
         NEW f \in Files, logger[at[t]].file = f, NEW p, p.line = line[t],
         overtaken \subseteq overtaken', InHand(at[t]) \subseteq overtaken'
  PROVE  Follows(Contents(f), overtaken', p)
<1> DEFINE d == Contents(f)
<1>1. p.line \in overtaken'
  BY InHandOf DEF Base, TypeOK
<1>2. d \in Seq(Piece) /\ Len(d) \in Nat
  BY ContentsOf, LenProperties DEF ContentsAre
<1>3. ASSUME d # <<>>, d[Len(d)].part = "head", d[Len(d)].line \notin overtaken'
      PROVE  FALSE
  <2>1. Len(d) > 0
    BY <1>2, <1>3, EmptySeq, LenProperties
  <2>2. PICK u \in Threads :
          pc[u] = "tail" /\ line[u] = d[Len(d)].line /\ logger[at[u]].file = f
    BY <1>3, <2>1 DEF Pending, PendingAt, Waiting, AtTail
  <2>3. at[u] = at[t]
    BY <2>2, SameLogger
  <2>4. line[u] \in InHand(at[t])
    BY <2>2, <2>3, InHandOf DEF InCall, Base, TypeOK
  <2> QED BY <1>3, <2>2, <2>4
<1> QED BY <1>1, <1>3 DEF Follows

\* What is on the disk is the first part of the contents.
LEMMA DiskIsFirst ==
  ASSUME Base, NEW f \in Files
  PROVE  /\ disk[f] \in Seq(Piece) /\ Len(disk[f]) \in 0..Len(Contents(f))
         /\ disk[f] = SubSeq(Contents(f), 1, Len(disk[f]))
<1>1. disk[f] \in Seq(Piece) /\ Len(disk[f]) \in Nat
  BY LenProperties DEF Base, TypeOK
<1>2. CASE \A l \in Loggers : logger[l].file # f
  <2>1. Contents(f) = disk[f]
    BY <1>2, ContentsOf DEF ContentsAre
  <2> QED BY <1>1, <2>1, SubSeqFull
<1>3. ASSUME NEW l \in Loggers, logger[l].file = f
      PROVE  /\ Len(disk[f]) \in 0..Len(Contents(f))
             /\ disk[f] = SubSeq(Contents(f), 1, Len(disk[f]))
  <2> DEFINE buf == logger[l].buf
  <2>1. Contents(f) = disk[f] \o buf
    BY <1>3, ContentsOf, LoggerAssumption DEF ContentsAre
  <2>2. buf \in Seq(Piece) /\ Len(buf) \in Nat
    BY LenProperties DEF Base, TypeOK
  <2>3. 0 \in 0..Len(buf) /\ SubSeq(buf, 1, 0) = <<>>
    BY <2>2, SubSeqEmpty
  <2>4. disk[f] \o <<>> = disk[f]
    BY <1>1, ConcatEmptySeq
  <2> HIDE DEF buf
  <2>5. /\ disk[f] \o SubSeq(buf, 1, 0) = SubSeq(disk[f] \o buf, 1, Len(disk[f]) + 0)
        /\ Len(disk[f]) + 0 \in Len(disk[f])..Len(disk[f] \o buf)
    BY <1>1, <2>2, <2>3, Pushed
  <2> QED BY <1>1, <2>1, <2>3, <2>4, <2>5
<1> QED BY <1>1, <1>2, <1>3

LEMMA DiskWhole ==
  ASSUME Base, ContentsWhole, NEW f \in Files
  PROVE  Whole(disk[f], overtaken)
<1>1. Contents(f) \in Seq(Piece) /\ Whole(Contents(f), overtaken)
  BY ContentsOf DEF ContentsAre, ContentsWhole
<1>2. Whole(SubSeq(Contents(f), 1, Len(disk[f])), overtaken)
  BY <1>1, DiskIsFirst, WholePrefix
<1> QED BY <1>2, DiskIsFirst

LEMMA SameWhole ==
  ASSUME ContentsWhole, SameContents, overtaken \subseteq overtaken'
  PROVE  ContentsWhole'
<1> SUFFICES ASSUME NEW f \in Files PROVE Whole(Contents(f)', overtaken')
  BY DEF ContentsWhole
<1>1. Whole(Contents(f), overtaken') /\ Contents(f)' = Contents(f)
  BY WholeMore DEF ContentsWhole, SameContents
<1> QED BY <1>1

\* A file that is cut short stays whole when what it was to have was.
LEMMA CutWhole ==
  ASSUME ContentsWhole, NEW f \in Files, NEW c \in Seq(Piece), CutShort(f, c),
         Len(disk[f]) \in Nat, overtaken \subseteq overtaken', Whole(c, overtaken')
  PROVE  ContentsWhole'
<1>1. PICK n \in Len(disk[f])..Len(c) : Becomes(f, SubSeq(c, 1, n))
  BY DEF CutShort
<1>2. n \in 0..Len(c)
  BY <1>1
<1>3. Whole(SubSeq(c, 1, n), overtaken')
  BY <1>2, WholePrefix
<1> SUFFICES ASSUME NEW g \in Files PROVE Whole(Contents(g)', overtaken')
  BY DEF ContentsWhole
<1>4. CASE g = f
  <2>1. Contents(f)' = SubSeq(c, 1, n)
    BY <1>1 DEF Becomes
  <2> QED BY <1>3, <1>4, <2>1
<1>5. CASE g # f
  <2>1. Whole(Contents(g), overtaken') /\ Contents(g)' = Contents(g)
    BY <1>1, <1>5, WholeMore DEF ContentsWhole, Becomes
  <2> QED BY <2>1
<1> QED BY <1>4, <1>5

\* A step of t that writes p keeps the files whole.
LEMMA WriteWhole ==
  ASSUME Base, ContentsWhole, Pending, NEW t \in Threads, InCall(t), NEW p \in Piece,
         p.line = line[t], overtaken \subseteq overtaken',
         \A f \in Files : logger[at[t]].file = f => Follows(Contents(f), overtaken, p),
         \/ Dropped(t)
         \/ \E f \in Files : /\ logger[at[t]].file = f
                             /\ Taken(t, f, p) \/ Failed(t, f, Append(Contents(f), p))
  PROVE  ContentsWhole'
<1>1. CASE Dropped(t)
  BY <1>1, SameWhole DEF Dropped
<1>2. ASSUME NEW f \in Files, logger[at[t]].file = f, Taken(t, f, p)
      PROVE  ContentsWhole'
  <2>1. Contents(f) \in Seq(Piece)
    BY ContentsOf DEF ContentsAre
  <2>2. Whole(Append(Contents(f), p), overtaken)
    BY <1>2, <2>1, WholeAppend DEF ContentsWhole
  <2> SUFFICES ASSUME NEW g \in Files PROVE Whole(Contents(g)', overtaken')
    BY DEF ContentsWhole
  <2>3. overtaken' = overtaken /\ Becomes(f, Append(Contents(f), p))
    BY <1>2 DEF Taken
  <2>4. CASE g = f
    <3>1. Contents(f)' = Append(Contents(f), p)
      BY <2>3 DEF Becomes
    <3> QED BY <2>2, <2>3, <2>4, <3>1
  <2>5. CASE g # f
    <3>1. Whole(Contents(g), overtaken) /\ Contents(g)' = Contents(g)
      BY <2>3, <2>5 DEF ContentsWhole, Becomes
    <3> QED BY <2>3, <3>1
  <2> QED BY <2>4, <2>5
<1>3. ASSUME NEW f \in Files, logger[at[t]].file = f,
             Failed(t, f, Append(Contents(f), p))
      PROVE  ContentsWhole'
  <2>1. /\ Contents(f) \in Seq(Piece) /\ Append(Contents(f), p) \in Seq(Piece)
        /\ Len(disk[f]) \in Nat
    BY ContentsOf, AppendProperties, LenProperties DEF ContentsAre, Base, TypeOK
  <2>2. Whole(Contents(f), overtaken')
    BY WholeMore DEF ContentsWhole
  <2>3. Follows(Contents(f), overtaken', p)
    BY <1>3, LostFollows DEF Failed
  <2>4. Whole(Append(Contents(f), p), overtaken')
    BY <2>1, <2>2, <2>3, WholeAppend
  <2> QED BY <1>3, <2>1, <2>4, CutWhole DEF Failed
<1> QED BY <1>1, <1>2, <1>3

LEMMA WholeStep ==
  ASSUME Base, ContentsWhole, Pending, Numbered, CallsReach, Next
  PROVE  ContentsWhole'
<1>1. Base'
  BY BaseStep
<1>2. ASSUME NEW t \in Threads, WriteHead(t) PROVE ContentsWhole'
  <2>1. InCall(t) /\ line[t] \in Line /\ pc[t] = "head"
    BY <1>2 DEF WriteHead, InCall, Base, Calls
  <2>2. PieceOf(t, "head") \in Piece /\ PieceOf(t, "head") = HeadOf(line[t])
    BY <2>1 DEF PieceOf, Piece, Parts, HeadOf
  <2>3. Put(t, "head") /\ "head" \in Parts
    BY <1>2 DEF WriteHead, Parts
  <2> QED BY <1>1, <2>1, <2>2, <2>3, PutEffect, HeadFollows, WriteWhole, PieceFacts
          DEF StreamBase
<1>3. ASSUME NEW t \in Threads, WriteTail(t) PROVE ContentsWhole'
  <2>1. InCall(t) /\ line[t] \in Line /\ pc[t] = "tail"
    BY <1>3 DEF WriteTail, InCall, Base, Calls
  <2>2. PieceOf(t, "tail") \in Piece /\ PieceOf(t, "tail") = TailOf(line[t])
    BY <2>1 DEF PieceOf, Piece, Parts, TailOf
  <2>3. Put(t, "tail") /\ "tail" \in Parts
    BY <1>3 DEF WriteTail, Parts
  <2> QED BY <1>1, <2>1, <2>2, <2>3, PutEffect, TailFollows, WriteWhole, PieceFacts
          DEF StreamBase
<1>4. ASSUME NEW t \in Threads, Flush(t) PROVE ContentsWhole'
  <2>1. overtaken \subseteq overtaken'
    BY <1>4, FlushEffect DEF StreamBase
  <2>2. CASE SameContents
    BY <2>1, <2>2, SameWhole
  <2>3. ASSUME NEW f \in Files, Failed(t, f, Contents(f)) PROVE ContentsWhole'
    <3>1. Contents(f) \in Seq(Piece) /\ Len(disk[f]) \in Nat
      BY ContentsOf, LenProperties DEF ContentsAre, Base, TypeOK
    <3>2. Whole(Contents(f), overtaken')
      BY <2>1, WholeMore DEF ContentsWhole
    <3> QED BY <2>1, <2>3, <3>1, <3>2, CutWhole DEF Failed
  <2> QED BY <1>1, <1>4, <2>2, <2>3, FlushEffect
<1>5. CASE CloseFile
  <2>1. CASE SameContents /\ UNCHANGED overtaken
    BY <2>1, SameWhole
  <2>2. ASSUME NEW f \in Files, CutShort(f, Contents(f)), overtaken \subseteq overtaken'
        PROVE  ContentsWhole'
    <3>1. Contents(f) \in Seq(Piece) /\ Len(disk[f]) \in Nat
      BY ContentsOf, LenProperties DEF ContentsAre, Base, TypeOK
    <3>2. Whole(Contents(f), overtaken')
      BY <2>2, WholeMore DEF ContentsWhole
    <3> QED BY <2>2, <3>1, <3>2, CutWhole
  <2> QED BY <1>5, <2>1, <2>2, CloseFileEffect
<1>6. CASE OpenFile
  BY <1>6, OpenFileEffect, SameWhole
<1>7. CASE (\E t \in Threads : Calm(t)) \/ CalmAsk
  BY <1>7, CalmEffect, SameWhole
<1>8. CASE Exit
  <2>1. disk' = [f \in Files |-> Contents(f)] /\ End("exited") /\ UNCHANGED overtaken
    BY <1>8 DEF Exit, End, troubles
  <2>2. disk' \in [Files -> Seq(Piece)]
    BY <2>1, ContentsOf DEF ContentsAre
  <2>3. SameContents
    BY <2>1, <2>2, EndBase DEF SameContents
  <2> QED BY <2>1, <2>3, SameWhole
<1>9. CASE Kill
  <2>1. disk' = disk /\ End("killed") /\ UNCHANGED overtaken
    BY <1>9 DEF Kill, End, troubles
  <2>2. \A f \in Files : Contents(f)' = disk[f]
    BY <2>1, EndBase DEF Base, TypeOK
  <2> SUFFICES ASSUME NEW f \in Files PROVE Whole(disk[f], overtaken)
    BY <2>1, <2>2 DEF ContentsWhole
  <2> QED BY DiskWhole
<1> QED BY <1>2, <1>3, <1>4, <1>5, <1>6, <1>7, <1>8, <1>9
        DEF Next, LogStep, AskStep, Calm, CalmAsk
-----------------------------------------------------------------------------
(* A head that is the last of its file has a thread at its tail.           *)

\* The threads at the tails of a file are still there, those overtaken apart.
StillAtTail(f) ==
  \A u \in Threads : AtTail(u, line[u], f) /\ line[u] \notin overtaken' =>
    AtTail(u, line[u], f)' /\ line'[u] = line[u]

LEMMA SamePending ==
  ASSUME NEW f \in Files, PendingAt(f), Contents(f)' = Contents(f),
         overtaken \subseteq overtaken', StillAtTail(f)
  PROVE  PendingAt(f)'
<1> DEFINE d == Contents(f)
           x == d[Len(d)].line
<1> SUFFICES ASSUME Waiting(d, overtaken')
             PROVE  \E u \in Threads : AtTail(u, x, f)'
  BY DEF PendingAt, AtTail
<1>1. Waiting(d, overtaken) /\ x \notin overtaken'
  BY DEF Waiting
<1>2. PICK u \in Threads : AtTail(u, x, f)
  BY <1>1 DEF PendingAt
<1>3. line[u] = x /\ AtTail(u, line[u], f)
  BY <1>2 DEF AtTail
<1> QED BY <1>1, <1>3 DEF StillAtTail, AtTail

LEMMA CutPending ==
  ASSUME Base, ContentsWhole, Pending, NEW l \in Loggers, NEW f \in Files,
         logger[l].file = f, NEW c \in Seq(Piece), CutShort(f, c),
         Len(Contents(f)) <= Len(c), \A i \in 1..Len(Contents(f)) : c[i] = Contents(f)[i],
         overtaken \subseteq overtaken', InHand(l) \subseteq overtaken'
  PROVE  PendingAt(f)'
<1> DEFINE d == Contents(f)
           m == Len(disk[f])
<1>1. d \in Seq(Piece) /\ Len(d) \in Nat /\ Len(c) \in Nat /\ m \in 0..Len(d)
  BY ContentsOf, DiskIsFirst, LenProperties DEF ContentsAre
<1>2. PICK n \in m..Len(c) : Becomes(f, SubSeq(c, 1, n))
  BY DEF CutShort
<1>3. \A i \in m + 1..Len(c) : c[i].line \in overtaken'
  BY DEF CutShort
<1> HIDE DEF m, d
<1>4. n \in Nat /\ n <= Len(c) /\ \A i \in 1..n : c[i] \in Piece
  <2>1. n \in Nat /\ n <= Len(c)
    BY <1>1
  <2> QED BY <1>1, <2>1, ElementOfSeq
<1>5. Len(SubSeq(c, 1, n)) = n /\ \A i \in 1..n : SubSeq(c, 1, n)[i] = c[i]
  BY <1>4, SubSeqProperties
<1>6. Contents(f)' = SubSeq(c, 1, n)
  BY <1>2 DEF Becomes
<1>7. SUFFICES ASSUME Waiting(SubSeq(c, 1, n), overtaken') PROVE FALSE
  BY <1>6 DEF PendingAt
<1>8. n > 0 /\ c[n].part = "head" /\ c[n].line \notin overtaken'
  BY <1>4, <1>5, <1>7 DEF Waiting
<1>9. n = m
  BY <1>1, <1>3, <1>4, <1>8
<1>10. n \in 1..Len(d) /\ c[n] = d[n] /\ d[n].line \notin overtaken
  BY <1>1, <1>8, <1>9 DEF d
<1>11. CASE n < Len(d)
  <2>1. n + 1 \in 1..Len(d) /\ n + 1 \in m + 1..Len(c)
    BY <1>1, <1>4, <1>9, <1>10, <1>11 DEF d
  <2>2. d[n + 1] = TailOf(d[n].line)
    BY <1>8, <1>10, <1>11 DEF ContentsWhole, Whole, d
  <2>3. c[n + 1].line = c[n].line
    BY <1>10, <2>1, <2>2, PieceFacts DEF d
  <2> QED BY <1>3, <1>8, <2>1, <2>3
<1>12. CASE n = Len(d)
  <2>1. Waiting(d, overtaken)
    BY <1>1, <1>8, <1>10, <1>12 DEF Waiting
  <2>2. PICK u \in Threads : AtTail(u, d[Len(d)].line, f)
    BY <2>1 DEF Pending, PendingAt, d
  <2>3. at[u] = l
    BY <2>2, LoggerAssumption DEF AtTail, Base, TypeOK, FilesApart
  <2>4. line[u] \in InHand(l)
    BY <2>2, <2>3, InHandOf DEF InCall, AtTail
  <2> QED BY <1>8, <1>10, <1>12, <2>2, <2>4 DEF AtTail
<1> QED BY <1>1, <1>10, <1>11, <1>12

LEMMA PendingStep ==
  ASSUME Base, ContentsWhole, Pending, CallsReach, Next, Up'
  PROVE  Pending'
<1>1. Base'
  BY BaseStep
<1>2. /\ \A t \in Threads : at[t] \in Loggers
      /\ pc \in [Threads -> {"idle", "check", "lock", "head", "tail", "flush", "print"}]
  BY DEF Base, TypeOK
<1>3. ASSUME NEW t \in Threads, NEW part \in Parts, WriteHead(t) \/ WriteTail(t),
             Put(t, part), pc[t] = part, pc'[t] = "tail" => part = "head",
             pc'[t] # pc[t]
      PROVE  Pending'
  <2>1. PICK p \in Piece : p = PieceOf(t, part)
    BY <1>3 DEF PieceOf, Piece, Parts, Base, Calls, InCall
  <2>2. p.line = line[t] /\ p.part = part
    BY <2>1 DEF PieceOf
  <2>3. InCall(t) /\ overtaken \subseteq overtaken' /\ SameSettings
    BY <1>3, PutEffect DEF InCall, Parts, StreamBase
  <2>4. /\ UNCHANGED <<line, at>> /\ \A u \in Threads \ {t} : pc'[u] = pc[u]
    BY <1>2, <1>3 DEF WriteHead, WriteTail
  <2>5. ASSUME NEW g \in Files, logger[at[t]].file # g, Contents(g)' = Contents(g)
        PROVE  PendingAt(g)'
    <3>1. StillAtTail(g)
      BY <1>2, <2>3, <2>4, <2>5 DEF StillAtTail, AtTail, SameSettings
    <3> QED BY <2>3, <2>5, <3>1, SamePending DEF Pending
  <2>6. CASE Dropped(t)
    <3> SUFFICES ASSUME NEW g \in Files, logger[at[t]].file = g PROVE PendingAt(g)'
      BY <2>5, <2>6 DEF Pending, Dropped, SameContents
    <3>1. line[t] \in overtaken'
      BY <2>6, LoggerAssumption DEF Dropped
    <3>2. StillAtTail(g)
      BY <1>2, <2>3, <2>4, <3>1 DEF StillAtTail, AtTail, SameSettings
    <3> QED BY <2>3, <2>6, <3>2, SamePending DEF Pending, Dropped, SameContents
  <2>7. ASSUME NEW f \in Files, logger[at[t]].file = f, Taken(t, f, p)
        PROVE  Pending'
    <3>1. Contents(f)' = Append(Contents(f), p)
      BY <2>7 DEF Taken, Becomes
    <3>2. Contents(f) \in Seq(Piece)
      BY ContentsOf DEF ContentsAre
    <3>3. Contents(f)'[Len(Contents(f)')] = p
      BY <3>1, <3>2, AppendProperties
    <3>4. PendingAt(f)'
      <4>1. CASE part = "head"
        <5>1. pc'[t] = "tail"
          BY <1>3, <4>1 DEF WriteHead, WriteTail, Base, TypeOK
        <5>2. AtTail(t, p.line, f)'
          BY <1>2, <2>2, <2>3, <2>4, <2>7, <5>1 DEF AtTail, SameSettings
        <5> QED BY <3>3, <5>2 DEF PendingAt, AtTail
      <4>2. CASE part = "tail"
        BY <2>2, <3>3, <4>2 DEF PendingAt, Waiting
      <4> QED BY <4>1, <4>2 DEF Parts
    <3> SUFFICES ASSUME NEW g \in Files \ {f} PROVE PendingAt(g)'
      BY <3>4 DEF Pending
    <3> QED BY <2>5, <2>7 DEF Taken, Becomes
  <2>8. ASSUME NEW f \in Files, logger[at[t]].file = f,
               Failed(t, f, Append(Contents(f), p))
        PROVE  Pending'
    <3> DEFINE c == Append(Contents(f), p)
    <3>1. /\ c \in Seq(Piece) /\ Len(Contents(f)) <= Len(c)
          /\ \A i \in 1..Len(Contents(f)) : c[i] = Contents(f)[i]
      <4>1. Contents(f) \in Seq(Piece) /\ Len(Contents(f)) \in Nat
        BY ContentsOf, LenProperties DEF ContentsAre
      <4> QED BY <4>1, AppendProperties
    <3>2. PendingAt(f)'
      BY <1>2, <2>3, <2>8, <3>1, CutPending DEF Failed
    <3> SUFFICES ASSUME NEW g \in Files \ {f} PROVE PendingAt(g)'
      BY <3>2 DEF Pending
    <3> QED BY <2>5, <2>8 DEF Failed, CutShort, Becomes
  <2>9. \/ Dropped(t)
        \/ \E f \in Files : /\ logger[at[t]].file = f
                            /\ Taken(t, f, p) \/ Failed(t, f, Append(Contents(f), p))
    BY <1>1, <1>3, <2>1, <2>3, PutEffect
  <2> QED BY <2>6, <2>7, <2>8, <2>9
<1>4. ASSUME NEW t \in Threads, WriteHead(t) PROVE Pending'
  <2>1. Put(t, "head") /\ "head" \in Parts /\ pc[t] = "head" /\ pc'[t] = "tail"
    BY <1>2, <1>4 DEF WriteHead, Parts
  <2> QED BY <1>3, <1>4, <2>1
<1>5. ASSUME NEW t \in Threads, WriteTail(t) PROVE Pending'
  <2>1. /\ Put(t, "tail") /\ "tail" \in Parts /\ pc[t] = "tail"
        /\ pc'[t] \in {"flush", "print"}
    BY <1>2, <1>5 DEF WriteTail, Parts
  <2> QED BY <1>3, <1>5, <2>1
<1>6. ASSUME NEW t \in Threads, Flush(t) PROVE Pending'
  <2>1. overtaken \subseteq overtaken' /\ SameSettings
    BY <1>6, FlushEffect DEF StreamBase
  <2>2. \A g \in Files : StillAtTail(g)
    BY <1>2, <1>6, <2>1 DEF Flush, StillAtTail, AtTail, SameSettings
  <2>3. CASE SameContents
    BY <2>1, <2>2, <2>3, SamePending DEF Pending, SameContents
  <2>4. ASSUME NEW f \in Files, logger[at[t]].file = f, Failed(t, f, Contents(f))
        PROVE  Pending'
    <3>1. Contents(f) \in Seq(Piece) /\ Len(Contents(f)) \in Nat
      BY ContentsOf, LenProperties DEF ContentsAre
    <3>2. PendingAt(f)'
      BY <1>2, <2>1, <2>4, <3>1, CutPending DEF Failed
    <3> SUFFICES ASSUME NEW g \in Files \ {f} PROVE PendingAt(g)'
      BY <3>2 DEF Pending
    <3>3. Contents(g)' = Contents(g)
      BY <2>4 DEF Failed, CutShort, Becomes
    <3> QED BY <2>1, <2>2, <3>3, SamePending DEF Pending
  <2> QED BY <1>1, <1>6, <2>3, <2>4, FlushEffect
<1>7. CASE CloseFile
  <2> DEFINE l == ask[1].to
  <2>1. l \in Loggers /\ ask # <<>>
    BY <1>7, LoggerAssumption DEF CloseFile, AskAt, Base, TypeOK, Ask
  <2>2. overtaken \subseteq overtaken'
    BY <1>7, CloseFileEffect
  <2>3. \A u \in Threads : pc[u] = "tail" /\ at[u] = l => line[u] \in overtaken
    BY <2>1 DEF Base, Calls, InCall
  <2>4. /\ UNCHANGED <<pc, line, at>>
        /\ \A m \in Loggers \ {l} : logger'[m] = logger[m]
    BY <1>7 DEF CloseFile, threads, Base, TypeOK
  <2>5. \A g \in Files : StillAtTail(g)
    BY <1>2, <2>2, <2>3, <2>4 DEF StillAtTail, AtTail
  <2>6. CASE SameContents
    BY <2>2, <2>5, <2>6, SamePending DEF Pending, SameContents
  <2>7. ASSUME NEW f \in Files, logger[l].file = f, CutShort(f, Contents(f)),
               InHand(l) \subseteq overtaken'
        PROVE  Pending'
    <3>1. Contents(f) \in Seq(Piece) /\ Len(Contents(f)) \in Nat
      BY ContentsOf, LenProperties DEF ContentsAre
    <3>2. PendingAt(f)'
      BY <2>1, <2>2, <2>7, <3>1, CutPending
    <3> SUFFICES ASSUME NEW g \in Files \ {f} PROVE PendingAt(g)'
      BY <3>2 DEF Pending
    <3>3. Contents(g)' = Contents(g)
      BY <2>7 DEF CutShort, Becomes
    <3> QED BY <2>2, <2>5, <3>3, SamePending DEF Pending
  <2> QED BY <1>7, <2>6, <2>7, CloseFileEffect
<1>8. CASE OpenFile
  <2>1. SameContents /\ UNCHANGED overtaken
    BY <1>8, OpenFileEffect
  <2>2. /\ UNCHANGED <<pc, line, at>> /\ logger[ask[1].to].file = NoFile
        /\ \A m \in Loggers \ {ask[1].to} : logger'[m] = logger[m]
    BY <1>8 DEF OpenFile, threads, Base, TypeOK, FilesApart, AskAt
  <2>3. \A g \in Files : StillAtTail(g)
    BY <1>2, <2>2, LoggerAssumption DEF StillAtTail, AtTail
  <2> QED BY <2>1, <2>3, SamePending DEF Pending, SameContents
<1>9. CASE (\E t \in Threads : Calm(t)) \/ CalmAsk
  <2>1. SameContents /\ SameFiles /\ overtaken \subseteq overtaken'
    BY <1>9, CalmEffect
  <2>2. \A g \in Files : StillAtTail(g)
    <3>1. \A u \in Threads : pc[u] = "tail" =>
            pc'[u] = "tail" /\ line'[u] = line[u] /\ at'[u] = at[u]
      <4>1. ASSUME NEW t \in Threads, Calm(t), NEW u \in Threads, pc[u] = "tail"
            PROVE  pc'[u] = "tail" /\ line'[u] = line[u] /\ at'[u] = at[u]
        BY <4>1 DEF Calm, Begin, CheckLevel, Lock, PrintAndReturn, Base, TypeOK
      <4>2. ASSUME CalmAsk PROVE UNCHANGED <<pc, line, at>>
        BY <4>2 DEF CalmAsk, AcceptRealLogger, SettingsCall, SetLevel, SetPrint, threads
      <4> QED BY <1>9, <4>1, <4>2
    <3> QED BY <1>2, <2>1, <3>1 DEF StillAtTail, AtTail, SameFiles
  <2> QED BY <2>1, <2>2, SamePending DEF Pending, SameContents
<1>10. CASE Exit \/ Kill
  BY <1>10 DEF Exit, Kill, End, Up
<1> QED BY <1>4, <1>5, <1>6, <1>7, <1>8, <1>9, <1>10
        DEF Next, LogStep, AskStep, Calm, CalmAsk
-----------------------------------------------------------------------------
(* What the files keep, and what is new in them.                           *)

\* A line that nothing disturbs stays in the contents of its file.
Survive ==
  \A f \in Files : \A x : x \notin overtaken' /\ Holds(Contents(f), x)
                            => Holds(Contents(f)', x)

OnlyNew(P) ==
  \A f \in Files : \A i \in DOMAIN Contents(f)' :
    \/ Contents(f)'[i] \in P
    \/ \E j \in DOMAIN Contents(f) : Contents(f)[j] = Contents(f)'[i]

LEMMA HoldsMeans ==
  ASSUME NEW d \in Seq(Piece), NEW x
  PROVE  Holds(d, x) <=> /\ \E i \in 1..Len(d) : d[i] = HeadOf(x)
                         /\ \E i \in 1..Len(d) : d[i] = TailOf(x)
<1>1. DOMAIN d = 1..Len(d)
  BY LenProperties
<1> QED BY <1>1 DEF Holds, ToSet

LEMMA SameLeaves ==
  ASSUME SameContents
  PROVE  Survive /\ OnlyNew({})
BY DEF SameContents, Survive, OnlyNew

LEMMA TakenLeaves ==
  ASSUME Base, NEW f \in Files, NEW p \in Piece, Becomes(f, Append(Contents(f), p))
  PROVE  Survive /\ OnlyNew({p})
<1> DEFINE d == Contents(f)
<1>1. d \in Seq(Piece) /\ Len(d) \in Nat /\ DOMAIN d = 1..Len(d)
  BY ContentsOf, LenProperties DEF ContentsAre
<1>2. /\ Append(d, p) \in Seq(Piece) /\ Len(Append(d, p)) = Len(d) + 1
      /\ \A i \in 1..Len(d) : Append(d, p)[i] = d[i]
      /\ Append(d, p)[Len(d) + 1] = p
      /\ DOMAIN Append(d, p) = 1..Len(d) + 1
  BY <1>1, AppendProperties, LenProperties
<1>3. Contents(f)' = Append(d, p) /\ \A g \in Files \ {f} : Contents(g)' = Contents(g)
  BY DEF Becomes
<1>4. ASSUME NEW x, Holds(d, x) PROVE Holds(Append(d, p), x)
  <2>1. \A i \in 1..Len(d) : i \in 1..Len(Append(d, p))
    BY <1>1, <1>2
  <2> QED BY <1>1, <1>2, <1>4, <2>1, HoldsMeans
<1>5. Survive
  BY <1>3, <1>4 DEF Survive
<1>6. \A i \in DOMAIN Append(d, p) : Append(d, p)[i] = p
                                      \/ \E j \in DOMAIN d : d[j] = Append(d, p)[i]
  BY <1>1, <1>2
<1>7. OnlyNew({p})
  BY <1>3, <1>6 DEF OnlyNew
<1> QED BY <1>5, <1>7

LEMMA CutLeaves ==
  ASSUME Base, NEW f \in Files, NEW c \in Seq(Piece), CutShort(f, c), NEW P,
         Len(Contents(f)) <= Len(c), \A i \in 1..Len(Contents(f)) : c[i] = Contents(f)[i],
         \A i \in Len(Contents(f)) + 1..Len(c) : c[i] \in P
  PROVE  Survive /\ OnlyNew(P)
<1> DEFINE d == Contents(f)
           m == Len(disk[f])
<1>1. d \in Seq(Piece) /\ Len(d) \in Nat /\ Len(c) \in Nat /\ m \in 0..Len(d)
      /\ DOMAIN d = 1..Len(d)
  BY ContentsOf, DiskIsFirst, LenProperties DEF ContentsAre
<1>2. PICK n \in m..Len(c) : Becomes(f, SubSeq(c, 1, n))
  BY DEF CutShort
<1>3. \A i \in m + 1..Len(c) : c[i].line \in overtaken'
  BY DEF CutShort
<1>4. \A i \in 1..Len(d) : i \in 1..Len(c) /\ c[i] = d[i]
  BY <1>1
<1>5. \A i \in Len(d) + 1..Len(c) : c[i] \in P
  OBVIOUS
<1> HIDE DEF m
<1>6. n \in Nat /\ n <= Len(c) /\ \A i \in 1..n : c[i] \in Piece
  <2>1. n \in Nat /\ n <= Len(c)
    BY <1>1
  <2> QED BY <1>1, <2>1, ElementOfSeq
<1> DEFINE e == SubSeq(c, 1, n)
<1>7. /\ e \in Seq(Piece) /\ Len(e) = n /\ DOMAIN e = 1..n
      /\ \A i \in 1..n : e[i] = c[i]
  BY <1>6, SubSeqProperties, LenProperties
<1>8. Contents(f)' = e /\ \A g \in Files \ {f} : Contents(g)' = Contents(g)
  BY <1>2 DEF Becomes
<1> HIDE DEF e, d
<1>9. ASSUME NEW x, x \notin overtaken', Holds(d, x) PROVE Holds(e, x)
  <2>1. ASSUME NEW i \in 1..Len(d), d[i].line = x PROVE i \in 1..n /\ e[i] = d[i]
    <3>1. c[i].line \notin overtaken' /\ i \in 1..Len(c)
      BY <1>4, <1>9, <2>1
    <3>2. i <= m
      BY <1>1, <1>3, <3>1
    <3>3. i \in 1..n
      BY <1>1, <1>6, <3>2
    <3> QED BY <1>4, <1>7, <3>3
  <2>2. PICK i \in 1..Len(d) : d[i] = HeadOf(x)
    BY <1>1, <1>9, HoldsMeans
  <2>3. PICK j \in 1..Len(d) : d[j] = TailOf(x)
    BY <1>1, <1>9, HoldsMeans
  <2>4. i \in 1..n /\ e[i] = HeadOf(x) /\ j \in 1..n /\ e[j] = TailOf(x)
    BY <2>1, <2>2, <2>3, PieceFacts
  <2> QED BY <1>7, <2>4, HoldsMeans
<1>10. Survive
  BY <1>8, <1>9 DEF Survive, d
<1>11. \A i \in DOMAIN e : e[i] \in P \/ \E j \in DOMAIN d : d[j] = e[i]
  <2> SUFFICES ASSUME NEW i \in 1..n PROVE e[i] \in P \/ \E j \in DOMAIN d : d[j] = e[i]
    BY <1>7
  <2>1. CASE i <= Len(d)
    <3>1. i \in 1..Len(d)
      BY <2>1
    <3> QED BY <1>1, <1>4, <1>7, <3>1
  <2>2. CASE i > Len(d)
    <3>1. i \in Len(d) + 1..Len(c)
      BY <1>1, <1>6, <2>2
    <3> QED BY <1>5, <1>7, <3>1
  <2> QED BY <1>1, <2>1, <2>2
<1>12. OnlyNew(P)
  BY <1>8, <1>11 DEF OnlyNew, d
<1> QED BY <1>10, <1>12

\* What a step of t that writes p leaves.
LEMMA WriteLeaves ==
  ASSUME Base, NEW t \in Threads, NEW p \in Piece,
         \/ Dropped(t)
         \/ \E f \in Files : /\ logger[at[t]].file = f
                             /\ Taken(t, f, p) \/ Failed(t, f, Append(Contents(f), p))
  PROVE  Survive /\ OnlyNew({p})
<1>1. CASE Dropped(t)
  BY <1>1, SameLeaves DEF Dropped, OnlyNew
<1>2. ASSUME NEW f \in Files, Taken(t, f, p) PROVE Survive /\ OnlyNew({p})
  BY <1>2, TakenLeaves DEF Taken
<1>3. ASSUME NEW f \in Files, Failed(t, f, Append(Contents(f), p))
      PROVE  Survive /\ OnlyNew({p})
  <2> DEFINE c == Append(Contents(f), p)
  <2>1. Contents(f) \in Seq(Piece) /\ Len(Contents(f)) \in Nat
    BY ContentsOf, LenProperties DEF ContentsAre
  <2>2. /\ c \in Seq(Piece) /\ Len(c) = Len(Contents(f)) + 1
        /\ \A i \in 1..Len(Contents(f)) : c[i] = Contents(f)[i]
        /\ c[Len(Contents(f)) + 1] = p
    BY <2>1, AppendProperties
  <2>3. CutShort(f, c)
    BY <1>3 DEF Failed
  <2> HIDE DEF c
  <2>4. \A i \in Len(Contents(f)) + 1..Len(c) : c[i] \in {p}
    BY <2>1, <2>2
  <2> QED BY <2>1, <2>2, <2>3, <2>4, CutLeaves
<1> QED BY <1>1, <1>2, <1>3

LEMMA OwnCutLeaves ==
  ASSUME Base, NEW f \in Files, CutShort(f, Contents(f))
  PROVE  Survive /\ OnlyNew({})
<1>1. Contents(f) \in Seq(Piece) /\ Len(Contents(f)) \in Nat
  BY ContentsOf, LenProperties DEF ContentsAre
<1>2. \A i \in Len(Contents(f)) + 1..Len(Contents(f)) : Contents(f)[i] \in {}
  BY <1>1
<1> QED BY <1>1, <1>2, CutLeaves

\* The steps that write nothing new.
Silent == \/ \E t \in Threads : Calm(t) \/ Flush(t)
          \/ CalmAsk \/ CloseFile \/ OpenFile \/ Exit

LEMMA SilentLeaves ==
  ASSUME Base, Silent
  PROVE  Survive /\ OnlyNew({}) /\ overtaken \subseteq overtaken'
<1>0. ASSUME NEW t \in Threads, Flush(t) PROVE Base'
  BY <1>0, BaseStep DEF Next, LogStep
<1>1. ASSUME NEW t \in Threads, Flush(t)
      PROVE  Survive /\ OnlyNew({}) /\ overtaken \subseteq overtaken'
  <2>1. overtaken \subseteq overtaken'
    BY <1>1, FlushEffect DEF StreamBase
  <2> QED BY <1>0, <1>1, <2>1, FlushEffect, SameLeaves, OwnCutLeaves DEF Failed
<1>2. CASE CloseFile
  BY <1>2, CloseFileEffect, SameLeaves, OwnCutLeaves
<1>3. CASE OpenFile
  BY <1>3, OpenFileEffect, SameLeaves
<1>4. CASE (\E t \in Threads : Calm(t)) \/ CalmAsk
  BY <1>4, CalmEffect, SameLeaves
<1>5. CASE Exit
  <2>1. disk' = [f \in Files |-> Contents(f)] /\ End("exited") /\ UNCHANGED overtaken
    BY <1>5 DEF Exit, End, troubles
  <2>2. disk' \in [Files -> Seq(Piece)]
    BY <2>1, ContentsOf DEF ContentsAre
  <2>3. SameContents
    BY <2>1, <2>2, EndBase DEF SameContents
  <2> QED BY <2>1, <2>3, SameLeaves
<1> QED BY <1>1, <1>2, <1>3, <1>4, <1>5 DEF Silent

LEMMA HeadLeaves ==
  ASSUME Base, NEW t \in Threads, WriteHead(t)
  PROVE  Survive /\ OnlyNew({HeadOf(line[t])}) /\ overtaken \subseteq overtaken'
<1>1. /\ Base' /\ InCall(t) /\ "head" \in Parts /\ Put(t, "head") /\ line[t] \in Line
  BY BaseStep DEF WriteHead, Next, LogStep, InCall, Parts, Base, Calls
<1>2. PieceOf(t, "head") = HeadOf(line[t]) /\ HeadOf(line[t]) \in Piece
  BY <1>1 DEF PieceOf, HeadOf, Piece
<1> QED BY <1>1, <1>2, PutEffect, WriteLeaves DEF StreamBase

LEMMA TailLeaves ==
  ASSUME Base, NEW t \in Threads, WriteTail(t)
  PROVE  Survive /\ OnlyNew({TailOf(line[t])}) /\ overtaken \subseteq overtaken'
<1>1. /\ Base' /\ InCall(t) /\ "tail" \in Parts /\ Put(t, "tail") /\ line[t] \in Line
  BY BaseStep DEF WriteTail, Next, LogStep, InCall, Parts, Base, Calls
<1>2. PieceOf(t, "tail") = TailOf(line[t]) /\ TailOf(line[t]) \in Piece
  BY <1>1 DEF PieceOf, TailOf, Piece
<1> QED BY <1>1, <1>2, PutEffect, WriteLeaves DEF StreamBase
-----------------------------------------------------------------------------
(* How far the lines have got.                                             *)

PCs == {"idle", "check", "lock", "head", "tail", "flush", "print"}

\* What has passed stays so, and a piece is numbered while its thread goes on.
LEMMA PastStep ==
  ASSUME Base, Next, Up', NEW x \in Line, Past(x)
  PROVE  Past(x)'
<1> DEFINE u == x.by
<1>1. u \in Threads /\ x.n \in Nat /\ lines \in [Threads -> Nat] /\ pc \in [Threads -> PCs]
  BY DEF Line, Base, TypeOK, PCs
<1>2. ASSUME NEW t \in Threads, Begin(t) PROVE Past(x)'
  <2>1. /\ lines' = [lines EXCEPT ![t] = @ + 1] /\ pc' = [pc EXCEPT ![t] = "check"]
    BY <1>2 DEF Begin
  <2>2. x.n <= lines[u] /\ (u # t /\ pc[u] # "idle" => x.n < lines[u])
    BY DEF Past, InCall
  <2>3. CASE u = t
    BY <1>1, <2>1, <2>2, <2>3 DEF Past, InCall
  <2>4. CASE u # t
    BY <1>1, <2>1, <2>2, <2>4 DEF Past, InCall
  <2> QED BY <2>3, <2>4
<1>3. ASSUME NEW t \in Threads, LogStep(t) PROVE Past(x)'
  <2>1. /\ UNCHANGED lines /\ InCall(t)
        /\ \E next \in PCs : pc' = [pc EXCEPT ![t] = next]
    BY <1>3 DEF LogStep, CheckLevel, Lock, WriteHead, WriteTail, Flush, PrintAndReturn,
                PCs, InCall
  <2> QED BY <1>1, <2>1 DEF Past, InCall
<1>4. CASE ~(\E t \in Threads : Begin(t) \/ LogStep(t))
  <2>1. UNCHANGED <<pc, lines>>
    BY <1>4 DEF Next, AskStep, AcceptRealLogger, SettingsCall, CloseFile, OpenFile,
                SetLevel, SetPrint, Exit, Kill, End, Up, threads
  <2> QED BY <2>1 DEF Past, InCall
<1> QED BY <1>2, <1>3, <1>4

LEMMA PieceStep ==
  ASSUME Base, Next, Up', NEW p \in Piece, PieceNumbered(p)
  PROVE  PieceNumbered(p)'
<1> DEFINE u == p.line.by
<1>1. /\ p.line \in Line /\ u \in Threads /\ p.line.n \in Nat
      /\ lines \in [Threads -> Nat] /\ pc \in [Threads -> PCs]
  BY DEF Piece, Line, Base, TypeOK, PCs
<1>2. CASE Past(p.line)
  BY <1>1, <1>2, PastStep DEF PieceNumbered
<1>3. CASE /\ p.line.n = lines[u]
           /\ \/ pc[u] = "tail" /\ p = HeadOf(line[u])
              \/ pc[u] \in {"flush", "print"}
  <2>1. CASE \E t \in Threads : Begin(t)
    <3>1. PICK t \in Threads : Begin(t)
      BY <2>1
    <3>2. u # t
      BY <1>3, <3>1 DEF Begin
    <3>3. lines'[u] = lines[u] /\ pc'[u] = pc[u] /\ line'[u] = line[u]
      BY <1>1, <3>1, <3>2 DEF Begin, Base, TypeOK
    <3> QED BY <1>3, <3>3 DEF PieceNumbered
  <2>2. ASSUME NEW t \in Threads, LogStep(t) PROVE PieceNumbered(p)'
    <3>1. /\ UNCHANGED <<line, lines>>
          /\ \A v \in Threads \ {t} : pc'[v] = pc[v]
      BY <1>1, <2>2 DEF LogStep, CheckLevel, Lock, WriteHead, WriteTail, Flush,
                         PrintAndReturn
    <3>2. CASE u # t
      BY <1>1, <1>3, <3>1, <3>2 DEF PieceNumbered
    <3>3. CASE u = t /\ WriteTail(t)
      <4>1. pc'[t] \in {"flush", "print"}
        BY <1>1, <3>3 DEF WriteTail
      <4> QED BY <1>3, <3>1, <3>3, <4>1 DEF PieceNumbered
    <3>4. CASE u = t /\ Flush(t)
      <4>1. pc'[t] = "print"
        BY <1>1, <3>4 DEF Flush
      <4> QED BY <1>3, <3>1, <3>4, <4>1 DEF PieceNumbered
    <3>5. CASE u = t /\ PrintAndReturn(t)
      <4>1. pc'[t] = "idle"
        BY <1>1, <3>5 DEF PrintAndReturn
      <4> QED BY <1>1, <1>3, <3>1, <3>5, <4>1 DEF PieceNumbered, Past, InCall
    <3>6. u = t => pc[t] \in {"tail", "flush", "print"}
      BY <1>3
    <3> QED BY <2>2, <3>2, <3>3, <3>4, <3>5, <3>6 DEF LogStep, CheckLevel, Lock, WriteHead
  <2>3. CASE ~(\E t \in Threads : Begin(t) \/ LogStep(t))
    <3>1. UNCHANGED <<pc, line, lines>>
      BY <2>3 DEF Next, AskStep, AcceptRealLogger, SettingsCall, CloseFile, OpenFile,
                  SetLevel, SetPrint, Exit, Kill, End, Up, threads
    <3> QED BY <1>3, <3>1 DEF PieceNumbered
  <2> QED BY <2>1, <2>2, <2>3
<1> QED BY <1>2, <1>3 DEF PieceNumbered

LEMMA NumberedPieces ==
  ASSUME Base, Next, Up', Numbered, NEW P, OnlyNew(P), \A p \in P : PieceNumbered(p)'
  PROVE  \A f \in Files : \A i \in DOMAIN Contents(f)' : PieceNumbered(Contents(f)[i])'
<1> SUFFICES ASSUME NEW f \in Files, NEW i \in DOMAIN Contents(f)'
             PROVE  PieceNumbered(Contents(f)[i])'
  OBVIOUS
<1>1. PICK q : q = Contents(f)'[i]
  OBVIOUS
<1>2. SUFFICES PieceNumbered(q)'
  BY <1>1
<1>3. CASE q \in P
  BY <1>3
<1>4. CASE \E j \in DOMAIN Contents(f) : Contents(f)[j] = q
  <2>1. PICK j \in DOMAIN Contents(f) : Contents(f)[j] = q
    BY <1>4
  <2>2. PieceNumbered(q)
    BY <2>1 DEF Numbered
  <2>3. q \in Piece
    <3>1. Contents(f) \in Seq(Piece)
      BY ContentsOf DEF ContentsAre
    <3> QED BY <2>1, <3>1, ElementOfSeq, LenProperties
  <2> QED BY <2>2, <2>3, PieceStep
<1> QED BY <1>1, <1>3, <1>4 DEF OnlyNew

\* What any step but the kill leaves and adds.
LEMMA StepLeaves ==
  ASSUME Base, Next
  PROVE  /\ overtaken \subseteq overtaken'
         /\ \/ Kill
            \/ Survive /\ OnlyNew({})
            \/ \E t \in Threads :
                 /\ Survive
                 /\ \/ WriteHead(t) /\ OnlyNew({HeadOf(line[t])})
                    \/ WriteTail(t) /\ OnlyNew({TailOf(line[t])})
<1>1. CASE Silent
  BY <1>1, SilentLeaves
<1>2. ASSUME NEW t \in Threads, WriteHead(t)
      PROVE  Survive /\ OnlyNew({HeadOf(line[t])}) /\ overtaken \subseteq overtaken'
  BY <1>2, HeadLeaves
<1>3. ASSUME NEW t \in Threads, WriteTail(t)
      PROVE  Survive /\ OnlyNew({TailOf(line[t])}) /\ overtaken \subseteq overtaken'
  BY <1>3, TailLeaves
<1>4. CASE Kill
  BY <1>4 DEF Kill, End, troubles
<1>5. \/ Silent \/ Kill \/ \E t \in Threads : WriteHead(t) \/ WriteTail(t)
  BY DEF Next, LogStep, AskStep, Silent, Calm, CalmAsk
<1> QED BY <1>1, <1>2, <1>3, <1>4, <1>5

\* The call of t has returned: its line is past.
LEMMA Returned ==
  ASSUME Base, NEW t \in Threads, InCall(t), pc' = [pc EXCEPT ![t] = "idle"],
         UNCHANGED lines, NEW x, x = line[t]
  PROVE  x \in Line /\ Past(x)'
<1>1. x \in Line /\ x.by = t /\ x.n = lines[t]
  BY DEF Base, Calls
<1>2. pc'[t] = "idle" /\ lines[t] \in Nat /\ lines' = lines
  BY DEF Base, TypeOK
<1> QED BY <1>1, <1>2 DEF Past, InCall

\* A line is told when its call returns.
LEMMA NewlyTold ==
  ASSUME Next
  PROVE  \/ told' = told
         \/ \E t \in Threads : /\ CheckLevel(t) \/ PrintAndReturn(t)
                               /\ pc' = [pc EXCEPT ![t] = "idle"]
                               /\ told' = told \cup {Told(t)}
BY DEF Next, LogStep, AskStep, Begin, CheckLevel, Lock, WriteHead, WriteTail, Flush,
       PrintAndReturn, AcceptRealLogger, SettingsCall, CloseFile, OpenFile,
       SetLevel, SetPrint, Exit, Kill, End

LEMMA NewlyShown ==
  ASSUME Next
  PROVE  \/ shown' = shown
         \/ \E t \in Threads : PrintAndReturn(t) /\ shown' = shown \cup {line[t]}
BY DEF Next, LogStep, AskStep, Begin, CheckLevel, Lock, WriteHead, WriteTail, Flush,
       PrintAndReturn, AcceptRealLogger, SettingsCall, CloseFile, OpenFile,
       SetLevel, SetPrint, Exit, Kill, End

LEMMA NumberedStep ==
  ASSUME Base, Numbered, Next, Up'
  PROVE  Numbered'
<1>0. /\ pc \in [Threads -> PCs] /\ lines \in [Threads -> Nat]
      /\ line \in [Threads -> Line \cup {NoLine}]
  BY DEF Base, TypeOK, PCs
<1>1. \A f \in Files : \A i \in DOMAIN Contents(f)' : PieceNumbered(Contents(f)[i])'
  <2>1. ~Kill
    BY DEF Kill, End, Up
  <2>2. CASE OnlyNew({})
    BY <2>2, NumberedPieces
  <2>3. ASSUME NEW t \in Threads, WriteHead(t), OnlyNew({HeadOf(line[t])})
        PROVE  \A f \in Files : \A i \in DOMAIN Contents(f)' :
                  PieceNumbered(Contents(f)[i])'
    <3>1. /\ line[t].by = t /\ line[t].n = lines[t] /\ UNCHANGED <<line, lines>>
          /\ pc'[t] = "tail"
      BY <1>0, <2>3 DEF WriteHead, Base, Calls, InCall
    <3>2. ASSUME NEW p \in {HeadOf(line[t])} PROVE PieceNumbered(p)'
      BY <3>1, PieceFacts DEF PieceNumbered
    <3> QED BY <2>3, <3>2, NumberedPieces
  <2>4. ASSUME NEW t \in Threads, WriteTail(t), OnlyNew({TailOf(line[t])})
        PROVE  \A f \in Files : \A i \in DOMAIN Contents(f)' :
                  PieceNumbered(Contents(f)[i])'
    <3>1. /\ line[t].by = t /\ line[t].n = lines[t] /\ UNCHANGED <<line, lines>>
          /\ pc'[t] \in {"flush", "print"}
      BY <1>0, <2>4 DEF WriteTail, Base, Calls, InCall
    <3>2. ASSUME NEW p \in {TailOf(line[t])} PROVE PieceNumbered(p)'
      BY <3>1, PieceFacts DEF PieceNumbered
    <3> QED BY <2>4, <3>2, NumberedPieces
  <2> QED BY <2>1, <2>2, <2>3, <2>4, StepLeaves
<1>2. ASSUME NEW e \in told'
      PROVE  e.line \in Line /\ e.file \in Files \cup {NoFile} /\ Past(e.line)'
  <2>1. CASE e \in told
    BY <2>1, PastStep DEF Numbered
  <2>2. ASSUME NEW t \in Threads, e = Told(t), CheckLevel(t) \/ PrintAndReturn(t),
               pc' = [pc EXCEPT ![t] = "idle"]
        PROVE  e.line \in Line /\ e.file \in Files \cup {NoFile} /\ Past(e.line)'
    <3>1. e.line = line[t] /\ InCall(t) /\ UNCHANGED lines
      BY <2>2 DEF Told, CheckLevel, PrintAndReturn, InCall
    <3>2. e.file \in Files \cup {NoFile}
      BY <2>2 DEF Told, Base, TypeOK
    <3> QED BY <2>2, <3>1, <3>2, Returned
  <2>3. \/ told' = told
        \/ \E t \in Threads : /\ CheckLevel(t) \/ PrintAndReturn(t)
                              /\ pc' = [pc EXCEPT ![t] = "idle"]
                              /\ told' = told \cup {Told(t)}
    BY NewlyTold
  <2> QED BY <2>1, <2>2, <2>3
<1>3. ASSUME NEW x \in shown' PROVE Past(x)'
  <2>1. CASE x \in shown
    BY <2>1, PastStep DEF Numbered, Base, TypeOK
  <2>2. ASSUME NEW t \in Threads, PrintAndReturn(t), x = line[t] PROVE Past(x)'
    BY <2>2, Returned DEF PrintAndReturn, InCall
  <2>3. \/ shown' = shown
        \/ \E t \in Threads : PrintAndReturn(t) /\ shown' = shown \cup {line[t]}
    BY NewlyShown
  <2> QED BY <2>1, <2>2, <2>3
<1> QED BY <1>1, <1>2, <1>3 DEF Numbered

-----------------------------------------------------------------------------
(* The lines of the calls reach their files.                               *)

LEMMA NowhereStays ==
  ASSUME NEW P, OnlyNew(P), NEW x, \A p \in P : p.line # x, Nowhere(x)
  PROVE  Nowhere(x)'
BY DEF OnlyNew, Nowhere

\* A line its thread has not begun to write is nowhere.
LEMMA Unwritten ==
  ASSUME Numbered, NEW x, ~Past(x),
         x.n = lines[x.by] => pc[x.by] \notin {"tail", "flush", "print"}
  PROVE  Nowhere(x)
<1> SUFFICES ASSUME NEW f \in Files, NEW i \in DOMAIN Contents(f), Contents(f)[i].line = x
             PROVE  FALSE
  BY DEF Nowhere
<1>1. PieceNumbered(Contents(f)[i])
  BY DEF Numbered
<1> QED BY <1>1 DEF PieceNumbered

\* A call that a step leaves where it was, and whose logger and file too.
LEMMA KeepReached ==
  ASSUME Base, Base', CallsReach, overtaken \subseteq overtaken', Survive,
         NEW u \in Threads, InCall(u), line[u] \notin overtaken',
         line'[u] = line[u], at'[u] = at[u], pc'[u] = pc[u],
         logger'[at[u]].lvl = logger[at[u]].lvl, logger'[at[u]].file = logger[at[u]].file,
         pc[u] = "print" => logger'[at[u]].buf = logger[at[u]].buf,
         \A f \in Files : pc[u] = "tail" /\ logger[at[u]].file = f
                            => Contents(f)' = Contents(f),
         NEW P, OnlyNew(P), \A p \in P : p.line # line[u]
  PROVE  Reached(u)'
<1>1. at[u] \in Loggers /\ logger[at[u]].file \in Files \cup {NoFile}
  BY DEF Base, TypeOK
<1> SUFFICES ASSUME NEW x, x = line[u], NEW l \in Loggers, l = at[u],
                    NEW f \in Files \cup {NoFile}, f = logger[l].file
             PROVE  ReachedIn(u, x, l, f)'
  BY <1>1 DEF Reached
<1>2. ReachedIn(u, x, l, f)
  BY DEF CallsReach, Reached
<1>3. logger'[l].lvl = logger[l].lvl /\ (pc[u] = "print" => logger'[l].buf = logger[l].buf)
  OBVIOUS
<1>4. pc[u] = "tail" => EndsWith(Contents(f), HeadOf(x))' 
  BY <1>2 DEF ReachedIn, EndsWith
<1>5. pc[u] \in {"flush", "print"} /\ f # NoFile => Holds(Contents(f), x)'
  BY <1>2 DEF ReachedIn, Survive
<1>6. pc[u] = "print" /\ f = NoFile => Nowhere(x)'
  BY <1>2, NowhereStays DEF ReachedIn
<1> QED BY <1>2, <1>3, <1>4, <1>5, <1>6 DEF ReachedIn

\* What a step of t at its stream leaves of the others.
StreamStep(t) == WriteHead(t) \/ WriteTail(t) \/ Flush(t)

LEMMA StreamStepLeaves ==
  ASSUME Base, NEW t \in Threads, StreamStep(t)
  PROVE  /\ SameSettings /\ pc[t] \in {"head", "tail", "flush"}
         /\ UNCHANGED <<line, at>> /\ \A u \in Threads \ {t} : pc'[u] = pc[u]
         /\ \A m \in Loggers \ {at[t]} : logger'[m] = logger[m]
         /\ \A g \in Files : logger[at[t]].file # g => Contents(g)' = Contents(g)
<1>1. Base'
  BY BaseStep DEF StreamStep, Next, LogStep
<1>2. ASSUME NEW part \in Parts, Put(t, part), InCall(t)
      PROVE  /\ SameSettings
             /\ \A m \in Loggers \ {at[t]} : logger'[m] = logger[m]
             /\ \A g \in Files : logger[at[t]].file # g => Contents(g)' = Contents(g)
  <2>1. /\ SameSettings
        /\ \A m \in Loggers \ {at[t]} : logger'[m] = logger[m]
        /\ \/ Dropped(t)
           \/ \E f \in Files :
                /\ logger[at[t]].file = f
                /\ \/ Taken(t, f, PieceOf(t, part))
                   \/ Failed(t, f, Append(Contents(f), PieceOf(t, part)))
    BY <1>1, <1>2, PutEffect DEF StreamBase
  <2> QED BY <2>1 DEF Dropped, SameContents, Taken, Failed, CutShort, Becomes
<1>3. CASE WriteHead(t) \/ WriteTail(t)
  <2>1. /\ InCall(t) /\ pc[t] \in {"head", "tail"} /\ UNCHANGED <<line, at>>
        /\ \A u \in Threads \ {t} : pc'[u] = pc[u]
        /\ \E part \in Parts : Put(t, part)
    BY <1>3 DEF WriteHead, WriteTail, InCall, Base, TypeOK, Parts
  <2> QED BY <1>2, <2>1
<1>4. CASE Flush(t)
  <2>1. /\ pc[t] = "flush" /\ UNCHANGED <<line, at>>
        /\ \A u \in Threads \ {t} : pc'[u] = pc[u]
    BY <1>4 DEF Flush, Base, TypeOK
  <2>2. /\ SameSettings
        /\ \A m \in Loggers \ {at[t]} : logger'[m] = logger[m]
        /\ \/ SameContents
           \/ \E f \in Files : /\ logger[at[t]].file = f
                               /\ Failed(t, f, Contents(f))
    BY <1>1, <1>4, FlushEffect DEF StreamBase
  <2> QED BY <2>1, <2>2 DEF SameContents, Failed, CutShort, Becomes
<1> QED BY <1>3, <1>4 DEF StreamStep

\* The calls of the other threads, after a step of t.
LEMMA OthersReach ==
  ASSUME Base, CallsReach, NEW t \in Threads, Begin(t) \/ LogStep(t),
         NEW u \in Threads \ {t}, InCall(u)', line'[u] \notin overtaken'
  PROVE  Reached(u)'
<1>1. Base' /\ Next
  BY BaseStep DEF Next
<1>2. /\ line \in [Threads -> Line \cup {NoLine}] /\ at \in [Threads -> Loggers]
      /\ pc \in [Threads -> PCs] /\ logger \in LoggerType
  BY DEF Base, TypeOK, PCs, LoggerType
<1>3. CASE StreamStep(t)
  <2>1. /\ SameSettings /\ pc[t] \in Writing
        /\ UNCHANGED <<line, at>> /\ \A v \in Threads \ {t} : pc'[v] = pc[v]
        /\ \A m \in Loggers \ {at[t]} : logger'[m] = logger[m]
        /\ \A g \in Files : logger[at[t]].file # g => Contents(g)' = Contents(g)
    BY <1>3, StreamStepLeaves DEF Writing
  <2>2. InCall(u) /\ line[u] \notin overtaken'
    BY <2>1 DEF InCall
  <2>3. line[t] # line[u]
    BY <2>1, <2>2 DEF Base, Calls, InCall, Writing
  <2>4. pc[u] \in Writing => at[u] # at[t]
    BY <2>1 DEF Base, Owned
  <2>5. \A f \in Files : pc[u] = "tail" /\ logger[at[u]].file = f
                           => Contents(f)' = Contents(f)
    BY <2>1, OneAtAFile DEF Writing
  <2>6. pc[u] = "print" => logger'[at[u]].buf = logger[at[u]].buf
    BY <1>2, <2>1, <2>4 DEF Writing
  <2>7. logger'[at[u]].lvl = logger[at[u]].lvl /\ logger'[at[u]].file = logger[at[u]].file
    BY <1>2, <2>1 DEF SameSettings
  <2>8. overtaken \subseteq overtaken' /\ Survive
    BY <1>3, SilentLeaves, HeadLeaves, TailLeaves DEF StreamStep, Silent
  <2>9. PICK P : OnlyNew(P) /\ \A p \in P : p.line = line[t]
    <3>1. OnlyNew({}) \/ OnlyNew({HeadOf(line[t])}) \/ OnlyNew({TailOf(line[t])})
      BY <1>3, SilentLeaves, HeadLeaves, TailLeaves DEF StreamStep, Silent
    <3> QED BY <3>1, PieceFacts
  <2>10. \A p \in P : p.line # line[u]
    BY <2>3, <2>9
  <2>11. line'[u] = line[u] /\ at'[u] = at[u] /\ pc'[u] = pc[u]
    BY <2>1
  <2> QED BY <1>1, <2>2, <2>5, <2>6, <2>7, <2>8, <2>9, <2>10, <2>11, KeepReached
<1>4. CASE Calm(t)
  <2>1. /\ SameFiles /\ SameContents /\ Survive /\ OnlyNew({})
        /\ overtaken \subseteq overtaken'
    BY <1>4, CalmEffect, SameLeaves
  <2>2. line'[u] = line[u] /\ at'[u] = at[u] /\ pc'[u] = pc[u]
    BY <1>2, <1>4 DEF Calm, Begin, CheckLevel, Lock, PrintAndReturn
  <2>3. logger'[at[u]].lvl = logger[at[u]].lvl
    <3>1. \/ UNCHANGED logger
          \/ \E o \in Threads \cup {NoThread} : logger' = [logger EXCEPT ![at[t]].owner = o]
      BY <1>4 DEF Calm, Begin, CheckLevel, Lock, PrintAndReturn
    <3>2. at[t] \in Loggers /\ at[u] \in Loggers
      BY <1>2
    <3>3. ASSUME NEW o, logger' = [logger EXCEPT ![at[t]].owner = o]
          PROVE  logger'[at[u]].lvl = logger[at[u]].lvl
      BY <1>2, <3>2, <3>3 DEF LoggerType
    <3> QED BY <3>1, <3>3
  <2>4. /\ logger'[at[u]].file = logger[at[u]].file
        /\ logger'[at[u]].buf = logger[at[u]].buf
        /\ InCall(u) /\ line[u] \notin overtaken'
    BY <1>2, <2>1, <2>2 DEF SameFiles, InCall
  <2>5. \A f \in Files : Contents(f)' = Contents(f)
    BY <2>1 DEF SameContents
  <2> QED BY <1>1, <2>1, <2>2, <2>3, <2>4, <2>5, KeepReached
<1> QED BY <1>3, <1>4 DEF LogStep, StreamStep, Calm

\* The calls after a step of the application.
LEMMA AskReach ==
  ASSUME Base, CallsReach, CalmAsk \/ CloseFile \/ OpenFile,
         NEW u \in Threads, InCall(u)', line'[u] \notin overtaken'
  PROVE  Reached(u)'
<1>1. Base' /\ Next /\ Silent
  BY BaseStep DEF Next, CalmAsk, AskStep, Silent
<1>2. at \in [Threads -> Loggers] /\ logger \in LoggerType
  BY DEF Base, TypeOK, LoggerType
<1>3. UNCHANGED <<pc, line, at>>
  BY DEF CalmAsk, AcceptRealLogger, SettingsCall, SetLevel, SetPrint, CloseFile, OpenFile,
         threads
<1>4. Survive /\ OnlyNew({}) /\ overtaken \subseteq overtaken'
  BY <1>1, SilentLeaves
<1>5. InCall(u) /\ line[u] \notin overtaken' /\ line[u] \notin overtaken
  BY <1>3, <1>4 DEF InCall
<1>6. ask # <<>> => at[u] # ask[1].to
  BY <1>5 DEF Base, Calls
<1>7. logger'[at[u]] = logger[at[u]]
  <2>1. CASE (\E ptr \in {"given", "null"} : AcceptRealLogger(ptr))
             \/ \E a \in Asks : SettingsCall(a)
    BY <2>1 DEF AcceptRealLogger, SettingsCall
  <2>2. at[u] \in Loggers
    BY <1>2
  <2>3. CASE SetLevel \/ SetPrint
    BY <1>2, <1>6, <2>2, <2>3 DEF SetLevel, SetPrint, AskAt, LoggerType
  <2>4. CASE CloseFile
    BY <1>2, <1>6, <2>2, <2>4 DEF CloseFile, AskAt, LoggerType
  <2>5. CASE OpenFile
    BY <1>2, <1>6, <2>2, <2>5 DEF OpenFile, AskAt, LoggerType
  <2> QED BY <2>1, <2>3, <2>4, <2>5 DEF CalmAsk
<1>8. ASSUME NEW f \in Files, logger[at[u]].file = f PROVE Contents(f)' = Contents(f)
  <2>1. CASE CalmAsk \/ OpenFile
    BY <2>1, CalmEffect, OpenFileEffect DEF SameContents
  <2>2. CASE CloseFile
    <3>1. ask # <<>> /\ ask[1].to \in Loggers
      BY <2>2, LoggerAssumption DEF CloseFile, AskAt, Base, TypeOK, Ask
    <3>2. logger[ask[1].to].file # f
      BY <1>2, <1>6, <1>8, <3>1, LoggerAssumption DEF Base, FilesApart
    <3> QED BY <2>2, <3>2, CloseFileEffect DEF SameContents, CutShort, Becomes
  <2> QED BY <2>1, <2>2
<1> QED BY <1>1, <1>3, <1>4, <1>5, <1>7, <1>8, KeepReached

\* The call that makes the step.
LEMMA OwnReach ==
  ASSUME Base, Numbered, CallsReach, NEW t \in Threads, Begin(t) \/ LogStep(t),
         InCall(t)', line'[t] \notin overtaken'
  PROVE  Reached(t)'
<1>0. Base' /\ Next
  BY BaseStep DEF Next
<1>1. /\ line \in [Threads -> Line \cup {NoLine}] /\ at \in [Threads -> Loggers]
      /\ pc \in [Threads -> PCs] /\ logger \in LoggerType
      /\ at' \in [Threads -> Loggers] /\ logger' \in LoggerType
  BY <1>0 DEF Base, TypeOK, PCs, LoggerType
<1>2. CASE Begin(t)
  <2>1. pc'[t] = "check"
    BY <1>1, <1>2 DEF Begin
  <2> QED BY <2>1 DEF Reached, ReachedIn, Writing
<1>3. CASE CheckLevel(t)
  <2>1. /\ pc'[t] = "lock" /\ line' = line /\ at' = at /\ logger' = logger
        /\ line[t].lvl <= logger[at[t]].lvl
    BY <1>1, <1>3 DEF CheckLevel, InCall
  <2> QED BY <2>1 DEF Reached, ReachedIn, Writing
<1>4. ASSUME LogStep(t), ~CheckLevel(t)
      PROVE  /\ line' = line /\ at' = at /\ InCall(t) /\ line[t] \in Line
             /\ line[t].by = t /\ line[t].n = lines[t] /\ line[t] \notin overtaken
             /\ overtaken \subseteq overtaken' /\ Reached(t)
  <2>1. line' = line /\ at' = at /\ InCall(t)
    BY <1>4 DEF LogStep, Lock, WriteHead, WriteTail, Flush, PrintAndReturn, InCall
  <2>2. overtaken \subseteq overtaken'
    BY <1>0, StepLeaves
  <2>3. line[t] \notin overtaken
    BY <2>1, <2>2
  <2> QED BY <2>1, <2>2, <2>3 DEF Base, Calls, CallsReach
<1> SUFFICES ASSUME LogStep(t), ~CheckLevel(t) PROVE Reached(t)'
  BY <1>2, <1>3
<1>5. PICK x \in Line, l \in Loggers, f \in Files \cup {NoFile} :
         x = line[t] /\ l = at[t] /\ f = logger[l].file
  BY <1>1, <1>4 DEF LoggerType
<1>6. ReachedIn(t, x, l, f)
  BY <1>4, <1>5 DEF Reached
<1>7. /\ x.by = t /\ x.n = lines[t] /\ x \notin overtaken'
      /\ line'[t] = x /\ at'[t] = l
      /\ logger'[l].file = f /\ logger'[l].lvl = logger[l].lvl
  <2>1. CASE StreamStep(t)
    BY <1>1, <1>4, <1>5, <2>1, StreamStepLeaves DEF SameSettings
  <2>2. CASE Lock(t)
    BY <1>1, <1>4, <1>5, <2>2 DEF Lock, LoggerType
  <2>3. ~PrintAndReturn(t)
    BY <1>1 DEF PrintAndReturn, InCall
  <2> QED BY <2>1, <2>2, <2>3 DEF LogStep, StreamStep
<1>8. SUFFICES ReachedIn(t, x, l, f)'
  BY <1>7 DEF Reached
<1>9. CASE Lock(t)
  <2>1. /\ pc[t] = "lock" /\ pc'[t] = IF f = NoFile THEN "print" ELSE "head"
    BY <1>1, <1>5, <1>9 DEF Lock
  <2>2. x.lvl <= logger[l].lvl
    BY <1>6, <2>1 DEF ReachedIn
  <2>3. CASE f # NoFile
    BY <1>7, <2>1, <2>2, <2>3 DEF ReachedIn
  <2>4. CASE f = NoFile
    <3>1. Nowhere(x)
      <4>1. ~Past(x) /\ pc[x.by] = "lock"
        BY <1>4, <1>7, <2>1 DEF Past, Base, TypeOK
      <4> QED BY <4>1, Unwritten
    <3>2. Nowhere(x)'
      BY <1>9, <3>1, NowhereStays, SilentLeaves DEF Silent, Calm
    <3>3. logger'[l].buf = <<>>
      BY <1>0, <1>7, <2>4 DEF Base, Streams
    <3> QED BY <1>7, <2>1, <2>2, <2>4, <3>2, <3>3 DEF ReachedIn
  <2> QED BY <2>3, <2>4
<1>10. ASSUME NEW part \in Parts, Put(t, part), pc[t] = part
       PROVE  f \in Files /\ Contents(f)' = Append(Contents(f), PieceOf(t, part))
  <2>1. \/ Dropped(t)
        \/ \E g \in Files : /\ logger[at[t]].file = g
                            /\ \/ Taken(t, g, PieceOf(t, part))
                               \/ Failed(t, g, Append(Contents(g), PieceOf(t, part)))
    BY <1>0, <1>4, <1>10, PutEffect
  <2>2. f # NoFile
    BY <1>6, <1>10 DEF ReachedIn, Parts
  <2>3. ~Dropped(t)
    BY <1>5, <1>7, <2>2 DEF Dropped
  <2>4. x \in InHand(at[t])
    BY <1>1, <1>4, <1>5, InHandOf
  <2> QED BY <1>5, <1>7, <2>1, <2>3, <2>4 DEF Failed, Taken, Becomes
<1>11. CASE WriteHead(t)
  <2>1. pc[t] = "head" /\ pc'[t] = "tail" /\ Put(t, "head") /\ "head" \in Parts
    BY <1>1, <1>11 DEF WriteHead, Parts
  <2>2. PieceOf(t, "head") = HeadOf(x)
    BY <1>5 DEF PieceOf, HeadOf
  <2>3. Contents(f) \in Seq(Piece) /\ HeadOf(x) \in Piece /\ f \in Files
    BY <1>10, <2>1, ContentsOf DEF ContentsAre, HeadOf, Piece, Parts
  <2>4. EndsWith(Contents(f)', HeadOf(x))
    BY <1>10, <2>1, <2>2, <2>3, AppendProperties, LenProperties DEF EndsWith
  <2> QED BY <1>6, <1>7, <2>1, <2>3, <2>4, LoggerAssumption DEF ReachedIn, Writing, EndsWith
<1>12. CASE WriteTail(t)
  <2>1. /\ pc[t] = "tail" /\ Put(t, "tail") /\ "tail" \in Parts
        /\ pc'[t] = IF x.lvl <= Warning THEN "flush" ELSE "print"
    BY <1>1, <1>5, <1>12 DEF WriteTail, Parts
  <2>2. PieceOf(t, "tail") = TailOf(x)
    BY <1>5 DEF PieceOf, TailOf
  <2>3. Contents(f) \in Seq(Piece) /\ TailOf(x) \in Piece /\ f \in Files
    BY <1>10, <2>1, ContentsOf DEF ContentsAre, TailOf, Piece, Parts
  <2>4. EndsWith(Contents(f), HeadOf(x))
    BY <1>6, <2>1 DEF ReachedIn
  <2>5. Holds(Append(Contents(f), TailOf(x)), x)
    <3>1. /\ Append(Contents(f), TailOf(x)) \in Seq(Piece)
          /\ Len(Append(Contents(f), TailOf(x))) = Len(Contents(f)) + 1
          /\ Append(Contents(f), TailOf(x))[Len(Contents(f)) + 1] = TailOf(x)
          /\ Append(Contents(f), TailOf(x))[Len(Contents(f))] = HeadOf(x)
      BY <2>3, <2>4, AppendProperties, LenProperties DEF EndsWith
    <3>2. /\ Len(Contents(f)) \in 1..Len(Contents(f)) + 1
          /\ Len(Contents(f)) + 1 \in 1..Len(Contents(f)) + 1
      BY <2>3, <2>4, LenProperties DEF EndsWith
    <3> QED BY <3>1, <3>2, HoldsMeans
  <2>6. Holds(Contents(f)', x)
    BY <1>10, <2>1, <2>2, <2>5
  <2> QED BY <1>6, <1>7, <2>1, <2>3, <2>6, LoggerAssumption DEF ReachedIn, Writing
<1>13. CASE Flush(t)
  <2>1. pc[t] = "flush" /\ pc'[t] = "print"
    BY <1>1, <1>13 DEF Flush
  <2>2. logger'[l].buf = <<>>
    BY <1>0, <1>5, <1>13, FlushEffect
  <2>3. f \in Files /\ Holds(Contents(f), x)
    BY <1>6, <2>1 DEF ReachedIn
  <2>4. Holds(Contents(f), x)'
    BY <1>7, <1>13, <2>3, SilentLeaves DEF Silent, Survive
  <2> QED BY <1>6, <1>7, <2>1, <2>2, <2>3, <2>4, LoggerAssumption DEF ReachedIn, Writing
<1>14. ~PrintAndReturn(t)
  BY <1>1 DEF PrintAndReturn, InCall
<1> QED BY <1>9, <1>11, <1>12, <1>13, <1>14 DEF LogStep

LEMMA ReachStep ==
  ASSUME Base, Numbered, CallsReach, Next, Up'
  PROVE  CallsReach'
<1> SUFFICES ASSUME NEW u \in Threads, InCall(u)', line'[u] \notin overtaken'
             PROVE  Reached(u)'
  BY DEF CallsReach
<1>1. ASSUME NEW t \in Threads, Begin(t) \/ LogStep(t) PROVE Reached(u)'
  BY <1>1, OwnReach, OthersReach
<1>2. CASE CalmAsk \/ CloseFile \/ OpenFile
  BY <1>2, AskReach
<1>3. ~Exit /\ ~Kill
  BY DEF Exit, Kill, End, Up
<1> QED BY <1>1, <1>2, <1>3 DEF Next, AskStep, CalmAsk

-----------------------------------------------------------------------------
(* What a call has told stays true.                                        *)

Reaches(e) ==
  /\ Due(e) /\ process # "killed" => Holds(Contents(e.file), e.line)
  /\ e.line \notin overtaken =>
        /\ (e.line \in shown) = (e.prints /\ e.line.lvl <= e.lvl)
        /\ ~Due(e) => Nowhere(e.line)

AllReach == \A e \in told : Reaches(e)

LEMMA ReachesMeans == LinesReachTheirFile <=> AllReach
BY DEF AllReach, LinesReachTheirFile, Reaches, Nowhere, LinesOf

\* A killed process leaves what was on the disk.
LEMMA KillLeaves ==
  ASSUME Base, Kill
  PROVE  OnlyNew({})
<1>1. \A f \in Files : Contents(f)' = disk[f]
  BY EndBase DEF Kill, Base, TypeOK
<1> SUFFICES ASSUME NEW f \in Files, NEW i \in DOMAIN disk[f]
             PROVE  \E j \in DOMAIN Contents(f) : Contents(f)[j] = disk[f][i]
  BY <1>1 DEF OnlyNew
<1> DEFINE d == Contents(f)
           n == Len(disk[f])
<1>2. /\ disk[f] \in Seq(Piece) /\ n \in 0..Len(d) /\ disk[f] = SubSeq(d, 1, n)
      /\ d \in Seq(Piece) /\ Len(d) \in Nat /\ DOMAIN d = 1..Len(d)
  BY DiskIsFirst, ContentsOf, LenProperties DEF ContentsAre
<1>3. i \in 1..n
  BY <1>2, LenProperties
<1> HIDE DEF n, d
<1>4. n \in Nat /\ \A j \in 1..n : j \in 1..Len(d) /\ d[j] \in Piece
  <2>1. n \in Nat /\ \A j \in 1..n : j \in 1..Len(d)
    BY <1>2
  <2> QED BY <1>2, <2>1, ElementOfSeq
<1>5. SubSeq(d, 1, n)[i] = d[i]
  BY <1>3, <1>4, SubSeqProperties
<1> QED BY <1>2, <1>3, <1>4, <1>5 DEF d

\* No step writes of a line that is past, or prints it.
LEMMA PastIsLeft ==
  ASSUME Base, Numbered, Next, NEW x, Past(x)
  PROVE  /\ Nowhere(x) => Nowhere(x)'
         /\ (x \in shown') = (x \in shown)
<1>1. ASSUME NEW t \in Threads, InCall(t) PROVE line[t] # x
  BY <1>1 DEF Base, TypeOK, Calls, Past
<1>2. ASSUME Nowhere(x) PROVE Nowhere(x)'
  <2>1. CASE OnlyNew({})
    BY <1>2, <2>1, NowhereStays
  <2>2. ASSUME NEW t \in Threads, WriteHead(t) \/ WriteTail(t),
               OnlyNew({HeadOf(line[t])}) \/ OnlyNew({TailOf(line[t])})
        PROVE  Nowhere(x)'
    <3>1. line[t] # x
      BY <1>1, <2>2 DEF WriteHead, WriteTail, InCall
    <3>2. \A p \in {HeadOf(line[t]), TailOf(line[t])} : p.line # x
      BY <3>1, PieceFacts
    <3> QED BY <1>2, <2>2, <3>2, NowhereStays
  <2> QED BY <2>1, <2>2, StepLeaves, KillLeaves
<1>3. (x \in shown') = (x \in shown)
  <2>1. ASSUME NEW t \in Threads, PrintAndReturn(t) PROVE line[t] # x
    BY <1>1, <2>1 DEF PrintAndReturn, InCall
  <2> QED BY <2>1, NewlyShown
<1> QED BY <1>2, <1>3

LEMMA OldReaches ==
  ASSUME Base, Numbered, Next, NEW e \in told, Reaches(e)
  PROVE  Reaches(e)'
<1>1. e.line \in Line /\ e.file \in Files \cup {NoFile} /\ Past(e.line)
  BY DEF Numbered
<1>2. overtaken \subseteq overtaken' /\ (Kill \/ Survive)
  BY StepLeaves
<1>3. Due(e)' => Due(e)
  BY <1>2 DEF Due
<1>4. e.line \notin overtaken' => e.line \notin overtaken /\ (Due(e) => Due(e)')
  BY <1>2 DEF Due
<1>5. ASSUME Due(e)', process' # "killed" PROVE Holds(Contents(e.file), e.line)'
  <2>1. Survive /\ process # "killed"
    BY <1>2, <1>5 DEF Kill, End, Next, Begin, LogStep, AskStep, CheckLevel, Lock, WriteHead,
        WriteTail, Flush, PrintAndReturn, AcceptRealLogger, SettingsCall, CloseFile, OpenFile,
        SetLevel, SetPrint, Exit, AskAt, Up
  <2>2. Holds(Contents(e.file), e.line)
    BY <1>3, <1>5, <2>1 DEF Reaches
  <2>3. e.file \in Files /\ e.line \notin overtaken'
    BY <1>1, <1>5 DEF Due
  <2> QED BY <2>1, <2>2, <2>3 DEF Survive
<1>6. ASSUME e.line \notin overtaken'
      PROVE  /\ (e.line \in shown') = (e.prints /\ e.line.lvl <= e.lvl)
             /\ ~Due(e)' => Nowhere(e.line)'
  BY <1>1, <1>4, <1>6, PastIsLeft DEF Reaches
<1> QED BY <1>5, <1>6 DEF Reaches

LEMMA NewReaches ==
  ASSUME Base, Numbered, CallsReach, Next, NEW t \in Threads,
         CheckLevel(t) \/ PrintAndReturn(t), pc' = [pc EXCEPT ![t] = "idle"],
         NEW e, e = Told(t)
  PROVE  Reaches(e)'
<1>1. /\ line[t] \in Line /\ line[t].n = lines[t] /\ line[t].by = t /\ InCall(t)
      /\ lines[t] \in Nat /\ at[t] \in Loggers /\ logger \in LoggerType
      /\ logger[at[t]].file \in Files \cup {NoFile}
      /\ UNCHANGED <<overtaken, process>>
  BY DEF Base, TypeOK, Calls, InCall, CheckLevel, PrintAndReturn, LoggerType, troubles
<1>2. ~Past(line[t])
  BY <1>1 DEF Past
<1>3. line[t] \notin shown
  BY <1>2 DEF Numbered
<1>4. SameContents /\ OnlyNew({})
  BY CalmEffect, SameLeaves DEF Calm
<1>5. /\ e.line = line[t] /\ e.file = logger[at[t]].file /\ e.lvl = logger[at[t]].lvl
      /\ e.prints = logger[at[t]].prints /\ e.prints \in BOOLEAN
      /\ e.lvl \in Nat /\ e.line.lvl \in Nat
  BY <1>1, LoggerAssumption DEF Told, LoggerType, Line
<1>6. CASE CheckLevel(t)
  <2>1. e.line.lvl > e.lvl /\ shown' = shown /\ pc[t] = "check"
    <3>1. pc'[t] = "idle"
      BY DEF Base, TypeOK
    <3> QED BY <1>5, <1>6, <3>1 DEF CheckLevel
  <2>2. ~(e.line.lvl <= e.lvl)
    BY <1>5, <2>1
  <2>3. Nowhere(e.line)
    BY <1>1, <1>2, <1>5, <2>1, Unwritten
  <2>4. Nowhere(e.line)'
    BY <1>4, <2>3, NowhereStays
  <2> QED BY <1>3, <1>5, <2>1, <2>2, <2>4 DEF Reaches, Due
<1>7. CASE PrintAndReturn(t)
  <2> SUFFICES ASSUME e.line \notin overtaken' PROVE Reaches(e)'
    BY DEF Reaches, Due
  <2>1. Reached(t) /\ pc[t] = "print"
    BY <1>1, <1>5, <1>7 DEF CallsReach, PrintAndReturn
  <2>2. ReachedIn(t, e.line, at[t], e.file)
    BY <1>5, <2>1 DEF Reached
  <2>3. /\ e.line.lvl <= e.lvl
        /\ e.file # NoFile => e.file \in Files /\ Holds(Contents(e.file), e.line)
        /\ e.file = NoFile => Nowhere(e.line)
    BY <1>1, <1>5, <2>1, <2>2 DEF ReachedIn, Writing
  <2>4. e.file # NoFile => Holds(Contents(e.file), e.line)'
    BY <1>4, <2>3 DEF SameContents
  <2>5. e.file = NoFile => Nowhere(e.line)'
    BY <1>4, <2>3, NowhereStays
  <2>6. (e.line \in shown') <=> e.prints
    BY <1>3, <1>5, <1>7 DEF PrintAndReturn
  <2> QED BY <2>3, <2>4, <2>5, <2>6 DEF Reaches, Due
<1> QED BY <1>6, <1>7

LEMMA LinesReachStep ==
  ASSUME Base, Numbered, CallsReach, LinesReachTheirFile, Next
  PROVE  LinesReachTheirFile'
<1>1. ASSUME NEW e \in told' PROVE Reaches(e)'
  <2>1. CASE e \in told
    BY <2>1, OldReaches, ReachesMeans DEF AllReach
  <2>2. ASSUME NEW t \in Threads, CheckLevel(t) \/ PrintAndReturn(t),
               pc' = [pc EXCEPT ![t] = "idle"], e = Told(t)
        PROVE  Reaches(e)'
    BY <2>2, NewReaches
  <2> QED BY <2>1, <2>2, NewlyTold
<1>2. AllReach'
  BY <1>1 DEF AllReach
<1> QED BY <1>2, ReachesMeans, PTL

-----------------------------------------------------------------------------
(* The disk keeps what it has.                                             *)

LEMMA DiskStep ==
  ASSUME Base, Next
  PROVE  DiskGrows
<1>1. Base'
  BY BaseStep
<1>2. ASSUME NEW f \in Files PROVE Len(disk[f]) \in Nat
  <2>1. disk[f] \in Seq(Piece)
    BY DEF Base, TypeOK
  <2> QED BY <2>1, LenProperties
<1>3. CASE UNCHANGED disk
  BY <1>2, <1>3 DEF DiskGrows
<1>4. ASSUME NEW t \in Threads, StreamStep(t) PROVE DiskGrows
  <2>1. WriteHead(t) => Put(t, "head") /\ "head" \in Parts /\ InCall(t)
    BY DEF WriteHead, Parts, InCall
  <2>2. WriteTail(t) => Put(t, "tail") /\ "tail" \in Parts /\ InCall(t)
    BY DEF WriteTail, Parts, InCall
  <2> QED BY <1>1, <1>4, <2>1, <2>2, PutEffect, FlushEffect DEF StreamStep
<1>5. CASE CloseFile
  BY <1>5, CloseFileEffect
<1>6. CASE OpenFile
  BY <1>3, <1>6, OpenFileEffect
<1>7. CASE (\E t \in Threads : Calm(t)) \/ CalmAsk
  BY <1>3, <1>7, CalmEffect
<1>8. CASE Exit
  <2> SUFFICES ASSUME NEW f \in Files
               PROVE  /\ Len(disk[f]) <= Len(disk'[f])
                      /\ \A i \in 1..Len(disk[f]) : disk'[f][i] = disk[f][i]
    BY DEF DiskGrows
  <2> DEFINE d == Contents(f)
             n == Len(disk[f])
  <2>1. disk'[f] = d
    BY <1>8 DEF Exit
  <2>2. /\ n \in 0..Len(d) /\ disk[f] = SubSeq(d, 1, n)
        /\ d \in Seq(Piece) /\ Len(d) \in Nat
    BY DiskIsFirst, ContentsOf, LenProperties DEF ContentsAre
  <2> HIDE DEF n, d
  <2>3. n \in Nat /\ \A j \in 1..n : j \in 1..Len(d) /\ d[j] \in Piece
    <3>1. n \in Nat /\ \A j \in 1..n : j \in 1..Len(d)
      BY <2>2
    <3> QED BY <2>2, <3>1, ElementOfSeq
  <2>4. \A i \in 1..n : SubSeq(d, 1, n)[i] = d[i]
    BY <2>3, SubSeqProperties
  <2>5. \A i \in 1..n : d[i] = disk[f][i]
    BY <2>2, <2>4
  <2>6. n <= Len(d)
    BY <2>2
  <2> QED BY <2>1, <2>5, <2>6 DEF n
<1>9. CASE Kill
  BY <1>3, <1>9 DEF Kill
<1> QED BY <1>4, <1>5, <1>6, <1>7, <1>8, <1>9
        DEF Next, LogStep, AskStep, StreamStep, Calm, CalmAsk

LEMMA DiskHolds ==
  ASSUME Base, Base', DiskGrows, NEW f \in Files, NEW x, Holds(disk[f], x)
  PROVE  Holds(disk'[f], x)
<1>1. disk[f] \in Seq(Piece) /\ disk'[f] \in Seq(Piece)
  BY DEF Base, TypeOK
<1>2. Len(disk[f]) \in Nat /\ Len(disk'[f]) \in Nat
  BY <1>1, LenProperties
<1>3. \A i \in 1..Len(disk[f]) : i \in 1..Len(disk'[f]) /\ disk'[f][i] = disk[f][i]
  BY <1>2 DEF DiskGrows
<1> QED BY <1>1, <1>3, HoldsMeans

LEMMA UrgentStep ==
  ASSUME Base, Numbered, CallsReach, LinesReachTheirFile, UrgentLinesSurvive, Next
  PROVE  UrgentLinesSurvive'
<1>0. Base' /\ DiskGrows /\ LinesReachTheirFile' /\ overtaken \subseteq overtaken'
  BY BaseStep, DiskStep, LinesReachStep, StepLeaves
<1>00. AllReach'
  <2>1. LinesReachTheirFile'
    BY <1>0
  <2> QED BY <2>1, ReachesMeans, PTL
<1> SUFFICES ASSUME NEW e \in told', NEW d \in told', Due(e)', Due(d)',
                    e.line.lvl <= Warning, d.file = e.file,
                    d.line.by = e.line.by, d.line.n <= e.line.n
             PROVE  Holds(disk'[d.file], d.line)
  BY DEF UrgentLinesSurvive
<1>1. Due(e) /\ Due(d) /\ e.file # NoFile /\ e.line.lvl <= e.lvl
  BY <1>0 DEF Due
<1>2. CASE e \in told /\ d \in told
  <2>1. Holds(disk[d.file], d.line) /\ d.file \in Files
    BY <1>1, <1>2 DEF UrgentLinesSurvive, Numbered
  <2> QED BY <1>0, <2>1, DiskHolds
<1>3. ASSUME NEW t \in Threads, CheckLevel(t) \/ PrintAndReturn(t)
      PROVE  /\ line[t].by = t /\ line[t].n = lines[t] /\ InCall(t) /\ lines[t] \in Nat
             /\ line[t] \in Line /\ at[t] \in Loggers
             /\ pc'[t] = "idle" /\ CheckLevel(t) => line[t].lvl > logger[at[t]].lvl
  BY <1>3 DEF Base, TypeOK, Calls, InCall, CheckLevel, PrintAndReturn
<1>4. ASSUME NEW t \in Threads, CheckLevel(t) \/ PrintAndReturn(t), d = Told(t), e \in told
      PROVE  FALSE
  <2>1. d.line = line[t]
    BY <1>4 DEF Told
  <2>2. e.line \in Line /\ Past(e.line)
    BY <1>4 DEF Numbered
  <2>3. e.line.n \in Nat /\ e.line.n < lines[t]
    BY <1>3, <1>4, <2>1, <2>2 DEF Past, Line
  <2> QED BY <1>3, <1>4, <2>1, <2>3
<1>5. ASSUME NEW t \in Threads, CheckLevel(t) \/ PrintAndReturn(t),
             pc' = [pc EXCEPT ![t] = "idle"], e = Told(t)
      PROVE  Holds(disk'[d.file], d.line)
  <2>1. /\ e.line = line[t] /\ e.file = logger[at[t]].file /\ e.lvl = logger[at[t]].lvl
        /\ pc'[t] = "idle" /\ e.lvl \in Nat /\ e.line.lvl \in Nat
    BY <1>3, <1>5, LoggerAssumption DEF Told, Base, TypeOK, Line
  <2>2. PrintAndReturn(t)
    BY <1>1, <1>3, <1>5, <2>1
  <2>3. ReachedIn(t, e.line, at[t], e.file) /\ pc[t] = "print"
    BY <1>1, <1>3, <2>1, <2>2 DEF Due, CallsReach, Reached, PrintAndReturn
  <2>4. logger[at[t]].buf = <<>>
    BY <2>3 DEF ReachedIn
  <2>5. e.file \in Files /\ Contents(e.file) = disk[e.file]
    <3>0. at[t] \in Loggers
      BY <1>3, <1>5
    <3>1. ContentsAre /\ e.file \in Files /\ disk[e.file] \in Seq(Piece)
      BY <1>1, <2>1, <3>0, ContentsOf DEF Base, TypeOK
    <3>2. Contents(logger[at[t]].file) = disk[logger[at[t]].file] \o logger[at[t]].buf
      BY <1>1, <2>1, <3>0, <3>1 DEF ContentsAre
    <3> QED BY <2>1, <2>4, <3>1, <3>2, ConcatEmptySeq
  <2>6. SameContents /\ UNCHANGED <<disk, process>> /\ process = "up"
    BY <2>2, CalmEffect DEF Calm, PrintAndReturn, Up
  <2>7. Contents(e.file)' = disk'[e.file]
    BY <2>5, <2>6 DEF SameContents
  <2>8. Holds(Contents(d.file), d.line)'
    <3>1. Reaches(d)'
      BY <1>00 DEF AllReach
    <3> QED BY <2>6, <3>1 DEF Reaches
  <2> QED BY <2>7, <2>8
<1> QED BY <1>2, <1>4, <1>5, NewlyTold
-----------------------------------------------------------------------------
(* The invariant and what follows from it.                                 *)

LEMMA WholeLines == Base /\ ContentsWhole => LinesWhole
<1> SUFFICES ASSUME Base, ContentsWhole, NEW f \in Files,
                    NEW i \in DOMAIN disk[f], disk[f][i].line \notin overtaken
             PROVE  /\ disk[f][i].part = "head" /\ i < Len(disk[f]) =>
                         disk[f][i + 1] = TailOf(disk[f][i].line)
                    /\ disk[f][i].part = "tail" =>
                         i > 1 /\ disk[f][i - 1] = HeadOf(disk[f][i].line)
                    /\ \A j \in 1..i - 1 :
                          /\ disk[f][j] # disk[f][i]
                          /\ disk[f][j].line.by = disk[f][i].line.by =>
                               disk[f][j].line.n <= disk[f][i].line.n
  BY DEF LinesWhole
<1>1. Whole(disk[f], overtaken)
  BY DiskWhole
<1>2. DOMAIN disk[f] = 1..Len(disk[f])
  BY LenProperties DEF Base, TypeOK
<1> QED BY <1>1, <1>2 DEF Whole

LEMMA InitInv == Init => LogInv
<1> SUFFICES ASSUME Init PROVE LogInv
  OBVIOUS
<1> USE DEF Init, Fresh
<1>1. \A l \in Loggers : logger[l] = NewLogger
  OBVIOUS
<1>2. TypeOK
  <2>1. logger \in LoggerType
    <3>1. NewLogger \in [lvl: Levels, prints: BOOLEAN, bad: BOOLEAN,
                         file: Files \cup {NoFile}, buf: Seq(Piece),
                         owner: Threads \cup {NoThread}]
      BY LoggerAssumption DEF NewLogger
    <3> QED BY <3>1 DEF LoggerType
  <2>2. lines \in [Threads -> Nat] /\ \A t \in Threads : lines[t] <= Len(Says[t])
    <3>1. ASSUME NEW t \in Threads PROVE Len(Says[t]) \in Nat
      <4>1. Says[t] \in Seq(SUBSET Levels)
        BY LoggerAssumption
      <4> QED BY <4>1, LenProperties
    <3> QED BY <3>1
  <2>3. asked \in 0..MaxAsks /\ faults \in 0..MaxFaults
    BY LoggerAssumption
  <2>4. disk \in [Files -> Seq(Piece)]
    OBVIOUS
  <2> QED BY <2>1, <2>2, <2>3, <2>4 DEF TypeOK, LoggerType, Loggers
<1>3. Base
  BY <1>1, <1>2, LoggerAssumption
  DEF Base, Owned, FilesApart, Streams, Calls, InCall, NewLogger, Writing
<1>4. \A f \in Files : Contents(f) = <<>>
  BY <1>1, <1>3, ContentsOf, LoggerAssumption DEF ContentsAre, NewLogger
<1>5. ContentsWhole /\ Pending
  BY <1>4 DEF ContentsWhole, Whole, Pending, PendingAt, Waiting
<1>6. Numbered
  BY <1>4 DEF Numbered
<1>7. CallsReach /\ LinesReachTheirFile /\ UrgentLinesSurvive
  BY DEF CallsReach, InCall, LinesReachTheirFile, UrgentLinesSurvive
<1> QED BY <1>3, <1>5, <1>6, <1>7 DEF LogInv

LEMMA NextInv == LogInv /\ [Next]_vars => LogInv'
<1> SUFFICES ASSUME LogInv, [Next]_vars PROVE LogInv'
  OBVIOUS
<1>1. CASE UNCHANGED vars
  <2> USE <1>1 DEF vars
  <2>1. Base' /\ (Up' <=> Up)
    BY BaseStep DEF LogInv, Up
  <2>2. ASSUME NEW f PROVE Contents(f)' = Contents(f)
    BY DEF Contents
  <2>3. ContentsWhole => ContentsWhole'
    BY <2>2 DEF ContentsWhole
  <2>4. Pending => Pending'
    BY <2>2 DEF Pending, PendingAt, AtTail
  <2>5. Numbered => Numbered'
    BY <2>2 DEF Numbered, PieceNumbered, Past, InCall
  <2>6. CallsReach => CallsReach'
    BY <2>2 DEF CallsReach, Reached, ReachedIn, InCall, Nowhere
  <2>7. LinesReachTheirFile => LinesReachTheirFile'
    BY <2>2 DEF LinesReachTheirFile, Due
  <2>8. UrgentLinesSurvive => UrgentLinesSurvive'
    BY DEF UrgentLinesSurvive, Due
  <2> QED BY <2>1, <2>3, <2>4, <2>5, <2>6, <2>7, <2>8 DEF LogInv
<1>2. CASE Next
  <2>1. Up
    BY <1>2 DEF Next, Begin, LogStep, AskStep, CheckLevel, Lock, WriteHead, WriteTail, Flush,
       PrintAndReturn, AcceptRealLogger, SettingsCall, CloseFile, OpenFile, SetLevel,
       SetPrint, Exit, Kill, AskAt
  <2>2. Base /\ ContentsWhole /\ Pending /\ Numbered /\ CallsReach
    BY <2>1 DEF LogInv
  <2>3. LinesReachTheirFile /\ UrgentLinesSurvive
    BY DEF LogInv
  <2>4. Base' /\ ContentsWhole' /\ LinesReachTheirFile' /\ UrgentLinesSurvive'
    BY <1>2, <2>2, <2>3, BaseStep, WholeStep, LinesReachStep, UrgentStep
  <2>5. Up' => Pending' /\ Numbered' /\ CallsReach'
    BY <1>2, <2>2, PendingStep, NumberedStep, ReachStep
  <2> QED BY <2>4, <2>5 DEF LogInv
<1> QED BY <1>1, <1>2

\* However the calls of log, the settings calls, the failed writes and the end of
\* the process interleave, LogInv holds: who has the mutex, where each line has
\* got to, and what each file and buffer has of it.
THEOREM LoggerInvariant == Spec => []LogInv
<1> QED BY InitInv, NextInv, PTL DEF Spec

\* The state of the loggers, the files and the calls is of its type.
THEOREM LoggerTypes == Spec => []TypeOK
<1>1. LogInv => TypeOK
  BY DEF LogInv, Base
<1> QED BY <1>1, LoggerInvariant, PTL

\* RealDefaultLogger::log writes a line in two pieces under its mutex: of any
\* number of threads that log at once, the lines that no settings call and no
\* failed write met are whole in every file, each once, in the order of their
\* thread.
THEOREM LinesStayWhole == Spec => []LinesWhole
<1>1. LogInv => LinesWhole
  BY WholeLines DEF LogInv
<1> QED BY <1>1, LoggerInvariant, PTL

\* What log() returned for is in the file its logger had, in the buffer or on the
\* disk, when the level let it through, and nowhere when not; the terminal shows
\* it exactly when printing is on.
THEOREM LinesAreWhereDue == Spec => []LinesReachTheirFile
<1>1. LogInv => LinesReachTheirFile
  BY DEF LogInv
<1> QED BY <1>1, LoggerInvariant, PTL

\* The flush of log() for an error or a warning puts that line and the earlier ones
\* of its thread on the disk, where they stay whatever becomes of the process.
THEOREM UrgentLinesAreKept == Spec => []UrgentLinesSurvive
<1>1. LogInv => UrgentLinesSurvive
  BY DEF LogInv
<1> QED BY <1>1, LoggerInvariant, PTL
=============================================================================
