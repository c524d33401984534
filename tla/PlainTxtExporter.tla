-------------------------- MODULE PlainTxtExporter --------------------------
(***************************************************************************)
(* PlainTxt2FolderExporter: a text file for every annotation name, with a  *)
(* line for every image that has rectangles of the name.  A file is opened *)
(* and truncated when the export comes to its name first, and its stream   *)
(* is kept open in exFiles until the export ends.                          *)
(* Loading and opening may fail, at the limit of the open files for one.   *)
(***************************************************************************)
EXTENDS RecordWalk

VARIABLES
  todo,      \* todo[r]: the names of the current image not yet written
  exFiles,   \* exFiles[r]: the names whose streams are kept open
  files,     \* the directory: the lines of the text files, by names
  loaded,    \* of the model alone: the records whose images were loaded
  refused    \* of the model alone: the records whose lines had no file

vars == <<pc, db, at, todo, exFiles, files, loaded, refused>>

-----------------------------------------------------------------------------

Init ==
  /\ WalkInit
  /\ todo = [r \in Runs |-> {}]
  /\ exFiles = [r \in Runs |-> {}]
  /\ files = << >>
  /\ loaded = [r \in Runs |-> {}]
  /\ refused = [r \in Runs |-> {}]

Begin(r) == Start(r, "record") /\ UNCHANGED <<todo, exFiles, files, loaded, refused>>

SkipRecord(r) ==
  /\ pc[r] = "record" /\ HasRecord(r)
  /\ Current(r).rects = << >>
  /\ NextRecord(r)
  /\ UNCHANGED <<db, todo, exFiles, files, loaded, refused>>

\* The positions of the rectangles of each name, in their order.
gather_ir_data(rects) ==
  [c \in {rects[j].class : j \in DOMAIN rects} |->
     Selected([j \in DOMAIN rects |-> j], {j \in DOMAIN rects : rects[j].class = c})]

\* export_ir: an image that does not load is left out.
ExportIr(r) ==
  /\ pc[r] = "record" /\ HasRecord(r)
  /\ Current(r).rects # << >>
  /\ \/ /\ todo' = [todo EXCEPT ![r] = DOMAIN gather_ir_data(Current(r).rects)]
        /\ loaded' = [loaded EXCEPT ![r] = @ \cup {at[r]}]
        /\ Goto(r, "write")
        /\ UNCHANGED at
     \/ NextRecord(r) /\ UNCHANGED <<todo, loaded>>
  /\ UNCHANGED <<db, exFiles, files, refused>>

Line(r, c) ==
  LET drawn == gather_ir_data(Current(r).rects)[c]
  IN  [record |-> at[r], count |-> Len(drawn), rects |-> drawn]

\* Mutant: a stream that is open is not found, and opened again.
get_file_uncached(r, c) ==
  /\ exFiles' = [exFiles EXCEPT ![r] = @ \cup {c}]
  /\ files' = [d \in DOMAIN files \cup {c} |->
                 IF d = c THEN <<Line(r, c)>> ELSE files[d]]

\* The line is written to the stream that is open or to a truncated file.
get_file(r, c) ==
  /\ exFiles' = [exFiles EXCEPT ![r] = @ \cup {c}]
  /\ files' = [d \in DOMAIN files \cup {c} |->
                 IF d # c THEN files[d]
                 ELSE IF c \in exFiles[r] THEN Append(files[c], Line(r, c))
                 ELSE <<Line(r, c)>>]

\* write_ir_data: the names in the order of a hash table, which is any; one whose
\* file does not open is left out of this image only.
WriteIrData(r) ==
  /\ pc[r] = "write"
  /\ todo[r] # {}
  /\ \E c \in todo[r] :
       /\ todo' = [todo EXCEPT ![r] = @ \ {c}]
       /\ \/ get_file(r, c) /\ UNCHANGED refused
          \/ /\ c \notin exFiles[r]
             /\ refused' = [refused EXCEPT ![r] = @ \cup {<<at[r], c>>}]
             /\ UNCHANGED <<exFiles, files>>
  /\ UNCHANGED <<pc, db, at, loaded>>

LastName(r) ==
  /\ pc[r] = "write"
  /\ todo[r] = {}
  /\ NextRecord(r)
  /\ UNCHANGED <<db, todo, exFiles, files, loaded, refused>>

\* The export ends with clear().
LastRecord(r) ==
  /\ EndWalk(r, "done")
  /\ exFiles' = [exFiles EXCEPT ![r] = {}]
  /\ UNCHANGED <<todo, files, loaded, refused>>

Crash(r) ==
  /\ Kill(r)
  /\ exFiles' = [exFiles EXCEPT ![r] = {}]
  /\ UNCHANGED <<todo, files, loaded, refused>>

Step(r) ==
  \/ SkipRecord(r) \/ ExportIr(r) \/ WriteIrData(r) \/ LastName(r)
  \/ LastRecord(r)

Finished == AllEnded /\ UNCHANGED vars

Next == (\E r \in Runs : Begin(r) \/ Step(r) \/ Crash(r)) \/ Finished

Spec == Init /\ [][Next]_vars

-----------------------------------------------------------------------------
(* Properties *)

Has(r, p, c) == \E j \in DOMAIN db[r][p].rects : db[r][p].rects[j].class = c

\* The records behind the run that were loaded and whose file of c was open.
Expected(r, c) ==
  {p \in loaded[r] : p < at[r] /\ Has(r, p, c) /\ <<p, c>> \notin refused[r]}

\* The file of a name holds, in the order of the database, every loaded image
\* with rectangles of the name but those for which the file did not open, with
\* their count and just their coordinates: nothing is truncated away by a later
\* image and nothing of an earlier export stays in between, whatever fails to
\* load or to open and wherever the export is killed.
OpenFilesFollowTheDatabase ==
  \A r \in Runs : \A c \in Classes : IsLast(r) /\ Expected(r, c) # {} =>
    /\ c \in DOMAIN files
    /\ {files[c][k].record : k \in DOMAIN files[c]} \ {at[r]} = Expected(r, c)
    /\ \A k \in DOMAIN files[c] :
         LET line == files[c][k]
         IN  /\ line.count = Len(line.rects)
             /\ {line.rects[j] : j \in DOMAIN line.rects}
                  = {j \in DOMAIN db[r][line.record].rects :
                       db[r][line.record].rects[j].class = c}
             /\ k > 1 => files[c][k - 1].record < line.record
=============================================================================
