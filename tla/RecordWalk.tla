----------------------------- MODULE RecordWalk -----------------------------
(***************************************************************************)
(* The loop every exporter runs over the records of its database.          *)
(*                                                                         *)
(* A run is one export_db call; the runs write into one export directory,  *)
(* one after another or, with Concurrent, while the previous one still     *)
(* writes.  A step is one file operation.                                  *)
(***************************************************************************)
EXTENDS ExportDirectory, SequencesExt

\* A rectangle matters by its name, by whether any of it is inside the image, and
\* by whether the cropper finds something to cut.  Neither of the two makes the
\* other: the cropper moves the start of a rectangle that lies wholly to the left
\* of the image into it and keeps the width.
Rectangle == [class: Classes, inside: BOOLEAN, croppable: BOOLEAN]

Record == [img: Images, sized: BOOLEAN, rects: Seq(Rectangle)]

ASSUME DBAssumption == DBs \subseteq Seq(Record)

\* What a loop that passes over the other positions gathers of s: the elements at
\* the positions P, in their order.
Selected(s, P) ==
  FlattenSeq([j \in DOMAIN s |-> IF j \in P THEN <<s[j]>> ELSE << >>])

VARIABLES
  pc,   \* pc[r]: the next file operation of the run
  db,   \* db[r]: the records get_images_db gives the run
  at    \* at[r]: the position of the record the loop is at

-----------------------------------------------------------------------------

Ended(r)    == pc[r] \in {"done", "failed", "crashed"}
HasBegun(r) == pc[r] # "idle"
AllEnded    == \A r \in Runs : Ended(r)

WalkInit ==
  /\ pc = [r \in Runs |-> "idle"]
  /\ db = [r \in Runs |-> << >>]
  /\ at = [r \in Runs |-> 1]

Goto(r, label) == pc' = [pc EXCEPT ![r] = label]

HasRecord(r)  == at[r] \in DOMAIN db[r]
Current(r)    == db[r][at[r]]
NextRecord(r) == at' = [at EXCEPT ![r] = @ + 1] /\ Goto(r, "record")

\* The call, when everything it needs first can be had, or else its failure.
Start(r, label) ==
  /\ pc[r] = "idle"
  /\ \A q \in 1..(r - 1) : pc[q] # "idle" /\ (Concurrent \/ Ended(q))
  /\ \E records \in DBs : db' = [db EXCEPT ![r] = records]
  /\ \E ready \in BOOLEAN : Goto(r, IF ready THEN label ELSE "failed")
  /\ UNCHANGED at

\* The runs whose exporter object, with the members they have left in it, run r
\* may be made on: a new one, or that of a call which is over.
ObjectsOf(r) == {r} \cup {q \in 1..(r - 1) : pc[q] \in {"done", "failed"}}

EndWalk(r, label) ==
  /\ pc[r] = "record" /\ ~HasRecord(r)
  /\ Goto(r, label)
  /\ UNCHANGED <<db, at>>

\* The process is killed between two file operations.
Kill(r) ==
  /\ HasBegun(r) /\ ~Ended(r)
  /\ Goto(r, "crashed")
  /\ UNCHANGED <<db, at>>

IsLast(r) == HasBegun(r) /\ (r = NRuns \/ pc[r + 1] = "idle")

\* The run has succeeded and none has begun after it.
Published(r) == IsLast(r) /\ pc[r] = "done"
=============================================================================
