-------------------------- MODULE CreateMLExporter --------------------------
(***************************************************************************)
(* CreateML2FolderExporter: the images and the one JSON descriptor share   *)
(* the export directory, and the name of the descriptor is kept from the   *)
(* images.                                                                 *)
(***************************************************************************)
EXTENDS CopyingExporter

VARIABLES
  imagesJson,   \* imagesJson[r]: the elements collected while copying
  document      \* annotations.json, beside the images

vars == <<pc, db, at, dest, images, imagesJson, document>>

-----------------------------------------------------------------------------

annotationsRel == Own("annotations", "json")

\* The document as it is on the disk: there is none, it is opened and empty, it
\* is written, or what two exports have written is mixed up in it.
NoDocument       == [state |-> "none"]
EmptyDocument(r) == [state |-> "empty", by |-> r]
MixedDocument    == [state |-> "mixed"]

Init ==
  /\ CopyInit
  /\ imagesJson = [r \in Runs |-> << >>]
  /\ document = NoDocument

\* The head of express_images.
cleared(json) == << >>

\* The call finds in its object what an earlier one has left there.
Begin(r) ==
  /\ Enter(r, "record")
  /\ \E o \in ObjectsOf(r) :
       imagesJson' = [imagesJson EXCEPT ![r] = cleared(imagesJson[o])]
  /\ UNCHANGED document

SkipRecord(r) == Skip(r) /\ UNCHANGED <<imagesJson, document>>

Files == DOMAIN images \cup
           (IF document.state = "none" THEN {} ELSE {annotationsRel})

\* Mutant: the name is kept only once the descriptor is there.
taken_when_written == Files

\* taken, the lambda of get_new_filepath.
taken == Files \cup {annotationsRel}

ChooseName(r) ==
  Choose(r, taken) /\ UNCHANGED <<imagesJson, document>>

CopyImage(r) == Copy(r, "entry") /\ UNCHANGED <<imagesJson, document>>

ExpressImage(r) ==
  /\ pc[r] = "entry"
  /\ imagesJson' = [imagesJson EXCEPT ![r] = Append(@,
                      [imagefilename |-> dest[r],
                       annotation    |-> Labels(Current(r).rects)])]
  /\ NextRecord(r)
  /\ UNCHANGED <<db, dest, images, document>>

EndOfRecords(r) == LastRecord(r, "json") /\ UNCHANGED <<imagesJson, document>>

\* An image of that name would be gone with it.
OpenAnnotationsJson(r) ==
  /\ pc[r] = "json"
  /\ \/ /\ document' = EmptyDocument(r)
        /\ images' = [n \in DOMAIN images \ {annotationsRel} |-> images[n]]
        /\ Goto(r, "write")
     \/ Goto(r, "failed") /\ UNCHANGED <<images, document>>
  /\ UNCHANGED <<db, at, dest, imagesJson>>

WriteAnnotationsJson(r) ==
  /\ pc[r] = "write"
  /\ document' = IF document # EmptyDocument(r)
                 THEN MixedDocument
                 ELSE [state |-> "written", by |-> r, entries |-> imagesJson[r]]
  /\ Goto(r, "done")
  /\ UNCHANGED <<db, at, dest, images, imagesJson>>

Crash(r) == Die(r) /\ UNCHANGED <<imagesJson, document>>

Step(r) ==
  \/ SkipRecord(r) \/ ChooseName(r) \/ CopyImage(r) \/ ExpressImage(r)
  \/ EndOfRecords(r) \/ OpenAnnotationsJson(r) \/ WriteAnnotationsJson(r)

Finished == AllEnded /\ UNCHANGED vars

Next == (\E r \in Runs : Begin(r) \/ Step(r) \/ Crash(r)) \/ Finished

Spec == Init /\ [][Next]_vars

-----------------------------------------------------------------------------
(* Properties *)

IsWritten == document.state = "written"

\* Every image of the written descriptor is a complete copy of a record of the
\* export that has written it, under a name of its own, with the names of the
\* visible rectangles of that record; and it stays so.
DescriptorReadsTrue ==
  IsWritten =>
    \A k \in DOMAIN document.entries :
      /\ \E i \in DOMAIN db[document.by] :
           /\ CopyOf(document.by, document.entries[k].imagefilename, i)
           /\ document.entries[k].annotation = Labels(db[document.by][i].rects)
      /\ \A l \in DOMAIN document.entries :
           document.entries[l].imagefilename = document.entries[k].imagefilename
             => l = k

Entries(r) == [k \in DOMAIN imagesJson[r] |-> imagesJson[r][k].imagefilename]
=============================================================================
