------------------------ MODULE DxxwjzFolderExporter ------------------------
(***************************************************************************)
(* Dxxwjz2FolderExporter and its heir Dxxwjz3FolderExporter: the darknet   *)
(* YOLO v4 export and, when it has succeeded, the network to train beside  *)
(* its cfg.  The heir differs by the extension of the file and by how the  *)
(* text of the cfg is spelled.                                             *)
(*                                                                         *)
(* pc[r] is the run inside the YOLO v4 export; last[r] is what comes after *)
(* that export.                                                            *)
(***************************************************************************)
EXTENDS Yolo4Exporter

VARIABLES
  last,      \* last[r]: the next file operation after the YOLO v4 export
  network    \* cfg/yolov4-obj.dxxwjz2

folderVars == <<vars, last, network>>

-----------------------------------------------------------------------------

\* The file on the disk: there is none, it is opened and empty, its write ended
\* early, it is written, or what two exports have written is mixed up in it.
NoNetwork      == [state |-> "none"]
OpenNetwork(r) == [state |-> "empty", by |-> r]
CutNetwork     == [state |-> "cut"]
MixedNetwork   == [state |-> "mixed"]

FolderInit ==
  /\ Init
  /\ last = [r \in Runs |-> "open"]
  /\ network = NoNetwork

\* export_db of the darknetxx has returned or its process has died.
FolderEnded(r) == pc[r] \in {"failed", "crashed"} \/ last[r] \in {"done", "failed", "crashed"}

FolderBegin(r) ==
  /\ \A q \in 1..(r - 1) : Concurrent \/ FolderEnded(q)
  /\ Begin(r)
  /\ UNCHANGED <<last, network>>

Yolo4Step(r) == Step(r) /\ UNCHANGED <<last, network>>

\* The text express_yolocfg has kept.
yoloCfg(r) ==
  [classes |-> Cardinality(aList[r]), images |-> exportedImages[r], made |-> TRUE]

\* Mutant: the network is written although the file does not open.
OpenNetworkUnchecked(r) ==
  /\ pc[r] = "done" /\ last[r] = "open"
  /\ network' \in {OpenNetwork(r), network}
  /\ last' = [last EXCEPT ![r] = "write"]
  /\ UNCHANGED vars

\* express_network_to_train up to create_file_writer, which truncates the
\* network of an earlier export.
CreateFileWriter(r) ==
  /\ pc[r] = "done" /\ last[r] = "open"
  /\ \/ network' = OpenNetwork(r) /\ last' = [last EXCEPT ![r] = "write"]
     \/ last' = [last EXCEPT ![r] = "failed"] /\ UNCHANGED network
  /\ UNCHANGED vars

\* write_network: the cfg text and the class names by their indexes.
Network(r) ==
  [state   |-> "written",
   cfg     |-> yoloCfg(r),
   classes |-> [c \in aList[r] |-> ClassIndex(aList[r], c)]]

\* The gzip stream is written and closed; its close decides on the export.
WriteNetwork(r) ==
  /\ last[r] = "write"
  /\ \E written \in BOOLEAN :
       /\ network' = IF network # OpenNetwork(r) THEN MixedNetwork
                     ELSE IF written THEN Network(r) ELSE CutNetwork
       /\ last' = [last EXCEPT ![r] = IF written THEN "done" ELSE "failed"]
  /\ UNCHANGED vars

FolderCrash(r) ==
  \/ Crash(r) /\ UNCHANGED <<last, network>>
  \/ /\ pc[r] = "done" /\ ~FolderEnded(r)
     /\ last' = [last EXCEPT ![r] = "crashed"]
     /\ UNCHANGED <<vars, network>>

FolderFinished == (\A r \in Runs : FolderEnded(r)) /\ UNCHANGED folderVars

FolderNext ==
  \/ \E r \in Runs : \/ FolderBegin(r) \/ Yolo4Step(r)
                     \/ CreateFileWriter(r) \/ WriteNetwork(r) \/ FolderCrash(r)
  \/ FolderFinished

FolderSpec == FolderInit /\ [][FolderNext]_folderVars

-----------------------------------------------------------------------------
(* Properties *)

\* After a successful export the network to train is whole and describes the
\* very cfg and the very class names the directory holds beside it, and the
\* lists and descriptors of the directory agree with one another.
DirectoryAgrees ==
  /\ DescriptorsAgree
  /\ \A r \in Runs : IsLast(r) /\ last[r] = "done" =>
       /\ network.state = "written"
       /\ network.cfg = cfg
       /\ network.classes
            = [c \in disk[ObjNames].classes |-> ClassIndex(disk[ObjNames].classes, c)]
=============================================================================
