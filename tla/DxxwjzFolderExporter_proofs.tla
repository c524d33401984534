-------------------- MODULE DxxwjzFolderExporter_proofs --------------------
(***************************************************************************)
(* The darknetxx folder export is a YOLO v4 export and something after it, *)
(* so whatever is proved of the YOLO v4 export holds of it.                *)
(***************************************************************************)
EXTENDS DxxwjzFolderExporter, Yolo4Exporter_proofs

\* What Dxxwjz2FolderExporter::export_db does before and after the call of the
\* exporter it descends from disturbs no file of that exporter.
THEOREM FolderImplementsYolo4 == FolderSpec => Spec
<1>1. FolderInit => Init
  BY DEF FolderInit
<1>2. ASSUME [FolderNext]_folderVars
      PROVE  [Next]_vars
  <2>1. CASE UNCHANGED folderVars
    BY <2>1 DEF folderVars
  <2>2. CASE FolderFinished
    BY <2>2 DEF FolderFinished, folderVars
  <2>3. ASSUME NEW r \in Runs,
               \/ FolderBegin(r) \/ Yolo4Step(r) \/ CreateFileWriter(r)
               \/ WriteNetwork(r) \/ FolderCrash(r)
        PROVE  [Next]_vars
    BY <2>3 DEF FolderBegin, Yolo4Step, CreateFileWriter, WriteNetwork, FolderCrash, Next
  <2>4. QED
    BY <1>2, <2>1, <2>2, <2>3 DEF FolderNext
<1>3. QED
  BY <1>1, <1>2, PTL DEF FolderSpec, Spec

\* The fields and the files of the YOLO v4 export keep their types while the
\* network to train is written beside them.
THEOREM FolderTypeCorrect == FolderSpec => []TypeOK
BY FolderImplementsYolo4, TypeCorrect, PTL

\* A name in a training list of a darknetxx folder is a complete copy of an
\* image the run had to export, and stays one.
THEOREM FolderListsAreComplete == FolderSpec => []ListedImagesComplete
BY FolderImplementsYolo4, ListedImagesAreComplete, PTL

-----------------------------------------------------------------------------
(***************************************************************************)
(* Exports that follow one another: the network beside the published       *)
(* directory.                                                              *)
(***************************************************************************)

\* Without Concurrent a run begins when export_db of those before it has returned.
FolderTurn == \A r \in Runs : pc[r] # "idle" => \A q \in 1..(r - 1) : FolderEnded(q)

\* What follows the YOLO v4 export follows a successful one.
AfterExport == \A r \in Runs : last[r] # "open" => pc[r] = "done"

\* What the run the directory belongs to has made of the network so far.
NetworkStage(r) ==
  /\ last[r] = "write" => network = OpenNetwork(r)
  /\ last[r] = "done" => network = Network(r)

FolderInv ==
  /\ last \in [Runs -> {"open", "write", "done", "failed", "crashed"}]
  /\ FolderTurn /\ AfterExport
  /\ \A r \in Runs : IsLast(r) => NetworkStage(r)

\* A run that has not ended is the last one that has begun.
LEMMA FolderMoverIsLast ==
  ASSUME FolderTurn, AfterExport, NEW r \in Runs, pc[r] # "idle", ~FolderEnded(r),
         NEW s \in Runs, IsLast(s)
  PROVE  s = r
<1>1. pc[s] # "idle" /\ (s = NRuns \/ pc[s + 1] = "idle")
  BY DEF IsLast, HasBegun
<1>2. ~(s > r)
  <2> SUFFICES ASSUME s > r PROVE FALSE
    OBVIOUS
  <2>1. r \in 1..(s - 1)
    BY RunsAssumption DEF Runs
  <2> QED BY <1>1, <2>1 DEF FolderTurn
<1>3. ~(s < r)
  <2> SUFFICES ASSUME s < r PROVE FALSE
    OBVIOUS
  <2>1. s + 1 \in Runs /\ pc[s + 1] = "idle" /\ (s + 1 = r \/ s + 1 \in 1..(r - 1))
    BY <1>1, RunsAssumption DEF Runs
  <2>2. s + 1 \in 1..(r - 1)
    BY <2>1
  <2>3. FolderEnded(s + 1)
    BY <2>2 DEF FolderTurn
  <2> QED BY <2>1, <2>3 DEF FolderEnded, AfterExport
<1> QED BY <1>2, <1>3, RunsAssumption DEF Runs

\* The steps of the YOLO v4 export and its crash.
LEMMA FolderExportStep ==
  ASSUME ~Concurrent, TurnInv, FolderInv, NEW r \in Runs,
         FolderBegin(r) \/ Yolo4Step(r) \/ (Crash(r) /\ UNCHANGED <<last, network>>)
  PROVE  FolderInv'
<1>1. FieldsOK /\ InTurn /\ UNCHANGED <<last, network>> /\ (Begin(r) \/ Step(r) \/ Crash(r))
  BY Fields DEF TurnInv, StoreInv, ListInv, FolderBegin, Yolo4Step
<1>2. /\ ~Ended(r) /\ pc'[r] # "idle"
      /\ \A s \in Runs \ {r} : pc'[s] = pc[s]
  BY <1>1, StepsOfRun
<1>3. last[r] = "open" /\ ~FolderEnded(r)
  BY <1>2 DEF FolderInv, AfterExport, Ended, FolderEnded
<1>4. AfterExport'
  BY <1>1, <1>2, <1>3 DEF AfterExport, FolderInv
<1>5. FolderTurn'
  <2> SUFFICES ASSUME NEW s \in Runs, pc'[s] # "idle", NEW q \in 1..(s - 1)
               PROVE  FolderEnded(q)'
    BY DEF FolderTurn
  <2>1. q \in Runs
    BY RunsAssumption DEF Runs
  <2>2. FolderEnded(q)
    <3>1. CASE pc[s] # "idle"
      BY <3>1 DEF FolderInv, FolderTurn
    <3>2. CASE pc[s] = "idle"
      <4>1. s = r
        BY <1>2, <3>2
      <4>2. FolderBegin(r)
        BY <1>1, <3>2, <4>1, StepsOfRun DEF FolderBegin, Yolo4Step, Step, Crash,
           ExpressObjNames, ExpressObjData, OpenLists, SkipRecord, ChooseName, CopyImage,
           ExpressImageAnnotations, AppendToLists, CloseLists, ExpressYoloCfg
      <4> QED BY <4>1, <4>2 DEF FolderBegin
    <3> QED BY <3>1, <3>2
  <2> QED BY <1>1, <1>2, <1>3, <2>1, <2>2 DEF FolderEnded
<1>6. ASSUME NEW s \in Runs, IsLast(s)' PROVE NetworkStage(s)'
  <2>1. s = r
    BY <1>1, <1>6, MoverIsLast
  <2> QED BY <1>1, <1>3, <2>1 DEF NetworkStage
<1> QED BY <1>1, <1>4, <1>5, <1>6 DEF FolderInv

\* A step after it, of the run the directory belongs to.
LEMMA FolderLastStep ==
  ASSUME FolderInv, UNCHANGED vars, NEW r \in Runs, pc[r] = "done", ~FolderEnded(r),
         NEW l \in {"write", "done", "failed", "crashed"}, last' = [last EXCEPT ![r] = l],
         IsLast(r) => NetworkStage(r)'
  PROVE  FolderInv'
<1>1. /\ last' \in [Runs -> {"open", "write", "done", "failed", "crashed"}]
      /\ \A s \in Runs \ {r} : last'[s] = last[s]
  BY DEF FolderInv
<1>2. UNCHANGED pc
  BY DEF vars
<1>3. AfterExport'
  BY <1>1, <1>2 DEF FolderInv, AfterExport
<1>4. FolderTurn'
  <2> SUFFICES ASSUME NEW s \in Runs, pc[s] # "idle", NEW q \in 1..(s - 1)
               PROVE  FolderEnded(q)'
    BY <1>2 DEF FolderTurn
  <2>1. q \in Runs /\ FolderEnded(q)
    BY RunsAssumption DEF Runs, FolderInv, FolderTurn
  <2> QED BY <1>1, <1>2, <2>1 DEF FolderEnded
<1>5. ASSUME NEW s \in Runs, IsLast(s)' PROVE NetworkStage(s)'
  <2>1. IsLast(s)
    BY <1>2, <1>5 DEF IsLast, HasBegun
  <2>2. s = r
    BY <2>1, FolderMoverIsLast DEF FolderInv
  <2> QED BY <2>1, <2>2
<1> QED BY <1>1, <1>3, <1>4, <1>5 DEF FolderInv

LEMMA FolderInvStep ==
  ASSUME ~Concurrent, TurnInv, FolderInv, [FolderNext]_folderVars
  PROVE  FolderInv'
<1>1. CASE UNCHANGED folderVars
  <2>1. UNCHANGED <<pc, last, network, aList, exportedImages>>
    BY <1>1 DEF folderVars, vars
  <2> QED BY <2>1 DEF FolderInv, FolderTurn, AfterExport, FolderEnded, IsLast, HasBegun,
          NetworkStage, OpenNetwork, Network, yoloCfg
<1>2. ASSUME NEW r \in Runs, CreateFileWriter(r) PROVE FolderInv'
  <2>1. pc[r] = "done" /\ ~FolderEnded(r) /\ DOMAIN last = Runs /\ UNCHANGED vars
    BY <1>2 DEF CreateFileWriter, FolderEnded, FolderInv
  <2>2. CASE network' = OpenNetwork(r) /\ last' = [last EXCEPT ![r] = "write"]
    <3>1. NetworkStage(r)'
      BY <2>1, <2>2 DEF NetworkStage, OpenNetwork
    <3> QED BY <2>1, <2>2, <3>1, FolderLastStep
  <2>3. CASE last' = [last EXCEPT ![r] = "failed"]
    <3>1. NetworkStage(r)'
      BY <2>1, <2>3 DEF NetworkStage
    <3> QED BY <2>1, <2>3, <3>1, FolderLastStep
  <2> QED BY <1>2, <2>2, <2>3 DEF CreateFileWriter
<1>3. ASSUME NEW r \in Runs, WriteNetwork(r) PROVE FolderInv'
  <2>1. /\ pc[r] = "done" /\ ~FolderEnded(r) /\ DOMAIN last = Runs
        /\ UNCHANGED vars /\ last[r] = "write"
    BY <1>3 DEF WriteNetwork, FolderEnded, FolderInv, AfterExport
  <2>2. PICK written \in BOOLEAN :
          /\ network' = IF network # OpenNetwork(r) THEN MixedNetwork
                        ELSE IF written THEN Network(r) ELSE CutNetwork
          /\ last' = [last EXCEPT ![r] = IF written THEN "done" ELSE "failed"]
    BY <1>3 DEF WriteNetwork
  <2>3. CASE written
    <3>1. last' = [last EXCEPT ![r] = "done"]
      BY <2>2, <2>3
    <3>2. IsLast(r) => network' = Network(r)
      BY <2>1, <2>2, <2>3 DEF FolderInv, NetworkStage
    <3>3. Network(r)' = Network(r)
      BY <2>1 DEF Network, yoloCfg, vars
    <3>4. IsLast(r) => NetworkStage(r)'
      BY <2>1, <3>1, <3>2, <3>3 DEF NetworkStage
    <3> QED BY <2>1, <3>1, <3>4, FolderLastStep
  <2>4. CASE ~written
    <3>1. last' = [last EXCEPT ![r] = "failed"]
      BY <2>2, <2>4
    <3>2. NetworkStage(r)'
      BY <2>1, <3>1 DEF NetworkStage
    <3> QED BY <2>1, <3>1, <3>2, FolderLastStep
  <2> QED BY <2>3, <2>4
<1>4. ASSUME NEW r \in Runs, FolderCrash(r) PROVE FolderInv'
  <2>1. CASE Crash(r) /\ UNCHANGED <<last, network>>
    BY <2>1, FolderExportStep
  <2>2. CASE /\ pc[r] = "done" /\ ~FolderEnded(r)
             /\ last' = [last EXCEPT ![r] = "crashed"]
             /\ UNCHANGED <<vars, network>>
    <3>1. NetworkStage(r)'
      BY <2>2 DEF NetworkStage, FolderInv
    <3> QED BY <2>2, <3>1, FolderLastStep
  <2> QED BY <1>4, <2>1, <2>2 DEF FolderCrash
<1> QED BY <1>1, <1>2, <1>3, <1>4, FolderExportStep DEF FolderNext, FolderFinished

LEMMA FolderInvariant ==
  ASSUME ~Concurrent, ListStemsFree
  PROVE  FolderSpec => []TurnInv /\ []FolderInv
<1>1. FolderInit => FolderInv
  <2> SUFFICES ASSUME FolderInit PROVE FolderInv
    OBVIOUS
  <2>1. \A r \in Runs : pc[r] = "idle"
    BY DEF FolderInit, Init
  <2> QED BY <2>1 DEF FolderInit, FolderInv, FolderTurn, AfterExport, IsLast, HasBegun
<1>2. TurnInv /\ FolderInv /\ [FolderNext]_folderVars => FolderInv'
  BY FolderInvStep
<1>3. Spec => []TurnInv
  BY TurnInvariant
<1> QED BY <1>1, <1>2, <1>3, FolderImplementsYolo4, PTL DEF FolderSpec

\* After a successful export of dxxwjz2 or dxxwjz3 the network to train is whole and
\* describes the very cfg and the very names the directory holds, and the lists and
\* descriptors agree: where exports into it follow one another and no image has the
\* stem of a list, whatever earlier, failed or dead exports have left.
THEOREM DirectoriesAgree ==
  ASSUME ~Concurrent, ListStemsFree
  PROVE  FolderSpec => []DirectoryAgrees
<1>1. TurnInv /\ FolderInv /\ DescriptorsAgree => DirectoryAgrees
  <2> SUFFICES ASSUME TurnInv, FolderInv, NEW r \in Runs, IsLast(r), last[r] = "done"
               PROVE  /\ network.state = "written"
                      /\ network.cfg = cfg
                      /\ network.classes
                           = [c \in disk[ObjNames].classes |->
                                ClassIndex(disk[ObjNames].classes, c)]
    BY DEF DirectoryAgrees
  <2>1. network = Network(r) /\ pc[r] = "done"
    BY DEF FolderInv, NetworkStage, AfterExport
  <2>2. disk[ObjNames] = NamesFile(aList[r]) /\ cfg = yoloCfg(r)
    BY <2>1 DEF TurnInv, Stage, yoloCfg
  <2>3. disk[ObjNames].classes = aList[r]
    BY <2>2 DEF NamesFile
  <2> QED BY <2>1, <2>2, <2>3 DEF Network
<1>2. Spec => []DescriptorsAgree
  BY PublishedFilesAgree
<1>3. FolderSpec => []TurnInv /\ []FolderInv
  BY FolderInvariant
<1> QED BY <1>1, <1>2, <1>3, FolderImplementsYolo4, PTL

\* The labels of a darknetxx folder are those of the images it lists, by the indexes
\* its obj.names gives.
THEOREM FolderLabelsAgree ==
  ASSUME ~Concurrent, StemsTellApart
  PROVE  FolderSpec => []LabelsDescribeImages
<1>1. Spec => []LabelsDescribeImages
  BY PublishedLabelsAgree
<1> QED BY <1>1, FolderImplementsYolo4, PTL
=============================================================================
