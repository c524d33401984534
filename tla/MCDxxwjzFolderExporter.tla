----------------------- MODULE MCDxxwjzFolderExporter -----------------------
(* The small instances of MCYolo4Exporter for the exporter which adds the   *)
(* network to train to the directory.                                       *)
EXTENDS MCYolo4Exporter, DxxwjzFolderExporter
=============================================================================
