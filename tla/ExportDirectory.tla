-------------------------- MODULE ExportDirectory --------------------------
(***************************************************************************)
(* What the exporters have in common before any of them runs: how many     *)
(* exports are made into one directory, the images and the classes of the  *)
(* databases they are given, and the names of files.                       *)
(*                                                                         *)
(* A file name keeps its stem as base and tail, so that "-1" appended to   *)
(* the stem "a-2" is the tail <<2, 1>>.  A class name is a number: only    *)
(* the order of the names in the sorted set matters.                       *)
(***************************************************************************)
EXTENDS Integers, Sequences, FiniteSets

CONSTANTS
  NRuns,        \* how many exports are made into the directory
  Concurrent,   \* may a run begin before the previous one has ended?
  Images,       \* the source image files
  Words,        \* the words the stems and the extensions are made of
  SourceName,   \* the file name of each source image
  Classes,      \* the annotation names, as numbers in the sorting order
  DBs           \* the databases a run may find: sequences of records

Runs == 1..NRuns

Filename == [base: Words, tail: Seq(Nat), ext: Words]

ASSUME RunsAssumption  == NRuns \in Nat /\ Concurrent \in BOOLEAN
ASSUME ClassAssumption == Classes \subseteq Nat /\ IsFiniteSet(Classes)
ASSUME NameAssumption  == SourceName \in [Images -> Filename]

-----------------------------------------------------------------------------
(* File names *)

\* A name the exporter itself gives to a file.
Own(base, ext) == [base |-> base, tail |-> << >>, ext |-> ext]

\* The names get_new_filepath tries for n: n, then its stem with -1, -2, ...
Candidate(n, k) == IF k = 0 THEN n ELSE [n EXCEPT !.tail = Append(@, k)]

\* A directory is a function from the names of its files to their contents.
Put(files, n, c) ==
  [m \in DOMAIN files \cup {n} |-> IF m = n THEN c ELSE files[m]]

-----------------------------------------------------------------------------
(* Classes *)

\* Mutant: the indexes are counted from the wrong end of a name.
ClassIndexOffByOne(classes, c) == Cardinality({d \in classes : d < c}) - 1

\* std::distance of a name from the beginning of the sorted set.
ClassIndex(classes, c) == Cardinality({d \in classes : d < c})
=============================================================================
