---------------------------- MODULE ImageLoader ----------------------------
(***************************************************************************)
(* ImageLoader::load and the CURLController it downloads through: a web    *)
(* hosted record is downloaded into a cache file once, and every later     *)
(* load finds that file by the record's tmppath.                           *)
(*                                                                         *)
(* Every exporter has a loader with a controller of its own, and exporters *)
(* may run at once: their loaders share the cache directory of the process *)
(* only.  Each calls load one record after another, in any order and again *)
(* for a record already loaded or failed before.  The network may answer   *)
(* with the image, with an error page or break off; any file operation may *)
(* fail; the system may clean the temporary directory.                     *)
(*                                                                         *)
(* Nothing keeps two loaders from reading the same microsecond: a name is  *)
(* looked for in one step and its file made in a later one, without a lock *)
(* and without O_EXCL, so that both may come to one file.  What they write *)
(* into it at once is of both.  OwnBytesOnly and OthersCopiesKept are of    *)
(* the other files, LoadedIsWhole is of these too and does not hold.       *)
(***************************************************************************)
EXTENDS Naturals, Sequences, SequencesExt, FiniteSets

CONSTANTS
  Loaders,      \* the image loaders of the exporters at work
  Records,      \* the image records
  Own,          \* Own[l]: the records of the loader's database
  DirAddress,   \* DirAddress[r], PathAddress[r]: the host of abs_dir_path and
  PathAddress,  \*   of path, NoHost, Broken, or NotUrl without "://" in it
  Hosts,        \* the hosts
  Parts,        \* into how many pieces libcurl splits an answer
  Clock,        \* the readings of the clock: they may repeat, for all loaders
  MaxLoads,     \* a bound on the calls of all loaders
  NetFaults,    \* may a transfer break off or bring an error page, or
                \*   libcurl give no context?
  MaxCleans,    \* a bound on the files the system cleans away
  DiskFaults    \* may a file fail to open or to take what is written?

NotUrl == "not a URL"
NoHost == "a URL of no host"     \* file:///image.png
Broken == "no URL for libcurl"

ASSUME RecordAssumption ==
  /\ Own \in [Loaders -> SUBSET Records]
  /\ \A l, m \in Loaders : l # m => Own[l] \cap Own[m] = {}
  /\ {DirAddress, PathAddress} \subseteq
       [Records -> Hosts \cup {NotUrl, NoHost, Broken}]
ASSUME SizeAssumption   == Parts \in Nat \ {0} /\ {MaxLoads, MaxCleans} \subseteq Nat
ASSUME FaultAssumption  == {NetFaults, DiskFaults} \subseteq BOOLEAN

VARIABLES
  pc,        \* pc[l]: where the call is
  ir,        \* ir[l]: the record of the call
  curl,      \* curl[l]: has the controller got its easy context?
  cbuff,     \* cbuff[l]: the controller's buffer, kept between the calls
  irfpath,   \* irfpath[l]: the path generate_new_filepath has found, till it is made
  tmppath,   \* tmppath[r]: the cache file of the record, or None
  dirs,      \* the hosts with a directory in the cache
  cache,     \* the cache files: a function from paths to contents
  result,    \* result[r]: what the last load of the record returned
  loads,     \* the number of calls so far
  cleans     \* the number of files cleaned away so far

call  == <<pc, ir, curl, cbuff, irfpath>>
disk  == <<dirs, cache, cleans>>
vars  == <<call, disk, tmppath, result, loads>>

None == [host |-> NoHost, stamp |-> "none", nr |-> 0, ext |-> ""]

\* has_urls, for abs_dir_path and path.
HasUrls(r) == DirAddress[r] # NotUrl \/ PathAddress[r] # NotUrl

\* get_ir_path: a path is resolved against the URL of its directory, a path
\* that is a URL replaces it, and behind a local directory it is no URL.
Address(r) ==
  CASE DirAddress[r] # NotUrl /\ PathAddress[r] = NotUrl -> DirAddress[r]
    [] DirAddress[r] # NotUrl /\ PathAddress[r] # NotUrl -> PathAddress[r]
    [] OTHER -> Broken

\* get_absolute_url gives an empty URL when libcurl cannot resolve one.
UrlIsEmpty(r) == PathAddress[r] = NotUrl /\ DirAddress[r] = Broken

\* generate_new_filepath: the time, then the time with -1, -2, ..., and the
\* extension, in the directory of the host.
PathName(h, stamp, k, ext) ==
  [host |-> h, stamp |-> stamp, nr |-> k, ext |-> ext]

\* The pieces of a record's image, and of the page a server sends instead.
Image(r) == [i \in 1..Parts |-> [of |-> r, page |-> FALSE, part |-> i]]
Page(r)  == [i \in 1..Parts |-> [of |-> r, page |-> TRUE, part |-> i]]

\* The extension of the answer's content type: a page is no image/ type.
Extension(answer) == IF answer[1].page THEN "" ELSE "png"

Init ==
  /\ pc = [l \in Loaders |-> "idle"]
  /\ ir = [l \in Loaders |-> CHOOSE r \in Records : TRUE]
  /\ curl \in [Loaders -> IF NetFaults THEN BOOLEAN ELSE {TRUE}]
  /\ cbuff = [l \in Loaders |-> << >>]
  /\ irfpath = [l \in Loaders |-> None]
  /\ tmppath = [r \in Records |-> None]
  /\ dirs = {}
  /\ cache = << >>
  /\ result = [r \in Records |-> "none"]
  /\ loads = 0
  /\ cleans = 0

Goto(l, where) == pc' = [pc EXCEPT ![l] = where]

Return(l, value) ==
  /\ Goto(l, "idle")
  /\ result' = [result EXCEPT ![ir[l]] = value]

HasCopy(r) == tmppath[r] # None /\ tmppath[r] \in DOMAIN cache

\* Mutant: the buffer keeps what an earlier transfer has left.
LoadWithoutClear(l, r) ==
  /\ pc[l] = "idle" /\ loads < MaxLoads /\ r \in Own[l]
  /\ loads' = loads + 1
  /\ ir' = [ir EXCEPT ![l] = r]
  /\ \/ /\ HasCopy(r) \/ ~HasUrls(r) \/ UrlIsEmpty(r)
        /\ result' = [result EXCEPT ![r] =
                        IF HasCopy(r) \/ ~HasUrls(r) THEN "true" ELSE "false"]
        /\ UNCHANGED pc
     \/ /\ ~HasCopy(r) /\ HasUrls(r) /\ ~UrlIsEmpty(r)
        /\ Goto(l, "receive")
        /\ UNCHANGED result
  /\ UNCHANGED <<curl, cbuff, irfpath, tmppath, disk>>

\* load up to the transfer, which starts by clearing the buffer.
Load(l, r) ==
  /\ pc[l] = "idle" /\ loads < MaxLoads /\ r \in Own[l]
  /\ loads' = loads + 1
  /\ ir' = [ir EXCEPT ![l] = r]
  /\ \/ /\ HasCopy(r) \/ ~HasUrls(r) \/ UrlIsEmpty(r)
        /\ result' = [result EXCEPT ![r] =
                        IF HasCopy(r) \/ ~HasUrls(r) THEN "true" ELSE "false"]
        /\ UNCHANGED <<pc, cbuff>>
     \/ /\ ~HasCopy(r) /\ HasUrls(r) /\ ~UrlIsEmpty(r)
        /\ Goto(l, "receive")
        /\ cbuff' = [cbuff EXCEPT ![l] = << >>]
        /\ UNCHANGED result
  /\ UNCHANGED <<curl, irfpath, tmppath, disk>>

\* What libcurl may hand over for the record: nothing without a context or
\* for a URL it does not take.
Answers(l) ==
  IF ~curl[l] \/ Address(ir[l]) = Broken THEN {}
  ELSE {Image(ir[l])} \cup (IF NetFaults THEN {Page(ir[l])} ELSE {})

\* wcallback appends what libcurl hands it.
Receive(l) ==
  /\ pc[l] = "receive"
  /\ \E answer \in Answers(l) :
       /\ IsStrictPrefix(cbuff[l], answer)
       /\ cbuff' = [cbuff EXCEPT ![l] = Append(@, answer[Len(@) + 1])]
  /\ UNCHANGED <<pc, ir, curl, irfpath, tmppath, disk, result, loads>>

\* curl_easy_perform returns, with CURLE_OK or after a timeout: download hands
\* the buffer over either way, and only an empty one is refused.
EndTransfer(l) ==
  /\ pc[l] = "receive"
  /\ NetFaults \/ Answers(l) = {} \/ Len(cbuff[l]) = Parts
  /\ \/ cbuff[l] = << >> /\ Return(l, "false")
     \/ cbuff[l] # << >> /\ Goto(l, "look") /\ UNCHANGED result
  /\ UNCHANGED <<ir, curl, cbuff, irfpath, tmppath, disk, loads>>

\* Mutant: the call does not look at the empty path.
UnnamedUnnoticed(l) ==
  /\ tmppath' = [tmppath EXCEPT ![ir[l]] = None]
  /\ Return(l, "true")

\* A cache path that cannot be made is an empty tmppath.
Unnamed(l) ==
  /\ tmppath' = [tmppath EXCEPT ![ir[l]] = None]
  /\ Return(l, "false")

\* get_directory_path and the first look at the directory.  The host of a URL
\* that has none is a null pointer, and std::string's exception leaves load.
LookForDirectory(l) ==
  /\ pc[l] = "look"
  /\ \/ Address(ir[l]) = NoHost /\ Return(l, "thrown")
     \/ /\ Address(ir[l]) # NoHost
        /\ Goto(l, IF Address(ir[l]) \in dirs THEN "name" ELSE "mkdir")
        /\ UNCHANGED result
  /\ UNCHANGED <<ir, curl, cbuff, irfpath, tmppath, disk, loads>>

\* Mutant: a directory that cannot be made restarts the download.
CreateDirectoryRestarting(l) ==
  /\ pc[l] = "mkdir"
  /\ Goto(l, "receive")
  /\ cbuff' = [cbuff EXCEPT ![l] = << >>]
  /\ UNCHANGED <<ir, curl, irfpath, tmppath, disk, result, loads>>

\* std::filesystem::create_directories makes the directory; it gives false
\* when another loader has made it in between, and the load fails.
CreateDirectory(l) ==
  /\ pc[l] = "mkdir"
  /\ \/ /\ Address(ir[l]) \notin dirs
        /\ dirs' = dirs \cup {Address(ir[l])}
        /\ Goto(l, "name")
        /\ UNCHANGED <<tmppath, result>>
     \/ /\ DiskFaults \/ Address(ir[l]) \in dirs
        /\ Unnamed(l)
        /\ UNCHANGED dirs
  /\ UNCHANGED <<ir, curl, cbuff, irfpath, cache, cleans, loads>>

\* Mutant: the time alone is the name.
GenerateNameByTime(l) ==
  /\ pc[l] = "name"
  /\ \E s \in Clock :
       irfpath' = [irfpath EXCEPT ![l] =
                    PathName(Address(ir[l]), s, 0, Extension(cbuff[l]))]
  /\ Goto(l, "create")
  /\ UNCHANGED <<ir, curl, cbuff, tmppath, disk, result, loads>>

\* The first unused name for the time of the clock and the type of the answer.
GenerateName(l) ==
  /\ pc[l] = "name"
  /\ \E s \in Clock, k \in 0..Cardinality(DOMAIN cache) :
       LET Name(j) == PathName(Address(ir[l]), s, j, Extension(cbuff[l]))
       IN  /\ Name(k) \notin DOMAIN cache
           /\ \A j \in 0..(k - 1) : Name(j) \in DOMAIN cache
           /\ irfpath' = [irfpath EXCEPT ![l] = Name(k)]
  /\ Goto(l, "create")
  /\ UNCHANGED <<ir, curl, cbuff, tmppath, disk, result, loads>>

Put(n, c) == [m \in DOMAIN cache \cup {n} |-> IF m = n THEN c ELSE cache[m]]

\* create_file makes the file empty; only then is tmppath assigned.
CreateFile(l) ==
  /\ pc[l] = "create"
  /\ \/ /\ cache' = Put(irfpath[l], << >>)
        /\ tmppath' = [tmppath EXCEPT ![ir[l]] = irfpath[l]]
        /\ Goto(l, "write")
        /\ UNCHANGED result
     \/ DiskFaults /\ Unnamed(l) /\ UNCHANGED cache
  /\ irfpath' = [irfpath EXCEPT ![l] = None]
  /\ UNCHANGED <<ir, curl, cbuff, dirs, cleans, loads>>

\* write_data opens the file again: when it does not open the call fails with
\* tmppath left at the empty file; a write that falls short goes unnoticed.
WriteData(l) ==
  /\ pc[l] = "write"
  /\ LET path == tmppath[ir[l]]
     IN  \/ cache' = Put(path, cbuff[l]) /\ Return(l, "true")
         \/ /\ DiskFaults
            /\ \E n \in 0..(Len(cbuff[l]) - 1) :
                 cache' = Put(path, SubSeq(cbuff[l], 1, n))
            /\ Return(l, "true")
         \/ DiskFaults /\ Return(l, "false") /\ UNCHANGED cache
  /\ UNCHANGED <<ir, curl, cbuff, irfpath, tmppath, dirs, cleans, loads>>

\* The system removes a file of the temporary directory, at any time.
CleanTmp ==
  /\ cleans < MaxCleans
  /\ cleans' = cleans + 1
  /\ \E n \in DOMAIN cache :
       cache' = [m \in DOMAIN cache \ {n} |-> cache[m]]
  /\ UNCHANGED <<call, dirs, tmppath, result, loads>>

Call(l) ==
  \/ Receive(l) \/ EndTransfer(l) \/ LookForDirectory(l) \/ CreateDirectory(l)
  \/ GenerateName(l) \/ CreateFile(l) \/ WriteData(l)

Next ==
  \/ \E l \in Loaders, r \in Records : Load(l, r)
  \/ \E l \in Loaders : Call(l)
  \/ CleanTmp

Spec == Init /\ [][Next]_vars

\* A call is executed by its thread, and libcurl's timeouts end a transfer.
FairSpec == Spec /\ \A l \in Loaders : WF_vars(Call(l))

-----------------------------------------------------------------------------
Path  == [host: Hosts, stamp: Clock, nr: Nat, ext: {"", "png"}]
Piece == [of: Records, page: BOOLEAN, part: 1..Parts]

\* The types of the variables of the loaders and of their cache.
TypeOK ==
  /\ pc \in [Loaders -> {"idle", "receive", "look", "mkdir", "name", "create",
                          "write"}]
  /\ ir \in [Loaders -> Records]
  /\ curl \in [Loaders -> BOOLEAN]
  /\ cbuff \in [Loaders -> Seq(Piece)]
  /\ irfpath \in [Loaders -> Path \cup {None}]
  /\ tmppath \in [Records -> Path \cup {None}]
  /\ dirs \subseteq Hosts
  /\ DOMAIN cache \subseteq Path
  /\ \A n \in DOMAIN cache : cache[n] \in Seq(Piece)
  /\ result \in [Records -> {"none", "true", "false", "thrown"}]
  /\ loads \in 0..MaxLoads
  /\ cleans \in 0..MaxCleans

\* No other record has the record's cache file.
Alone(r) == \A q \in Records \ {r} : tmppath[q] # tmppath[r]

\* ... nor will one get it: no loader has found its name and not made it yet.
Undisputed(r) ==
  Alone(r) /\ \A l \in Loaders : pc[l] = "create" => irfpath[l] # tmppath[r]

\* A cache file that is its record's alone, with no loader on its way to the
\* same name, remains so: it keeps its name and its bytes through all later
\* loads of all loaders, although the readings of the clock repeat and nothing
\* locks the directory.  (Once the system has removed a file its name may be
\* given again.)
OthersCopiesKept ==
  [][cleans' = 0 =>
       \A r \in Records : HasCopy(r) /\ Undisputed(r) =>
         /\ tmppath'[r] = tmppath[r] /\ tmppath[r] \in DOMAIN cache'
         /\ Undisputed(r)'
         /\ \/ cache'[tmppath[r]] = cache[tmppath[r]]
            \/ \E l \in Loaders : pc[l] = "write" /\ ir[l] = r]_vars

\* One loader never gives two of its records one file, and a file no other
\* loader has named meanwhile holds bytes of the record's own URL only: nothing
\* of an earlier transfer through the same buffer, and no piece out of its
\* place, unless the system has removed a file before.
OwnBytesOnly ==
  cleans = 0 => \A r \in Records : HasCopy(r) =>
    /\ \A l \in Loaders : r \in Own[l] =>
         \A q \in Own[l] \ {r} : tmppath[q] # tmppath[r]
    /\ Alone(r) =>
         \E whole \in {Image(r), Page(r)} : IsPrefix(cache[tmppath[r]], whole)

\* A web record the last load of which has succeeded has its cache file for
\* the exporter to copy, unless the system has removed it since.
SuccessLeavesFile ==
  [][\A l \in Loaders : pc[l] # "idle" /\ pc'[l] = "idle" /\ result'[ir[l]] = "true" =>
        tmppath'[ir[l]] # None /\ tmppath'[ir[l]] \in DOMAIN cache']_vars

\* When no load is at work a record whose last load has succeeded has its whole
\* image in the cache: not a part of it, no page, no other record's image.  (Not
\* so: two loaders may come to one file.)
LoadedIsWhole ==
  (\A l \in Loaders : pc[l] = "idle") =>
    \A r \in Records : HasCopy(r) /\ result[r] = "true" =>
      cache[tmppath[r]] = Image(r)

\* Every call returns: a transfer ends, a free name is found, and no load waits
\* for another.
CallsReturn == \A l \in Loaders : [](pc[l] # "idle" => <>(pc[l] = "idle"))
=============================================================================
