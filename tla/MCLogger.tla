------------------------------ MODULE MCLogger ------------------------------
(* The library logs from one thread and the application from another; the  *)
(* application gives its logger a file, without printing, and then another *)
(* file, or the same settings again.                                       *)
EXTENDS Logger

CONSTANTS f1, f2, lib, app

AskOf(to, call, path, lvl, prints) ==
    [to |-> to, call |-> call, path |-> path, lvl |-> lvl, prints |-> prints]

(* Levels: 2 is LVL_WARNING, 3 LVL_INFO.                                   *)
MCSays == lib :> <<{3}, {2, 3}>> @@ app :> <<{2, 3}>>

MCAsks == {AskOf("given", "init", f1, 2, FALSE),
           AskOf("given", "logfile", f2, 3, TRUE)}
=============================================================================
