--------------------------- MODULE MCImageLoader ---------------------------
(* Two loaders that share a host: one with a record of every kind of address, *)
(* one with a single web record.                                              *)
EXTENDS ImageLoader

CONSTANTS a, b, w1, w2, w3, local, empty, broken, hostless

MCLoaders == {a, b}
MCRecords == {w1, w2, w3, local, empty, broken, hostless}
MCOwn     == [l \in MCLoaders |-> IF l = b THEN {w3} ELSE MCRecords \ {w3}]
MCHosts   == {"h1", "h2"}

\* w1 and w3 are paths below a web directory; w2 is a URL of the same host,
\* below the directory of another one.
MCDirAddress ==
  [r \in MCRecords |-> CASE r = local    -> NotUrl
                         [] r = broken   -> NotUrl
                         [] r = empty    -> Broken
                         [] r = hostless -> NoHost
                         [] r = w2       -> "h2"
                         [] OTHER        -> "h1"]
MCPathAddress ==
  [r \in MCRecords |-> IF r \in {w2, broken} THEN "h1" ELSE NotUrl]

MCClock == {"t1", "t2"}
=============================================================================
