----------------------------- MODULE ImageStore -----------------------------
(***************************************************************************)
(* What the exporters which copy images promise of the export directory,   *)
(* whichever descriptors they write: the copies only ever grow in number,  *)
(* an export enters a copy into its descriptors at most once and only when *)
(* the copy is complete, and the number an export publishes is the number  *)
(* of the copies it has entered.                                           *)
(***************************************************************************)
EXTENDS Naturals, Sequences

CONSTANTS
  Runs,     \* the exports made into the directory
  Images    \* the source images

VARIABLES
  phase,      \* phase[r]: how far the export is
  copies,     \* the image files of the directory: from names to copies
  kept,       \* kept[r]: the names entered into the descriptors, in order
  published   \* the number the last successful export has published,
              \* 0 when there is none or its descriptor is withdrawn

vars == <<phase, copies, kept, published>>

Copy == [of: Images, whole: BOOLEAN]

\* The names some export has entered.
AllKept == UNION {{kept[r][i] : i \in DOMAIN kept[r]} : r \in Runs}

Init ==
  /\ phase = [r \in Runs |-> "idle"]
  /\ copies = << >>
  /\ kept = [r \in Runs |-> << >>]
  /\ published = 0

Start(r) ==
  /\ phase[r] = "idle"
  /\ \E p \in {"running", "stopped"} : phase' = [phase EXCEPT ![r] = p]
  /\ UNCHANGED <<copies, kept, published>>

\* A copy is made under a name no image has; it may end up incomplete.
Add(r) ==
  /\ phase[r] = "running"
  /\ \E n \in DOMAIN copies' \ DOMAIN copies :
       /\ copies'[n] \in Copy
       /\ copies' = [m \in DOMAIN copies \cup {n} |->
                       IF m = n THEN copies'[n] ELSE copies[m]]
  /\ UNCHANGED <<phase, kept, published>>

\* A complete copy no export has entered yet is entered.
Keep(r) ==
  /\ phase[r] = "running"
  /\ \E n \in DOMAIN copies \ AllKept :
       /\ copies[n].whole
       /\ kept' = [kept EXCEPT ![r] = Append(@, n)]
  /\ UNCHANGED <<phase, copies, published>>

Publish(r) ==
  /\ phase[r] = "running"
  /\ phase' = [phase EXCEPT ![r] = "done"]
  /\ published' = Len(kept[r])
  /\ UNCHANGED <<copies, kept>>

\* The descriptor of an earlier export is truncated before it is written anew.
Withdraw(r) ==
  /\ phase[r] = "running"
  /\ published' = 0
  /\ UNCHANGED <<phase, copies, kept>>

\* The export fails or its process dies: what was copied stays.
Stop(r) ==
  /\ phase[r] = "running"
  /\ phase' = [phase EXCEPT ![r] = "stopped"]
  /\ UNCHANGED <<copies, kept, published>>

Next == \E r \in Runs : Start(r) \/ Add(r) \/ Keep(r) \/ Publish(r) \/ Withdraw(r)
                      \/ Stop(r)

Spec == Init /\ [][Next]_vars
=============================================================================
