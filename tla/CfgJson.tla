------------------------------ MODULE CfgJson ------------------------------
(***************************************************************************)
(* Dxxwjz3CfgJson: the text of a network cfg as the JSON structure of the  *)
(* dxxwjz3 files.  A text is a sequence of lines after strip(); a value is *)
(* what it reads as, Null when the line has no "=" and Nothing when there  *)
(* is nothing after it.  CfgNumber has the value itself.                   *)
(***************************************************************************)
EXTENDS CfgNumber

CONSTANTS
  CfgLines,   \* the lines the texts are made of
  MaxLines,   \* bound: the length of a text
  Characters, \* the characters the values are made of
  MaxValue    \* bound: the length of a value

Null    == "null"
Nothing == ""

\* A comment or an empty line, "[name]" or "[name", "key=value".
Comment            == [kind |-> "comment"]
Header(n, closed)  == [kind |-> "header", name |-> n, closed |-> closed]
Option(key, value) == [kind |-> "option", key |-> key, value |-> value]

ASSUME LinesAssumption ==
  /\ {MaxLines, MaxValue} \subseteq Nat
  /\ \A l \in CfgLines :
       CASE l.kind = "header" -> l = Header(l.name, l.closed) /\ l.closed \in BOOLEAN
         [] l.kind = "option" -> l = Option(l.key, l.value)
         [] OTHER             -> l = Comment

VARIABLES
  lines,   \* the text
  value    \* the value of one of its options

-----------------------------------------------------------------------------
(* The code *)

\* One line of the loop of read_sections.
read_line(sections, line) ==
  LET last == Len(sections)
  IN  CASE line.kind = "header" ->
             Append(sections, [header |-> line, options |-> << >>])
        [] line.kind = "option" /\ line.value # Nothing ->
             [sections EXCEPT ![last].options =
                Append(@, [key |-> line.key, value |-> line.value])]
        [] OTHER -> sections

\* An option before the first section stops the reading.
Misplaced(t) ==
  \E p \in DOMAIN t : t[p].kind = "option" /\ \A q \in 1..p : t[q].kind # "header"

read_sections(t) ==
  LET read[p \in 0..Len(t)] == IF p = 0 THEN << >> ELSE read_line(read[p - 1], t[p])
  IN  read[Len(t)]

\* The places P of a sequence, from its beginning.
InOrder(s, P) == FlattenSeq([p \in DOMAIN s |-> IF p \in P THEN <<p>> ELSE << >>])

\* Mutant: a repeated key replaces the option before.
members_last(options) ==
  LET taken == InOrder(options, {p \in DOMAIN options :
                 \A q \in DOMAIN options : options[q].key = options[p].key => q <= p})
  IN  [i \in DOMAIN taken |-> options[taken[i]]]

\* The first option of every key, in the order of the text.
members(options) ==
  LET taken == InOrder(options, {p \in DOMAIN options :
                 \A q \in 1..(p - 1) : options[q].key # options[p].key})
  IN  [i \in DOMAIN taken |-> options[taken[i]]]

\* The constructor: is the text kept, ...
valid(t) ==
  LET sections == read_sections(t)
  IN  /\ ~Misplaced(t)
      /\ sections # << >>
      /\ sections[1].header \in {Header("net", TRUE), Header("network", TRUE)}
      /\ \A k \in DOMAIN sections \ {1} :
           sections[k].header.closed /\ sections[k].header.name # ""

\* ... and as what: the members of "net" and of each of the "layers".
Json(t) ==
  LET sections == read_sections(t)
  IN  [net    |-> members(sections[1].options),
       layers |-> [k \in 1..(Len(sections) - 1) |->
                     [type    |-> sections[k + 1].header.name,
                      options |-> members(sections[k + 1].options)]]]

-----------------------------------------------------------------------------
(* The network, as darknet reads it and as darknetxx writes it back *)

Headers(t) == {p \in DOMAIN t : t[p].kind = "header"}

\* The lines of the section whose header is the line p.
Body(t, p) == {q \in DOMAIN t : q > p /\ \A h \in Headers(t) : h <= p \/ h > q}

\* option_find walks the options of a section from their beginning, so that a
\* key has the value of its first line that was not dropped.
Found(t, p) ==
  LET given == {q \in Body(t, p) : t[q].kind = "option" /\ t[q].value # Nothing}
      first == {q \in given : \A o \in given : o < q => t[o].key # t[q].key}
  IN  {<<t[q].key, t[q].value>> : q \in first}

\* The layers of a network with what darknet finds of their options; the first
\* one is the network's own, whichever of its two names it has.
NetworkRead(t) ==
  LET order == InOrder(t, Headers(t))
  IN  [k \in DOMAIN order |->
         [type |-> IF k = 1 THEN "net" ELSE t[order[k]].name,
          options |-> Found(t, order[k])]]

\* darknetxx turns the structure back into the lines of a text.
CfgOf(json) ==
  LET options(taken) == [i \in DOMAIN taken |-> Option(taken[i].key, taken[i].value)]
  IN  <<Header("net", TRUE)>> \o options(json.net)
        \o FlattenSeq([k \in DOMAIN json.layers |->
             <<Header(json.layers[k].type, TRUE)>> \o options(json.layers[k].options)])

-----------------------------------------------------------------------------

\* The texts, a line longer each time, and the values, a character longer.
NoLines  == lines = << >> /\ value = << >>
NextLine == Len(lines) < MaxLines /\ \E l \in CfgLines : lines' = Append(lines, l)
NextCharacter ==
  Len(value) < MaxValue /\ \E c \in Characters : value' = Append(value, c)

\* The JSON of a text is of the very network darknet reads from the text: the
\* text darknetxx makes of it has the same layers with the same options, however
\* keys repeat, values are missing and comments come in between, and every text
\* that is refused has something darknetxx could not name.
NetworkKept ==
  /\ valid(lines) => NetworkRead(CfgOf(Json(lines))) = NetworkRead(lines)
  /\ ~valid(lines) <=>
       \/ Headers(lines) = {}
       \/ \E p \in DOMAIN lines :
            /\ lines[p].kind # "comment"
            /\ IF \A h \in Headers(lines) : h >= p
               THEN lines[p] \notin {Header("net", TRUE), Header("network", TRUE)}
               ELSE lines[p].kind = "header" /\ (~lines[p].closed \/ lines[p].name = "")

=============================================================================
