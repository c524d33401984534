----------------------------- MODULE CacheName -----------------------------
(***************************************************************************)
(* The extension ImageLoader gives a cached image, the one its copy in     *)
(* every data set will have: that of the content type of the answer, or of *)
(* the path of the URL when the server names no type.                      *)
(*                                                                         *)
(* A content type is a sequence of words, each with a length, and a path a *)
(* sequence of "/", "." and letters.                                       *)
(***************************************************************************)
EXTENDS Integers, Sequences, SequencesExt, FiniteSetsExt

CONSTANTS
  Width,      \* the words of the content types: a function to their lengths
  Letters,    \* the letters of the paths
  MaxWords,   \* bound: the words of a content type
  MaxPath     \* bound: the length of a path

ASSUME NamesAssumption ==
  /\ {"image/", "+"} \subseteq DOMAIN Width /\ Width["image/"] = 6
  /\ \A w \in DOMAIN Width : Width[w] \in Nat \ {0}
  /\ {"/", "."} \cap Letters = {}
  /\ {MaxWords, MaxPath} \subseteq Nat

VARIABLES mime, urlpath

-----------------------------------------------------------------------------
(* The code *)

MAX_MIME_LENGTH == 20

Length(m) == FoldSeq(LAMBDA w, sum : sum + Width[w], 0, m)

\* Where an element stands first, or the position after the last one.
Find(s, e) == Min({p \in DOMAIN s : s[p] = e} \cup {Len(s) + 1})

\* Mutant: the dot is looked for in the whole path.
try_fetch_extension_anywhere(path) ==
  LET back    == Reverse(path)
      lastDot == Find(back, ".")
  IN  IF lastDot \in {1, Len(back) + 1} THEN << >>
      ELSE Reverse(SubSeq(back, 1, lastDot - 1))

\* What is behind the last dot of what is behind the last slash.
try_fetch_extension(path) ==
  LET back      == Reverse(path)
      lastSlash == Find(back, "/")
      lastDot   == Find(SubSeq(back, 1, lastSlash - 1), ".")
  IN  IF lastDot \in {lastSlash, 1} THEN << >>
      ELSE Reverse(SubSeq(back, 1, lastDot - 1))

\* What is behind "image/", up to a plus sign; a long type has no extension.
get_mime_extension(m, path) ==
  LET subtype == SubSeq(m, Find(m, "image/") + 1, Len(m))
  IN  CASE m = << >> -> try_fetch_extension(path)
        [] m # << >> /\ Length(m) >= MAX_MIME_LENGTH -> << >>
        [] OTHER -> SubSeq(subtype, 1, Find(subtype, "+") - 1)

-----------------------------------------------------------------------------
(* The answers *)

NoAnswer == mime = << >> /\ urlpath = << >>

\* A path grows while the type is open, a type beside the short paths.
NextAnswer ==
  \/ /\ Len(mime) < MaxWords /\ Len(urlpath) <= 2
     /\ \E w \in DOMAIN Width : mime' = Append(mime, w)
     /\ UNCHANGED urlpath
  \/ /\ Len(urlpath) < MaxPath /\ mime = << >>
     /\ \E c \in Letters \cup {"/", "."} : urlpath' = Append(urlpath, c)
     /\ UNCHANGED mime

\* The parts a sequence can be cut into at one place.
Ends(s) == {SubSeq(s, p, Len(s)) : p \in 1..(Len(s) + 1)}

Segment == CHOOSE e \in Ends(urlpath) :
  /\ "/" \notin Range(e)
  /\ \A f \in Ends(urlpath) : "/" \notin Range(f) => Len(f) <= Len(e)

\* An image of a server that names no type has the letters behind the last dot
\* of its file name for an extension, never those of a directory of its path,
\* and none when the name has no dot or ends in one; any other image has what
\* its type is called between "image/" and the suffix, or none.
ExtensionIsOfTheImage ==
  LET ext == get_mime_extension(mime, urlpath)
  IN  IF mime = << >>
      THEN IF "." \in Range(Segment) /\ Last(Segment) # "."
           THEN ext # << >> /\ Range(ext) \subseteq Letters
                  /\ <<".">> \o ext \in Ends(Segment)
           ELSE ext = << >>
      ELSE /\ "+" \notin Range(ext)
           /\ ext # << >> => \E e \in Ends(mime) : IsPrefix(<<"image/">> \o ext, e)
           /\ \A w \in DOMAIN Width : mime = <<"image/", w>> /\ w # "+" =>
                ext = IF Length(mime) >= MAX_MIME_LENGTH THEN << >> ELSE <<w>>
=============================================================================
