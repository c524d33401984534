---------------------------- MODULE EscapedText ----------------------------
(***************************************************************************)
(* The names of classes and files in the documents of the other exporters: *)
(* json_quoted of COCO and Create ML, xml_escaped of Pascal VOC and        *)
(* yaml_quoted of Ultralytics.  They pass on the bytes of a name as they   *)
(* are, in whatever encoding, but for the marks of the document.           *)
(***************************************************************************)
EXTENDS QuotedText

-----------------------------------------------------------------------------
(* The code *)

Escaped(t, Rule(_)) == Walked([p \in DOMAIN t |-> Token(Rule(t[p]), 1)])

\* Both exporters write every control character as \u00 with two digits.
json_rule(code) ==
  CASE code \in {34, 92} -> <<92, code>>
    [] code \in 0..31    -> <<92, 117, 48, 48, hexDigit(code \div 16), hexDigit(code % 16)>>
    [] OTHER             -> <<code>>

\* Mutant: the backslash is written as it is.
json_quoted_but_backslash(t) ==
  Escaped(t, LAMBDA code : IF code = 92 THEN <<92>> ELSE json_rule(code))

\* What stands between the two quotation marks.
json_quoted(t) == Escaped(t, json_rule)

\* &amp; &lt; &gt;
Amp == <<38, 97, 109, 112, 59>>
Lt  == <<38, 108, 116, 59>>
Gt  == <<38, 103, 116, 59>>

\* Control characters but the tab and the line ends have no place in XML.
xml_rule(code) ==
  CASE code = 38 -> Amp
    [] code = 60 -> Lt
    [] code = 62 -> Gt
    [] code \in (0..31) \ {9, 10, 13} -> << >>
    [] OTHER -> <<code>>

\* Mutant: the ampersand is no mark.
xml_escaped_but_ampersand(t) ==
  Escaped(t, LAMBDA code : IF code = 38 THEN <<38>> ELSE xml_rule(code))

xml_escaped(t) == Escaped(t, xml_rule)

\* Mutant: the apostrophe is written once.
yaml_quoted_once(t) == t

\* What stands between the two apostrophes.
yaml_quoted(t) == Escaped(t, LAMBDA code : IF code = 39 THEN <<39, 39>> ELSE <<code>>)

-----------------------------------------------------------------------------
(* The readers of the documents; -1 stands for what is not one *)

StartsAt(s, p, mark) ==
  p + Len(mark) - 1 <= Len(s) /\ SubSeq(s, p, p + Len(mark) - 1) = mark

\* The bytes XML has a place for.
IsXml(code) == code \in 0..255 /\ code \notin (0..31) \ {9, 10, 13}

\* The text of an XML element: references, and line ends made one character.
XmlCharacter(s, p) ==
  CASE StartsAt(s, p, Amp) -> Token(<<38>>, 5)
    [] StartsAt(s, p, Lt)  -> Token(<<60>>, 4)
    [] StartsAt(s, p, Gt)  -> Token(<<62>>, 4)
    [] StartsAt(s, p, <<13, 10>>) -> Token(<<10>>, 2)
    [] s[p] = 13 /\ ~StartsAt(s, p, <<13, 10>>) -> Token(<<10>>, 1)
    [] IsXml(s[p]) /\ s[p] \notin {13, 38, 60} -> Token(<<s[p]>>, 1)
    [] OTHER -> NoToken(s, p)

XmlText(s) == Walked([p \in DOMAIN s |-> XmlCharacter(s, p)])

\* A YAML scalar between apostrophes, on one line.
YamlCharacter(s, p) ==
  CASE StartsAt(s, p, <<39, 39>>) -> Token(<<39>>, 2)
    [] s[p] \in (32..255) \ {39} -> Token(<<s[p]>>, 1)
    [] OTHER -> NoToken(s, p)

YamlText(s) == Walked([p \in DOMAIN s |-> YamlCharacter(s, p)])

\* A name without the control characters XML has no place for, ...
ForXmlKept(t) == Escaped(t, LAMBDA code : IF IsXml(code) THEN <<code>> ELSE << >>)

\* ... its line ends joined.
LinesJoined(t) ==
  Walked([p \in DOMAIN t |->
    CASE StartsAt(t, p, <<13, 10>>) -> Token(<<10>>, 2)
      [] t[p] = 13 /\ ~StartsAt(t, p, <<13, 10>>) -> Token(<<10>>, 1)
      [] OTHER -> Token(<<t[p]>>, 1)])

ForXml(t) == LinesJoined(ForXmlKept(t))

-----------------------------------------------------------------------------

\* The name of a class or a file is in each document what it is in the
\* database, whatever marks it has: quoted as UTF-8 in the network to train,
\* byte by byte in the JSON of COCO and Create ML, but for the characters XML
\* has no place for in a Pascal VOC descriptor, and when it is on one line in
\* data.yaml.
NamesReadBack ==
  /\ QuotedReadsBack
  /\ Unescaped(json_quoted(text)) = text
  /\ XmlText(xml_escaped(text)) = ForXml(text)
  /\ (\A p \in DOMAIN text : text[p] >= 32) => YamlText(yaml_quoted(text)) = text
=============================================================================
