--------------------------- MODULE MCComputations ---------------------------
(* The computations the exporters make without touching a file: the network *)
(* of yolov4-obj.cfg and its JSON, the cut of a rectangle, the quoting of a *)
(* text and the compression of a buffer.  A behaviour is about one of them. *)
EXTENDS Yolov4CfgWriter, CfgJson, RectangleCut, EscapedText, ZlibBuffers, CacheName

CONSTANT Tasks   \* which of them a run of the checker looks at

\* Projects of no class, of few and of as many as COCO has; of no image and of
\* more images than the iterations of 80 classes.
MCClassCounts == {0, 1, 3, 80}
MCImageCounts == {0, 170000}

\* Every position of a short rectangle against images of up to six pixels.
MCPositions == -9..9
MCWidths    == -9..9
MCSides     == 1..6

\* The characters JSON escapes, and the bytes at the borders of the ranges
\* which begin and continue the UTF-8 sequences.
MCBytes == {\h0A, \h1F, \h22, \h41, \h80, \h8F, \h90, \h9F, \hA0, \hBF,
            \hC1, \hC2, \hDF, \hE0, \hED, \hEF, \hF0, \hF4, \hF5}

\* The marks of JSON, XML and YAML, line ends, a control character, and bytes
\* which are none of them.
MCMarks == {\h0A, \h0D, \h1F, \h22, \h26, \h27, \h3C, \h3E, \h41, \h5C, \h9F}

\* Sections that may begin a cfg and that may not, with a header left open, an
\* unnamed one, and two keys with two values, without one and with nothing.
MCCfgLines ==
  {Comment, Header("net", TRUE), Header("network", TRUE), Header("a", TRUE), Header("a", FALSE),
   Header("", TRUE)}
    \cup {Option(k, v) : k \in {"k", "l"}, v \in {"1", "2", Null, Nothing}}

\* What numbers are made of, the comma of a list and a letter.
MCCharacters == {"0", "1", "-", "+", ".", "e", ",", "x"}

\* Content types of images, of a page, with a suffix and with a parameter.
MCWidth == [w \in {"image/", "text/", "png", "svg", "+", "xml", "; charset=utf-8"} |->
              CASE w = "image/" -> 6 [] w = "text/" -> 5 [] w = "+" -> 1
                [] w = "; charset=utf-8" -> 15 [] OTHER -> 3]

VARIABLE task

vars == <<task, classes, images, net, shapes, lines, value, x, width, side, text,
          buffers, mime, urlpath>>

Init ==
  /\ task \in Tasks
  /\ StartNetwork
  /\ NoLines
  /\ IF task = "cut" THEN Draw ELSE x = 0 /\ width = 0 /\ side = 1
  /\ task # "cfg" => classes = 0 /\ images = 0
  /\ NoText
  /\ NoAnswer
  /\ IF task = "buffer" THEN StartCall ELSE NoCall

network   == <<classes, images, net, shapes>>
cfgText   == <<lines, value>>
answer    == <<mime, urlpath>>
rectangle == <<x, width, side>>

WriteSection ==
  task = "cfg" /\ section /\ UNCHANGED <<task, cfgText, rectangle, text, buffers, answer>>
WriteLine ==
  task = "json" /\ NextLine
    /\ UNCHANGED <<task, network, value, rectangle, text, buffers, answer>>
WriteValue ==
  task = "value" /\ NextCharacter
    /\ UNCHANGED <<task, network, lines, rectangle, text, buffers, answer>>
DrawAgain ==
  task = "cut" /\ Redraw /\ UNCHANGED <<task, network, cfgText, text, buffers, answer>>
Lengthen ==
  task \in {"quote", "escape"} /\ NextByte(IF task = "quote" THEN Bytes ELSE Marks)
    /\ UNCHANGED <<task, network, cfgText, rectangle, buffers, answer>>
CallZlib ==
  task = "buffer" /\ CallStep /\ UNCHANGED <<task, network, cfgText, rectangle, text, answer>>
NameAnswer ==
  task = "name" /\ NextAnswer
    /\ UNCHANGED <<task, network, cfgText, rectangle, text, buffers>>

Next == WriteSection \/ WriteLine \/ WriteValue \/ DrawAgain \/ Lengthen \/ CallZlib
          \/ NameAnswer

Spec == Init /\ [][Next]_vars
=============================================================================
