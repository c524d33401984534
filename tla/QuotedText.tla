----------------------------- MODULE QuotedText -----------------------------
(***************************************************************************)
(* Dxxwjz2NetworkWriter::quote: a text of any bytes, a class name in a     *)
(* Latin-1 database for one, as a JSON string of valid UTF-8.  A text is a *)
(* sequence of bytes.                                                      *)
(***************************************************************************)
EXTENDS Integers, Sequences

CONSTANTS
  Bytes,      \* the bytes the texts are made of, ...
  Marks,      \* ... and the ones the documents have a meaning for
  MaxBytes    \* bound: the length of a text

ASSUME BytesAssumption == Bytes \cup Marks \subseteq 0..255 /\ MaxBytes \in Nat

VARIABLE text

-----------------------------------------------------------------------------
(* A text that is read from the left, a token at a time *)

\* A token gives something and takes some places of the text.
Token(gives, takes) == [gives |-> gives, takes |-> takes]

\* What the tokens give together, each behind the one before it; of tokens, the
\* ones that begin at every place.
Walked(tokens) ==
  LET rest[p \in 1..(Len(tokens) + 1)] ==
        IF p \notin DOMAIN tokens THEN << >>
        ELSE LET token == tokens[p] IN token.gives \o rest[p + token.takes]
  IN  rest[1]

\* The text ends with what is no token.
NoToken(t, p) == Token(<<-1>>, Len(t) + 1 - p)

-----------------------------------------------------------------------------
(* The code *)

\* A byte past the end fits no range.
byte(t, p) == IF p \in DOMAIN t THEN t[p] ELSE 256

\* The length a first byte announces and the range of its second byte.
announced(first) ==
  CASE first \in \hC2..\hDF -> [length |-> 2, second |-> \h80..\hBF]
    [] first = \hE0         -> [length |-> 3, second |-> \hA0..\hBF]
    [] first = \hED         -> [length |-> 3, second |-> \h80..\h9F]
    [] first \in \hE1..\hEF \ {\hED} -> [length |-> 3, second |-> \h80..\hBF]
    [] first = \hF0         -> [length |-> 4, second |-> \h90..\hBF]
    [] first = \hF4         -> [length |-> 4, second |-> \h80..\h8F]
    [] first \in \hF1..\hF3 -> [length |-> 4, second |-> \h80..\hBF]
    [] OTHER                -> [length |-> 0, second |-> {}]

\* Mutant: the second byte is only looked at for being a continuation.
utf8_sequence_of_any_second(t, p) ==
  LET length  == announced(byte(t, p)).length
      follows == \A o \in 1..(length - 1) : byte(t, p + o) \in \h80..\hBF
  IN  IF byte(t, p) < \h80 THEN 1 ELSE IF follows THEN length ELSE 0

\* The length of the UTF-8 sequence at p, 0 where none begins.
utf8_sequence(t, p) ==
  LET sequence == announced(byte(t, p))
      follows  == /\ byte(t, p + 1) \in sequence.second
                  /\ \A o \in 2..(sequence.length - 1) : byte(t, p + o) \in \h80..\hBF
  IN  IF byte(t, p) < \h80 THEN 1 ELSE IF follows THEN sequence.length ELSE 0

Replacement == <<\hEF, \hBF, \hBD>>

\* The ASCII code of a hexadecimal digit.
hexDigit(d) == IF d < 10 THEN 48 + d ELSE 87 + d

\* The quote and the backslash, then \n, \r, \t and \u00 with two digits.
escape(code) ==
  CASE code \in {34, 92} -> <<92, code>>
    [] code = 10 -> <<92, 110>>
    [] code = 13 -> <<92, 114>>
    [] code = 9  -> <<92, 116>>
    [] code \in (0..31) \ {9, 10, 13} ->
         <<92, 117, 48, 48, hexDigit(code \div 16), hexDigit(code % 16)>>
    [] OTHER -> <<code>>

\* A byte outside of every sequence, an ASCII character, a longer sequence.
quoted(t, p) ==
  LET length == utf8_sequence(t, p)
  IN  CASE length = 0 -> Token(Replacement, 1)
        [] length = 1 -> Token(escape(t[p]), 1)
        [] OTHER      -> Token(SubSeq(t, p, p + length - 1), length)

\* What stands between the two quotation marks.
quote(t) == Walked([p \in DOMAIN t |-> quoted(t, p)])

-----------------------------------------------------------------------------
(* The definition of UTF-8 and of a JSON string *)

IsCodePoint(c) == 0 <= c /\ c <= \h10FFFF /\ ~(\hD800 <= c /\ c <= \hDFFF)

\* The bits a sequence of n bytes carries, whatever it is.
Bits(s) ==
  CASE Len(s) = 1 -> s[1]
    [] Len(s) = 2 -> (s[1] % 32) * 64 + (s[2] % 64)
    [] Len(s) = 3 -> (s[1] % 16) * 4096 + (s[2] % 64) * 64 + (s[3] % 64)
    [] Len(s) = 4 -> (s[1] % 8) * 262144 + (s[2] % 64) * 4096
                       + (s[3] % 64) * 64 + (s[4] % 64)

\* The one encoding of a code point.
Encoding(c) ==
  CASE c < 128   -> <<c>>
    [] 128 <= c /\ c < 2048 -> <<192 + c \div 64, 128 + (c % 64)>>
    [] 2048 <= c /\ c < 65536 ->
         <<224 + c \div 4096, 128 + ((c \div 64) % 64), 128 + (c % 64)>>
    [] OTHER -> <<240 + c \div 262144, 128 + ((c \div 4096) % 64),
                  128 + ((c \div 64) % 64), 128 + (c % 64)>>

WellFormed(s) == IsCodePoint(Bits(s)) /\ Encoding(Bits(s)) = s

\* The lengths of the well-formed sequences of t that begin at p.
LengthsAt(t, p) ==
  {n \in 1..4 : p + n - 1 <= Len(t) /\ WellFormed(SubSeq(t, p, p + n - 1))}

\* The code points of a text, a byte out of place read as U+FFFD.
Decoded(t) ==
  Walked([p \in DOMAIN t |->
    IF LengthsAt(t, p) = {} THEN Token(<<\hFFFD>>, 1)
    ELSE LET n == CHOOSE n \in LengthsAt(t, p) : TRUE
         IN  Token(<<Bits(SubSeq(t, p, p + n - 1))>>, n)])

\* The bytes of a text that are out of place.
Misfits(t) ==
  Walked([p \in DOMAIN t |->
    IF LengthsAt(t, p) = {} THEN Token(<<t[p]>>, 1)
    ELSE Token(<< >>, CHOOSE n \in LengthsAt(t, p) : TRUE)])

IsUtf8(t) == Misfits(t) = << >>

DigitValue(c) == IF c \in 48..57 THEN c - 48 ELSE c - 87

IsPlain(c) == 32 <= c /\ c <= \h10FFFF /\ c \notin {34, 92}
Short      == {34, 92, 110, 114, 116}

\* What a letter behind a backslash stands for.
Unabridged(c) == CASE c = 110 -> 10 [] c = 114 -> 13 [] c = 116 -> 9 [] OTHER -> c

\* The characters a JSON string holds; -1 stands for what is no JSON.
JsonCharacter(s, p) ==
  CASE IsPlain(s[p]) -> Token(<<s[p]>>, 1)
    [] p < Len(s) /\ s[p] = 92 /\ s[p + 1] \in Short ->
         Token(<<Unabridged(s[p + 1])>>, 2)
    [] p + 5 <= Len(s) /\ s[p] = 92 /\ s[p + 1] = 117 ->
         Token(<<DigitValue(s[p + 4]) * 16 + DigitValue(s[p + 5])>>, 6)
    [] OTHER -> NoToken(s, p)

Unescaped(s) == Walked([p \in DOMAIN s |-> JsonCharacter(s, p)])

-----------------------------------------------------------------------------

\* The texts, a byte longer each time.
NoText   == text = << >>
NextByte(bytes) == Len(text) < MaxBytes /\ \E b \in bytes : text' = Append(text, b)

\* Whatever bytes a name has, what quote makes of it is valid UTF-8 and a JSON
\* string, and reads back as the name, each byte of it which belongs to no
\* UTF-8 sequence replaced by U+FFFD.
QuotedReadsBack ==
  IsUtf8(quote(text)) /\ Unescaped(Decoded(quote(text))) = Decoded(text)
=============================================================================
