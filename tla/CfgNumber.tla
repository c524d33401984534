------------------------------ MODULE CfgNumber ------------------------------
(***************************************************************************)
(* The value of a cfg option as JSON: Dxxwjz3CfgJson::json_of takes it     *)
(* apart at the commas and makes of each item a number or a string.        *)
(*                                                                         *)
(* A text is a sequence of one-character strings.  A decimal has a sign,   *)
(* digits without zeros at either end and a power of ten.  The texts are   *)
(* short: their decimals fit an int64_t, and as floats print as they read. *)
(***************************************************************************)
EXTENDS Integers, Sequences, SequencesExt, FiniteSetsExt

Numerals  == <<"0", "1", "2", "3", "4", "5", "6", "7", "8", "9">>
Numeral   == {Numerals[i] : i \in 1..10}
Figure(c) == (CHOOSE i \in 1..10 : Numerals[i] = c) - 1

AllDigits(s) == \A i \in DOMAIN s : s[i] \in Numeral
Amount(s)    == FoldSeq(LAMBDA c, sum : sum * 10 + Figure(c), 0, Reverse(s))

\* The parts of a sequence before and behind the first of some elements.
FirstOf(s, chars) == Min({i \in DOMAIN s : s[i] \in chars} \cup {Len(s) + 1})
Before(s, chars)  == SubSeq(s, 1, FirstOf(s, chars) - 1)
Behind(s, chars)  == SubSeq(s, FirstOf(s, chars) + 1, Len(s))
Unsigned(s, signs) == IF s # << >> /\ s[1] \in signs THEN Tail(s) ELSE s

LeadingZeros(s)  == Min({i \in DOMAIN s : s[i] # "0"} \cup {Len(s) + 1}) - 1
WithoutLeading(s) == SubSeq(s, LeadingZeros(s) + 1, Len(s))
Zeros(n)         == [i \in 1..n |-> "0"]

\* digits * 10^power, with the zeros at the ends taken off.
Decimal(minus, digits, power) ==
  LET led   == WithoutLeading(digits)
      ended == Reverse(WithoutLeading(Reverse(led)))
  IN  [minus |-> minus /\ ended # << >>, digits |-> ended,
       power |-> IF ended = << >> THEN 0 ELSE power + Len(led) - Len(ended)]

\* Of an unsigned "digits.digits" and an exponent with its sign.
Reading(minus, mantissa, exponent) ==
  LET size == Amount(Unsigned(exponent, {"+", "-"}))
      sign == IF exponent # << >> /\ exponent[1] = "-" THEN -1 ELSE 1
  IN  Decimal(minus, Before(mantissa, {"."}) \o Behind(mantissa, {"."}),
              sign * size - Len(Behind(mantissa, {"."})))

-----------------------------------------------------------------------------
(* The code *)

IsMinus(s) == s # << >> /\ s[1] = "-"

read_integer(s) ==
  LET digits == Unsigned(s, {"-"}) IN digits # << >> /\ AllDigits(digits)

\* A float may have a magnitude of 3.4e38 and no more.
FloatPowers == 38

\* What read_float and the check of isfinite take ...
read_float(s) ==
  LET body     == Unsigned(s, {"-"})
      mantissa == Before(body, {"e", "E"})
      exponent == Behind(body, {"e", "E"})
      value    == Reading(IsMinus(s), mantissa, exponent)
  IN  /\ AllDigits(Before(mantissa, {"."})) /\ AllDigits(Behind(mantissa, {"."}))
      /\ \E i \in DOMAIN mantissa : mantissa[i] \in Numeral
      /\ Len(mantissa) < Len(body) =>
           /\ Unsigned(exponent, {"+", "-"}) # << >>
           /\ AllDigits(Unsigned(exponent, {"+", "-"}))
      /\ Len(value.digits) + value.power <= FloatPowers

\* ... and as what.
FloatOf(s) ==
  Reading(IsMinus(s), Before(Unsigned(s, {"-"}), {"e", "E"}),
          Behind(Unsigned(s, {"-"}), {"e", "E"}))

Sign(minus) == IF minus THEN <<"-">> ELSE << >>

\* std::to_string of the integer a text of digits is.
to_string(s) ==
  LET digits == WithoutLeading(Unsigned(s, {"-"}))
  IN  IF digits = << >> THEN <<"0">> ELSE Sign(IsMinus(s)) \o digits

\* The fewest decimals which show the value; the sign of -0.0 is kept.
fraction_text(minus, d) ==
  LET whole == Len(d.digits) + d.power
      shown == IF d.power >= 0 THEN d.digits \o Zeros(d.power)
               ELSE Zeros(-whole) \o d.digits
      ahead == IF d.power >= 0 THEN Len(shown) ELSE Max({whole, 0})
  IN  Sign(minus)
        \o (IF ahead = 0 THEN <<"0">> ELSE SubSeq(shown, 1, ahead))
        \o (IF d.power >= 0 THEN << >>
            ELSE <<".">> \o SubSeq(shown, ahead + 1, Len(shown)))

\* std::strtoll: the digits behind a sign, up to what is none.
strtoll(s) ==
  LET body == Unsigned(s, {"+", "-"})
  IN  Decimal(IsMinus(s), Before(body, Range(body) \ Numeral), 0)

Number(s) == [kind |-> "number", text |-> s]
Quoted(s) == [kind |-> "string", text |-> s]

NumberOf(digits) ==
  CASE read_integer(digits) -> to_string(digits)
    [] ~read_integer(digits) /\ read_float(digits) ->
         fraction_text(IsMinus(digits), FloatOf(digits))
    [] OTHER -> << >>

\* The plus sign is no part of a JSON number.
WithoutPlus(item) == IF Len(item) > 1 /\ item[1] = "+" THEN Tail(item) ELSE item


item_json(item) ==
  LET number == NumberOf(WithoutPlus(item))
  IN  IF number # << >> /\ strtoll(number) = strtoll(item) THEN Number(number)
      ELSE Quoted(item)

\* The items between the commas; an array when there is a comma.
json_of(value) ==
  LET commas  == SetToSortSeq({i \in DOMAIN value : value[i] = ","}, <)
      borders == <<0>> \o commas \o <<Len(value) + 1>>
      items   == [k \in 1..(Len(commas) + 1) |->
                    item_json(SubSeq(value, borders[k] + 1, borders[k + 1] - 1))]
  IN  [array |-> commas # << >>, items |-> items]

-----------------------------------------------------------------------------
(* What a reader of the value makes of it *)

\* An unsigned number: digits, point and digits, exponent.
IsNumeral(s) ==
  \E i \in 0..Len(s) : \E j \in i..Len(s) :
    LET whole    == SubSeq(s, 1, i)
        fraction == SubSeq(s, i + 1, j)
        exponent == SubSeq(s, j + 1, Len(s))
    IN  /\ AllDigits(whole)
        /\ fraction # << >> => fraction[1] = "." /\ AllDigits(Tail(fraction))
        /\ \E c \in Range(whole \o fraction) : c \in Numeral
        /\ \/ exponent = << >>
           \/ /\ exponent[1] \in {"e", "E"}
              /\ LET power == Unsigned(Tail(exponent), {"+", "-"})
                 IN  power # << >> /\ AllDigits(power)

\* std::atof: the number a text begins with, 0 where there is none.
atof(s) ==
  LET body    == Unsigned(s, {"+", "-"})
      lengths == {n \in DOMAIN body : IsNumeral(SubSeq(body, 1, n))}
      number  == SubSeq(body, 1, Max(lengths \cup {0}))
  IN  Reading(IsMinus(s), Before(number, {"e", "E"}), Behind(number, {"e", "E"}))

\* A number by the grammar of JSON, with no exponent.
IsJsonNumber(s) ==
  LET body == Unsigned(s, {"-"})
  IN  /\ IsNumeral(body) /\ Range(body) \subseteq Numeral \cup {"."}
      /\ body[1] # "." /\ body[Len(body)] # "."
      /\ body[1] = "0" => Len(body) = 1 \/ body[2] = "."

\* darknet walks a list by its commas: what is left of it before each item.
Rests(value) ==
  LET rest[k \in 1..(Len(value) + 1)] ==
        IF k = 1 THEN value ELSE Behind(rest[k - 1], {","})
  IN  [k \in 1..(Cardinality({i \in DOMAIN value : value[i] = ","}) + 1) |-> rest[k]]

\* "+-.5", which no cfg has, is read behind its plus sign: it becomes -0.5, the
\* float of "-.5", although the atof of the whole item is 0.
TwoSigns(s) == Len(s) > 1 /\ s[1] = "+" /\ s[2] = "-"

\* Every item darknet finds in the value is an item of the JSON, and of an array
\* when there are several: as a number of JSON which has the very atof and the
\* very atoi darknet reads there, or letter by letter; and what is a number of
\* JSON already does not become a string.  (Of an item with two signs the number
\* has the atof of what is behind the first.)
ValueKept(value) ==
  LET json == json_of(value)
      rest == Rests(value)
  IN  /\ DOMAIN json.items = DOMAIN rest /\ (json.array <=> Len(rest) > 1)
      /\ \A k \in DOMAIN rest :
           LET item == json.items[k]
           IN  IF item.kind = "number"
               THEN /\ IsJsonNumber(item.text)
                    /\ atof(item.text) =
                         atof(IF TwoSigns(rest[k]) THEN Tail(rest[k]) ELSE rest[k])
                    /\ strtoll(item.text) = strtoll(rest[k])
               ELSE /\ item.text = Before(rest[k], {","})
                    /\ ~IsJsonNumber(item.text)
=============================================================================
