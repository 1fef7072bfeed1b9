------------------------------- MODULE JsonText -------------------------------
(***************************************************************************)
(* Reading JSON: Parser of protocol/Json.cpp.  A text is a sequence of      *)
(* bytes; a JsonValue is a record of one field, named for its alternative:  *)
(* literal (true, false, null), number (its text), string (its bytes),      *)
(* array (a sequence of values) or object (a function from keys).  Reading  *)
(* from a position gives a value and the position after it, or Failed where *)
(* the code throws.                                                         *)
(***************************************************************************)
EXTENDS Integers, SequencesExt

Whitespace == {9, 10, 13, 32}
Digits     == 48 .. 57
HexDigits  == Digits \cup (65 .. 70) \cup (97 .. 102)
Exponents  == {69, 101}
Quote      == 34
Plus       == 43
Comma      == 44
Minus      == 45
Dot        == 46
Zero       == 48
Colon      == 58
OpenBracket  == 91
Backslash    == 92
CloseBracket == 93
LetterU      == 117
OpenBrace    == 123
CloseBrace   == 125

Literals == [true |-> <<116, 114, 117, 101>>, false |-> <<102, 97, 108, 115, 101>>,
             null |-> <<110, 117, 108, 108>>]

Failed == [at |-> 0]
Found(value, p) == [value |-> value, at |-> p]

\* A byte of S is at p; peek() sees none at the end of the text.
Sees(t, p, S) == p \in DOMAIN t /\ t[p] \in S

\* skip_whitespace, consume_digits: the first position without a byte of S.
RECURSIVE Past(_, _, _)
Past(t, p, S) == IF Sees(t, p, S) THEN Past(t, p + 1, S) ELSE p

-----------------------------------------------------------------------------
(* Numbers: the position after each part, 0 where the part is not there.   *)

DigitsEnd(t, p) == IF Sees(t, p, Digits) THEN Past(t, p, Digits) ELSE 0

IntegerEnd(t, p) ==
  IF Sees(t, p, {Zero}) THEN IF Sees(t, p + 1, Digits) THEN 0 ELSE p + 1
                        ELSE DigitsEnd(t, p)

FractionEnd(t, p) == IF Sees(t, p, {Dot}) THEN DigitsEnd(t, p + 1) ELSE p

ExponentEnd(t, p) ==
  IF ~Sees(t, p, Exponents) THEN p
  ELSE DigitsEnd(t, IF Sees(t, p + 1, {Plus, Minus}) THEN p + 2 ELSE p + 1)

AfterMinus(t, p) == IF Sees(t, p, {Minus}) THEN p + 1 ELSE p

ParseNumber(t, p) ==
  LET q == ExponentEnd(t, FractionEnd(t, IntegerEnd(t, AfterMinus(t, p))))
  IN  IF q = 0 THEN Failed ELSE Found([number |-> SubSeq(t, p, q - 1)], q)

-----------------------------------------------------------------------------
(* Strings.                                                                *)

\* What the byte after a backslash stands for, u apart.
Unescaped ==
  (34 :> 34) @@ (92 :> 92) @@ (47 :> 47) @@ (98 :> 8) @@ (102 :> 12) @@
  (110 :> 10) @@ (114 :> 13) @@ (116 :> 9)

HexValue(c) == IF c \in Digits THEN c - 48 ELSE IF c >= 97 THEN c - 87 ELSE c - 55

NoCodeUnit == -1

CodeUnit(t, p) ==
  IF \A i \in 0 .. 3 : Sees(t, p + i, HexDigits)
  THEN FoldLeft(LAMBDA value, c : 16 * value + HexValue(c), 0, SubSeq(t, p, p + 3))
  ELSE NoCodeUnit

HighSurrogates == 55296 .. 56319
LowSurrogates  == 56320 .. 57343

\* append_utf8: six bits to each byte after the first.
Continuation(point, byte) == 128 + ((point \div (64 ^ byte)) % 64)

Utf8(point) ==
  CASE point < 128 -> <<point>>
    [] point \in 128 .. 2047 -> <<192 + point \div 64, Continuation(point, 0)>>
    [] point \in 2048 .. 65535 ->
         <<224 + point \div 4096, Continuation(point, 1), Continuation(point, 0)>>
    [] OTHER -> <<240 + point \div 262144, Continuation(point, 2),
                  Continuation(point, 1), Continuation(point, 0)>>

\* append_unicode_escape, from the first hexadecimal digit.
UnicodeEscape(t, p) ==
  LET first  == CodeUnit(t, p)
      second == CodeUnit(t, p + 6)
      paired == Sees(t, p + 4, {Backslash}) /\ Sees(t, p + 5, {LetterU})
  IN  CASE first \in HighSurrogates ->
             IF paired /\ second \in LowSurrogates
             THEN Found(Utf8(65536 + 1024 * (first - 55296) + (second - 56320)), p + 10)
             ELSE Failed
        [] first \in LowSurrogates \cup {NoCodeUnit} -> Failed
        [] OTHER -> Found(Utf8(first), p + 4)

\* parse_escape, from the byte after the backslash.
Escape(t, p) ==
  CASE Sees(t, p, {LetterU}) -> UnicodeEscape(t, p + 1)
    [] Sees(t, p, DOMAIN Unescaped) -> Found(<<Unescaped[t[p]]>>, p + 1)
    [] OTHER -> Failed

RECURSIVE StringFrom(_, _, _)
StringFrom(t, p, result) ==
  CASE Sees(t, p, {Quote}) -> Found([string |-> result], p + 1)
    [] Sees(t, p, {Backslash}) ->
         LET escaped == Escape(t, p + 1)
         IN  IF escaped = Failed THEN Failed
             ELSE StringFrom(t, escaped.at, result \o escaped.value)
    [] Sees(t, p, (32 .. 255) \ {Quote, Backslash}) -> StringFrom(t, p + 1, Append(result, t[p]))
    [] OTHER -> Failed

ParseString(t, p) == IF Sees(t, p, {Quote}) THEN StringFrom(t, p + 1, <<>>) ELSE Failed

-----------------------------------------------------------------------------
(* Values.                                                                 *)

ParseLiteral(t, p) ==
  LET here == {l \in DOMAIN Literals : IsPrefix(Literals[l], SubSeq(t, p, Len(t)))}
  IN  IF here = {} THEN Failed
      ELSE LET l == CHOOSE l \in here : TRUE
           IN  Found([literal |-> l], p + Len(Literals[l]))

\* Variant: a key that comes again replaces its value.
NeverDuplicate(object, key) == FALSE

\* Object::emplace does not insert.
IsDuplicate(object, key) == key \in DOMAIN object

RECURSIVE ParseValue(_, _), Elements(_, _, _), Members(_, _, _)

ParseValue(t, p0) ==
  LET p     == Past(t, p0, Whitespace)
      inner == Past(t, p + 1, Whitespace)
  IN  CASE Sees(t, p, {OpenBrace}) ->
             IF Sees(t, inner, {CloseBrace}) THEN Found([object |-> <<>>], inner + 1)
                                             ELSE Members(t, inner, <<>>)
        [] Sees(t, p, {OpenBracket}) ->
             IF Sees(t, inner, {CloseBracket}) THEN Found([array |-> <<>>], inner + 1)
                                               ELSE Elements(t, inner, <<>>)
        [] Sees(t, p, {Quote}) -> ParseString(t, p)
        [] Sees(t, p, Digits \cup {Minus}) -> ParseNumber(t, p)
        [] OTHER -> ParseLiteral(t, p)

Elements(t, p, array) ==
  LET element == ParseValue(t, p)
      next    == Past(t, element.at, Whitespace)
      grown   == Append(array, element.value)
  IN  CASE element = Failed -> Failed
        [] element # Failed /\ Sees(t, next, {CloseBracket}) -> Found([array |-> grown], next + 1)
        [] element # Failed /\ Sees(t, next, {Comma}) -> Elements(t, next + 1, grown)
        [] OTHER -> Failed

Members(t, p, object) ==
  LET key    == ParseString(t, Past(t, p, Whitespace))
      colon  == Past(t, key.at, Whitespace)
      member == ParseValue(t, colon + 1)
      next   == Past(t, member.at, Whitespace)
      name   == key.value.string
      grown  == (name :> member.value) @@ object
  IN  IF \/ key = Failed
         \/ ~Sees(t, colon, {Colon})
         \/ member = Failed
         \/ IsDuplicate(object, name)
      THEN Failed
      ELSE CASE Sees(t, next, {CloseBrace}) -> Found([object |-> grown], next + 1)
             [] Sees(t, next, {Comma}) -> Members(t, next + 1, grown)
             [] OTHER -> Failed

\* parse_json: one value, and nothing but whitespace after it.
ParseJson(t) ==
  LET r == ParseValue(t, 1)
  IN  IF r # Failed /\ Past(t, r.at, Whitespace) = Len(t) + 1 THEN r.value ELSE Failed
=============================================================================
