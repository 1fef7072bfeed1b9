------------------------ MODULE EngineOutputSerializer ------------------------
(***************************************************************************)
(* Writing JSON: serialize_engine_output_record.  A PayloadValue has the    *)
(* alternatives of a JsonValue; the fields of an object are written in one  *)
(* fixed order.                                                             *)
(***************************************************************************)
EXTENDS JsonText

CONSTANT IntegerFields      \* is_integer_payload_field: keys whose text is an integer

HexDigit == [i \in 0 .. 15 |-> IF i < 10 THEN 48 + i ELSE 87 + i]

Escaped ==
  (34 :> 34) @@ (92 :> 92) @@ (8 :> 98) @@ (12 :> 102) @@ (10 :> 110) @@
  (13 :> 114) @@ (9 :> 116)

\* Variant: only the bytes with an escape of their own are escaped.
EscapedByte(c) == IF c \in DOMAIN Escaped THEN <<Backslash, Escaped[c]>> ELSE <<c>>

JsonByte(c) ==
  CASE c \in DOMAIN Escaped -> <<Backslash, Escaped[c]>>
    [] c < 32 /\ c \notin DOMAIN Escaped ->
         <<Backslash, LetterU, Zero, Zero, HexDigit[c \div 16], HexDigit[c % 16]>>
    [] OTHER -> <<c>>

JsonString(s) == <<Quote>> \o FlattenSeq([i \in DOMAIN s |-> JsonByte(s[i])]) \o <<Quote>>

\* is_json_integer, consumed to the end.
IsJsonInteger(s) ==
  LET p == AfterMinus(s, 1)
  IN  /\ p <= Len(s)
      /\ s[p] = Zero => p = Len(s)
      /\ \A i \in p .. Len(s) : s[i] \in Digits

\* is_json_number, consumed to the end; digits after a zero are left over.
IsJsonNumber(s) ==
  LET p == AfterMinus(s, 1)
      q == IF Sees(s, p, {Zero}) THEN p + 1 ELSE DigitsEnd(s, p)
  IN  ExponentEnd(s, FractionEnd(s, q)) = Len(s) + 1

Separated(parts) ==
  FlattenSeq([i \in DOMAIN parts |-> IF i = 1 THEN parts[i] ELSE <<Comma>> \o parts[i]])

RECURSIVE PayloadValue(_, _)

PayloadObject(fields) ==
  LET keys == SetToSeq(DOMAIN fields)
      part(key) == JsonString(key) \o <<Colon>> \o PayloadValue(key, fields[key])
  IN  <<OpenBrace>> \o Separated([i \in DOMAIN keys |-> part(keys[i])]) \o <<CloseBrace>>

\* append_payload_value; an element of an array has no key.
PayloadValue(key, value) ==
  CASE "literal" \in DOMAIN value -> Literals[value.literal]
    [] "number" \in DOMAIN value ->
         IF IsJsonNumber(value.number) THEN value.number ELSE JsonString(value.number)
    [] "string" \in DOMAIN value ->
         IF key \in IntegerFields /\ IsJsonInteger(value.string)
         THEN value.string ELSE JsonString(value.string)
    [] "array" \in DOMAIN value ->
         LET parts == [i \in DOMAIN value.array |-> PayloadValue(<<>>, value.array[i])]
         IN  <<OpenBracket>> \o Separated(parts) \o <<CloseBracket>>
    [] "object" \in DOMAIN value -> PayloadObject(value.object)

\* "type" and "payload".
TypeKey    == <<116, 121, 112, 101>>
PayloadKey == <<112, 97, 121, 108, 111, 97, 100>>

Serialize(record) ==
  <<OpenBrace>> \o JsonString(TypeKey) \o <<Colon>> \o JsonString(record.type)
    \o <<Comma>> \o JsonString(PayloadKey) \o <<Colon>> \o PayloadObject(record.payload)
    \o <<CloseBrace>>
=============================================================================
