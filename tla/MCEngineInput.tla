----------------------------- MODULE MCEngineInput -----------------------------
(***************************************************************************)
(* The wire format, in three parts that share nothing but their run: a      *)
(* document that is damaged byte by byte and read; a value that grows, is   *)
(* written and read back; a message whose sender sets its fields to         *)
(* numbers of any size and in any form, parsed and mapped to a command.     *)
(***************************************************************************)
EXTENDS EngineAdapter

CONSTANTS
  Bytes,                 \* what is put into a document
  MaxDamage,             \* bound: bytes of a document that are changed
  PayloadBytes,          \* bytes of the text of a payload value
  MaxLength,             \* bound: their number
  NumberBytes,           \* those of them a longer text is of
  MaxNumberLength,       \* bound: their number
  IntegerFields,
  Numbers,               \* what a sender may mean
  MaxChanges             \* bound: fields of a message that are changed

Json    == INSTANCE JsonText
Grammar == INSTANCE JsonGrammar
Output  == INSTANCE EngineOutputSerializer

VARIABLES
  part,                  \* "document", "payload" or "message"
  text,                  \* the document, or the text of the payload value
  kind,                  \* of the payload value, or of the message
  sent,                  \* sent[f]: the value of field f of the message
  meant,                 \* meant[f]: the numbers it stands for, one or none
  changes

vars == <<part, text, kind, sent, meant, changes>>

-----------------------------------------------------------------------------
(* The document.                                                           *)

Documents ==
  {\* {"a":-1e2,"b":[]}
   <<123, 34, 97, 34, 58, 45, 49, 101, 50, 44, 34, 98, 34, 58, 91, 93, 125>>,
   \* "\ud801\udc00"
   <<34, 92, 117, 100, 56, 48, 49, 92, 117, 100, 99, 48, 48, 34>>}

Damage ==
  /\ part = "document" /\ changes < MaxDamage
  /\ \/ \E i \in 1 .. Len(text) + 1, b \in Bytes : text' = InsertAt(text, i, b)
     \/ \E i \in 1 .. Len(text) : text' = RemoveAt(text, i)
     \/ \E i \in 1 .. Len(text), b \in Bytes : text' = ReplaceAt(text, i, b)
  /\ changes' = changes + 1
  /\ UNCHANGED <<part, kind, sent, meant>>

-----------------------------------------------------------------------------
(* The payload value: a text as it is, a number, or one of them inside an   *)
(* array or an object.                                                     *)

Grow ==
  /\ part = "payload"
  /\ \E b \in PayloadBytes : text' = Append(text, b)
  /\ Len(text') <= IF ToSet(text') \subseteq NumberBytes THEN MaxNumberLength ELSE MaxLength
  /\ UNCHANGED <<part, kind, sent, meant, changes>>

McIntegerFields == {<<112>>}

Scalar == IF kind.alternative = "string" THEN [string |-> text] ELSE [number |-> text]

Payload ==
  CASE kind.inside = "payload" -> kind.field :> Scalar
    [] kind.inside = "array" -> kind.field :> [array |-> <<[literal |-> "null"], Scalar>>]
    [] kind.inside = "object" ->
         kind.field :> [object |-> (kind.field :> Scalar) @@ (text :> [literal |-> "true"])]

-----------------------------------------------------------------------------
(* The message.                                                            *)

RECURSIVE Decimal(_)
Decimal(n) ==
  IF n < 0 THEN <<"-">> \o Decimal(-n)
  ELSE LET digit == CHOOSE d \in DOMAIN Numeral : Numeral[d] = n % 10
       IN  IF n < 10 THEN <<digit>> ELSE Append(Decimal(n \div 10), digit)

Padded(n) == IF n < 0 THEN <<"-", "0">> \o Decimal(-n) ELSE <<"0", "0">> \o Decimal(n)

\* The forms of a number that are one, and those that are not an integer.
Forms(n) == {[number |-> Decimal(n)], [string |-> Decimal(n)], [string |-> Padded(n)]}
Unreadable(n) ==
  {[string |-> <<"+">> \o Decimal(n)], [number |-> Decimal(n) \o <<".", "0">>],
   [number |-> Decimal(n) \o <<"e", "0">>], [string |-> <<" ">> \o Decimal(n)],
   [string |-> <<"-">>]}
Spoiled ==
  {[literal |-> "null"], [string |-> <<>>], [object |-> <<>>], [number |-> <<"1", ".", "5">>]}

Kinds(k) == PayloadFields[k] @@ (IF k \in Enveloped THEN EnvelopeFields ELSE <<>>)

Usual(fieldKind) ==
  CASE fieldKind \in {"int64", "int32"} -> [number |-> <<"1">>]
    [] fieldKind \in {"text", "optional"} -> [string |-> <<"id">>]
    [] fieldKind = "bool" -> [literal |-> "false"]
    [] fieldKind = "side" -> [string |-> <<"SHORT">>]
    [] fieldKind = "type" -> [string |-> <<"LIMIT">>]
    [] fieldKind = "tif" -> [string |-> <<"PO">>]

IntegersOf(k) == {f \in DOMAIN Kinds(k) : Kinds(k)[f] \in {"int64", "int32"}}
Optional(k) == {f \in DOMAIN Kinds(k) : Kinds(k)[f] \in DOMAIN Absent}

Set(f, value, numbers) ==
  /\ sent' = [sent EXCEPT ![f] = value]
  /\ meant' = [meant EXCEPT ![f] = numbers]
  /\ changes' = changes + 1
  /\ UNCHANGED <<part, text, kind>>

SayNumber ==
  /\ part = "message" /\ changes < MaxChanges
  /\ \E f \in IntegersOf(kind) \cap DOMAIN sent, n \in Numbers :
       IF changes = 0 THEN \/ \E v \in Forms(n) : Set(f, v, {n})
                           \/ \E v \in Unreadable(n) : Set(f, v, {})
                      ELSE Set(f, [number |-> Decimal(n)], {n})

Spoil ==
  /\ part = "message" /\ changes = 0
  /\ \E f \in DOMAIN sent, v \in Spoiled :
       Set(f, v, IF f \in Optional(kind) /\ v = [literal |-> "null"] THEN {0} ELSE {})

Omit ==
  /\ part = "message" /\ changes = 0
  /\ \E f \in DOMAIN sent :
       /\ sent' = [g \in DOMAIN sent \ {f} |-> sent[g]]
       /\ meant' = [meant EXCEPT ![f] = IF f \in Optional(kind) THEN {0} ELSE {}]
  /\ changes' = changes + 1
  /\ UNCHANGED <<part, text, kind>>

SayMarket ==
  /\ part = "message" /\ kind = "PlaceOrder" /\ changes = 0
  /\ Set("order_type", [string |-> <<"MARKET">>], {0})

\* The message on the wire.
Message ==
  LET enveloped == DOMAIN sent \cap DOMAIN EnvelopeFields
      envelope  == [object |-> [f \in enveloped |-> sent[f]]]
      fields    == [f \in DOMAIN sent \ enveloped |-> sent[f]]
      payload   == IF kind \in Enveloped THEN ("envelope" :> envelope) @@ fields ELSE fields
  IN  [object |-> [type |-> [string |-> <<kind>>], payload |-> [object |-> payload]]]

-----------------------------------------------------------------------------
McNumbers == {-129, -128, -9, -8, -1, 0, 1, 7, 8, 15, 16, 127, 128}

\* The hash of the text of a field; one may be zero.
McHash == (<<"id">> :> 0) @@ [t \in {Decimal(n) : n \in Numbers} |-> 1]

Documented(k) == [f \in DOMAIN Kinds(k) |-> Usual(Kinds(k)[f])]

Nothing == [x \in {} |-> x]

Init ==
  /\ changes = 0
  /\ \/ /\ part = "document" /\ text \in Documents
        /\ kind = "" /\ sent = Nothing /\ meant = Nothing
     \/ /\ part = "payload" /\ text = <<>>
        /\ kind \in [alternative : {"string", "number"},
                     inside : {"payload", "array", "object"},
                     field : IntegerFields \cup {<<97>>}]
        /\ sent = Nothing /\ meant = Nothing
     \/ /\ part = "message" /\ text = <<>>
        /\ kind \in DOMAIN PayloadFields
        /\ sent = [Documented(kind) EXCEPT !["market_id"] = [string |-> <<"2">>]]
        /\ meant = [f \in DOMAIN Kinds(kind) |-> IF f = "market_id" THEN {2} ELSE {1}]

Next == Damage \/ Grow \/ SayNumber \/ Spoil \/ Omit \/ SayMarket

Spec == Init /\ [][Next]_vars

-----------------------------------------------------------------------------
(* Properties.                                                             *)

\* A text is read exactly if it is JSON with no key twice in an object,
\* whatever was cut off, put in or replaced: numbers, escapes and surrogate
\* pairs, separators, whitespace and trailing content.
ReadsJson ==
  part = "document" => ((Json!ParseJson(text) # Json!Failed) <=> Grammar!IsJson(text))

\* What a written value reads back as: texts of integer fields and numbers turn
\* into each other when they are, or are not, what the place asks for.
RECURSIVE ReadBack(_, _)
ReadBack(key, value) ==
  CASE "literal" \in DOMAIN value -> value
    [] "string" \in DOMAIN value ->
         IF key \in IntegerFields /\ Grammar!IsInteger(value.string)
         THEN [number |-> value.string] ELSE value
    [] "number" \in DOMAIN value ->
         IF Grammar!IsNumber(value.number) THEN value ELSE [string |-> value.number]
    [] "array" \in DOMAIN value ->
         [array |-> [i \in DOMAIN value.array |-> ReadBack(<<>>, value.array[i])]]
    [] OTHER -> [object |-> [k \in DOMAIN value.object |-> ReadBack(k, value.object[k])]]

\* Every record the engine writes is read back with the type and the payload
\* it was written from, whatever bytes and numbers are in it.
OutputReadsBack ==
  part = "payload" =>
    \A payload \in {Payload} :
      \A written \in {Output!Serialize([type |-> text, payload |-> payload])} :
        Json!ParseJson(written)
          = [object |-> (Output!TypeKey :> [string |-> text]) @@
                        (Output!PayloadKey :> ReadBack(<<>>, [object |-> payload]))]

Meant(f) == CHOOSE n \in meant[f] : TRUE

\* Every field says something the documented type of the field can hold.
Sendable ==
  /\ \A f \in DOMAIN meant : meant[f] # {}
  /\ \A f \in IntegersOf(kind) : Meant(f) \in IF Kinds(kind)[f] = "int32" THEN Int32 ELSE Int64
  /\ kind = "FundingRateUpdated" =>
       Meant("rate_scale") > 0 /\ Meant("interval_end_ms") > Meant("interval_start_ms")

\* And the core has such orders.
Acceptable ==
  /\ Meant("order_id") > 0 /\ Meant("user_id") >= 0
  /\ Meant("market_id") \in 1 .. 2 * Max32 + 1
  /\ kind = "PlaceOrder" =>
       /\ Meant("quantity") > 0
       /\ Meant("price") > 0 \/ (Meant("price") = 0 /\ sent["order_type"] = [string |-> <<"MARKET">>])

Says(record, names) == \A f \in DOMAIN names : record[f] = Meant(names[f])

Ids == [orderId |-> "order_id", userId |-> "user_id", symbolId |-> "market_id"]

PlaceSaysWhatWasSent(input) ==
  \A place \in {MapPlaceOrder(input, 1)} :
    /\ (place # Refused) <=> Acceptable
    /\ Acceptable =>
         /\ Says(place.command, Ids @@ [price |-> "price", quantity |-> "quantity"])
         /\ Says(place.metadata,
                 [order_id |-> "order_id", market_id |-> "market_id",
                  remaining_quantity |-> "quantity", leverage |-> "leverage",
                  remaining_reserved_margin |-> "reserved_margin_amount",
                  reply_partition |-> "reply_partition"])

CancelSaysWhatWasSent(input) ==
  \A cancel \in {MapCancelOrder(input, 1)} :
    /\ (cancel # Refused) <=> Acceptable
    /\ Acceptable => Says(cancel.command, Ids)

\* The command of an order and the metadata kept of it say what the sender
\* meant: no number is cut off, wraps or changes its sign on the way from its
\* digits through the signed widths of the wire to the unsigned ones of the
\* core, and only what does not fit is refused.
CommandSaysWhatWasSent ==
  part = "message" =>
    \A message \in {Message} : \A input \in {ParseEngineInput(message)} :
      /\ (input # Refused) <=> Sendable
      /\ Sendable =>
           /\ \A f \in IntegersOf(kind) :
                Meant(f) = IF f \in DOMAIN EnvelopeFields /\ kind \in Enveloped
                           THEN input.envelope[f] ELSE input.value[f]
           /\ kind = "PlaceOrder" => PlaceSaysWhatWasSent(input)
           /\ kind = "CancelOrder" => CancelSaysWhatWasSent(input)

=============================================================================
