-------------------------- MODULE EngineInputParser --------------------------
(***************************************************************************)
(* From a JSON value to an engine input: parse_protocol_message and         *)
(* EngineInputParser.  Values have the shape JsonText gives them, but a     *)
(* text is a sequence of symbols here: a digit or a sign is one symbol, and *)
(* so is a word.  Refused stands for a thrown error.                        *)
(***************************************************************************)
EXTENDS Integers, SequencesExt

CONSTANTS
  Max32, Max64,     \* the largest int32 and int64
  Refused,          \* no value: the parser or the adapter throws
  NoText            \* no value of an optional field

Int32 == -(Max32 + 1) .. Max32
Int64 == -(Max64 + 1) .. Max64

Has(value, alternative) == alternative \in DOMAIN value

-----------------------------------------------------------------------------
(* Fields.                                                                 *)

Numeral ==
  ("0" :> 0) @@ ("1" :> 1) @@ ("2" :> 2) @@ ("3" :> 3) @@ ("4" :> 4) @@
  ("5" :> 5) @@ ("6" :> 6) @@ ("7" :> 7) @@ ("8" :> 8) @@ ("9" :> 9)

\* parse_integer_text: a minus and digits, all of the text, within int64.
IntegerOf(text) ==
  LET negative  == text # <<>> /\ text[1] = "-"
      digits    == IF negative THEN Tail(text) ELSE text
      magnitude == FoldLeft(LAMBDA n, d : 10 * n + Numeral[d], 0, digits)
      n         == IF negative THEN -magnitude ELSE magnitude
  IN  IF digits # <<>> /\ ToSet(digits) \subseteq DOMAIN Numeral /\ n \in Int64
      THEN n ELSE Refused

ReadInt64(value) ==
  CASE Has(value, "number") -> IntegerOf(value.number)
    [] Has(value, "string") -> IntegerOf(value.string)
    [] OTHER -> Refused

\* Variant: the value is cast without a look at its range.
CastInt32(value) ==
  LET n == ReadInt64(value)
  IN  IF n = Refused THEN Refused
      ELSE ((n + Max32 + 1) % (2 * Max32 + 2)) - (Max32 + 1)

ReadInt32(value) ==
  LET n == ReadInt64(value)
  IN  IF n # Refused /\ n \in Int32 THEN n ELSE Refused

ReadBool(value) ==
  IF Has(value, "literal") /\ value.literal # "null" THEN value.literal = "true" ELSE Refused

ReadText(value) ==
  IF Has(value, "string") /\ value.string # <<>> THEN value.string ELSE Refused

\* parse_side, parse_order_type, parse_time_in_force: one of some words.
ReadWord(value, meaning) ==
  IF Has(value, "string") /\ Len(value.string) = 1 /\ value.string[1] \in DOMAIN meaning
  THEN meaning[value.string[1]] ELSE Refused

Sides == [LONG |-> "Long", SHORT |-> "Short"]
OrderTypes == [LIMIT |-> "Limit", MARKET |-> "Market"]
TimesInForce ==
  [GTC |-> "Gtc", IOC |-> "Ioc", FOK |-> "Fok", POST_ONLY |-> "PostOnly", PO |-> "PostOnly"]

\* What stands for a field that is not there or null, where that is allowed.
Absent == [optional |-> NoText, tif |-> "Gtc"]

IsAbsent(object, field) ==
  field \notin DOMAIN object \/ object[field] = [literal |-> "null"]

ReadField(kind, object, field) ==
  CASE kind \in DOMAIN Absent /\ IsAbsent(object, field) -> Absent[kind]
    [] kind \notin DOMAIN Absent /\ field \notin DOMAIN object -> Refused
    [] OTHER ->
         CASE kind = "int64" -> ReadInt64(object[field])
           [] kind = "int32" -> ReadInt32(object[field])
           [] kind = "bool" -> ReadBool(object[field])
           [] kind \in {"text", "optional"} -> ReadText(object[field])
           [] kind = "side" -> ReadWord(object[field], Sides)
           [] kind = "type" -> ReadWord(object[field], OrderTypes)
           [] kind = "tif" -> ReadWord(object[field], TimesInForce)

\* Every field in turn; the first that throws ends the parse.
ReadFields(kinds, object) ==
  LET input == [f \in DOMAIN kinds |-> ReadField(kinds[f], object, f)]
  IN  IF \E f \in DOMAIN kinds : input[f] = Refused THEN Refused ELSE input

-----------------------------------------------------------------------------
(* Inputs.                                                                 *)

EnvelopeFields ==
  [request_id |-> "text", idempotency_key |-> "text", user_id |-> "int64",
   reply_partition |-> "int32"]

Enveloped == {"PlaceOrder", "CancelOrder", "LiquidatePosition"}

\* The fields of the payload that are not in its envelope.
PayloadFields ==
  [PlaceOrder |->
     [input_id |-> "optional", order_id |-> "int64", reservation_id |-> "text",
      market_id |-> "int64", market_name |-> "text", side |-> "side",
      order_type |-> "type", time_in_force |-> "tif", price |-> "int64",
      quantity |-> "int64", reduce_only |-> "bool", margin_asset |-> "text",
      reserved_margin_amount |-> "int64", leverage |-> "int32"],
   CancelOrder |->
     [input_id |-> "optional", market_id |-> "int64", order_id |-> "int64"],
   LiquidatePosition |->
     [input_id |-> "optional", liquidation_id |-> "text", market_id |-> "int64",
      market_name |-> "text", liquidated_user_id |-> "int64", position_side |-> "side",
      quantity |-> "int64", price |-> "int64", request_source |-> "optional"],
   MarkPriceUpdated |->
     [input_id |-> "optional", market_id |-> "int64", mark_price |-> "int64",
      index_price |-> "int64", source_timestamp_ms |-> "int64",
      published_at_ms |-> "int64", valid_until_ms |-> "int64",
      source_sequence |-> "int64", source_status |-> "text"],
   FundingRateUpdated |->
     [input_id |-> "optional", market_id |-> "int64", funding_interval_id |-> "text",
      rate |-> "int64", rate_scale |-> "int64", interval_start_ms |-> "int64",
      interval_end_ms |-> "int64", source_timestamp_ms |-> "int64"],
   FundingSettlementTick |->
     [input_id |-> "optional", market_id |-> "int64", funding_interval_id |-> "text",
      settle_at_ms |-> "int64"]]

ReadEnvelope(payload) ==
  IF "envelope" \in DOMAIN payload /\ Has(payload["envelope"], "object")
  THEN ReadFields(EnvelopeFields, payload["envelope"].object) ELSE Refused

\* The checks parse_funding_rate_updated makes of what it has read.
IsFundingRate(input) ==
  input.rate_scale > 0 /\ input.interval_end_ms > input.interval_start_ms

ParsePayload(kind, payload) ==
  LET envelope == IF kind \in Enveloped THEN ReadEnvelope(payload) ELSE NoText
      input    == ReadFields(PayloadFields[kind], payload)
  IN  IF \/ envelope = Refused \/ input = Refused
         \/ kind = "FundingRateUpdated" /\ ~IsFundingRate(input)
      THEN Refused ELSE [kind |-> kind, envelope |-> envelope, value |-> input]

\* EngineInputParser::parse, of the value parse_json returns.
ParseEngineInput(root) ==
  IF /\ Has(root, "object")
     /\ {"type", "payload"} \subseteq DOMAIN root.object
     /\ Has(root.object["payload"], "object")
     /\ Has(root.object["type"], "string")
     /\ Len(root.object["type"].string) = 1
     /\ root.object["type"].string[1] \in DOMAIN PayloadFields
  THEN ParsePayload(root.object["type"].string[1], root.object["payload"].object)
  ELSE Refused
=============================================================================
