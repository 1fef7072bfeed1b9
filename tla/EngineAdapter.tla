---------------------------- MODULE EngineAdapter ----------------------------
(***************************************************************************)
(* From an engine input to a command of the core and the metadata of its    *)
(* order: map_place_order_to_core and map_cancel_order_to_core.  The core's *)
(* ids are unsigned: a cast takes what its width holds.                     *)
(***************************************************************************)
EXTENDS EngineInputParser

CONSTANT Hash        \* the FNV hash of a text, external

Cast(n, max) == n % (2 * max + 2)

\* stable_string_id: never zero.
StableStringId(text) == IF Hash[text] = 0 THEN 1 ELSE Hash[text]

ToCoreSymbolId(id) ==
  IF id > 0 /\ id <= 2 * Max32 + 1 THEN Cast(id, Max32) ELSE Refused

ToCoreUserId(id) == IF id >= 0 THEN Cast(id, Max64) ELSE Refused

ToCoreOrderId(id) == IF id > 0 THEN Cast(id, Max64) ELSE Refused

ToCorePrice(price, type) ==
  IF price < 0 \/ (type = "Limit" /\ price = 0) THEN Refused ELSE price

ToCoreQuantity(quantity) == IF quantity > 0 THEN Cast(quantity, Max64) ELSE Refused

Sided(side) == IF side = "Long" THEN "Buy" ELSE "Sell"

OrRefused(mapped, command) ==
  IF \E f \in DOMAIN command : command[f] = Refused THEN Refused ELSE mapped

MapPlaceOrder(input, sequence) ==
  LET place    == input.value
      envelope == input.envelope
      command  ==
        [kind |-> "PlaceOrder",
         commandId |-> StableStringId(envelope.request_id),
         clientOrderId |-> StableStringId(envelope.idempotency_key),
         orderId |-> ToCoreOrderId(place.order_id),
         userId |-> ToCoreUserId(envelope.user_id),
         symbolId |-> ToCoreSymbolId(place.market_id),
         side |-> Sided(place.side),
         orderType |-> place.order_type,
         timeInForce |-> place.time_in_force,
         price |-> ToCorePrice(place.price, place.order_type),
         quantity |-> ToCoreQuantity(place.quantity),
         receivedSequence |-> sequence]
      metadata ==
        [order_id |-> command.orderId, market_id |-> place.market_id,
         user_id |-> envelope.user_id, side |-> place.side,
         original_quantity |-> place.quantity, remaining_quantity |-> place.quantity,
         reduce_only |-> place.reduce_only, leverage |-> place.leverage,
         reserved_margin_amount |-> place.reserved_margin_amount,
         remaining_reserved_margin |-> place.reserved_margin_amount,
         reservation_id |-> place.reservation_id,
         reply_partition |-> envelope.reply_partition]
  IN  OrRefused([command |-> command, metadata |-> metadata], command)

MapCancelOrder(input, sequence) ==
  LET cancel   == input.value
      envelope == input.envelope
      command  ==
        [kind |-> "CancelOrder",
         commandId |-> StableStringId(envelope.request_id),
         userId |-> ToCoreUserId(envelope.user_id),
         symbolId |-> ToCoreSymbolId(cancel.market_id),
         orderId |-> ToCoreOrderId(cancel.order_id),
         clientOrderId |-> StableStringId(envelope.idempotency_key),
         receivedSequence |-> sequence]
  IN  OrRefused([command |-> command], command)
=============================================================================
