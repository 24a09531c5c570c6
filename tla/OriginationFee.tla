--------------------------- MODULE OriginationFee ---------------------------
(* The origination fee of a fixed-term market (fixed-term/src/margin/origination_fee.rs). *)
EXTENDS Orderbook

CONSTANTS OriginationFee, FEE_UNIT

ASSUME OriginationFeeAssumption == OriginationFee \in Nat /\ FEE_UNIT \in Nat \ {0}

\* what has to be borrowed for the amount requested to be left
borrow_order_qty(requested) ==
  CASE requested = 0 -> 0
    [] requested > 0 /\ OriginationFee = 0 -> requested
    [] OTHER -> Min({MaxQty, 1 + requested + (requested * OriginationFee) \div FEE_UNIT})

\* what is left of what was borrowed
loan_to_disburse(filled) == (FEE_UNIT * filled) \div (FEE_UNIT + OriginationFee)

add_origination_fee(p) ==
  [p EXCEPT !.max_ticket_qty = borrow_order_qty(@),
            !.max_underlying_token_qty = borrow_order_qty(@)]

=============================================================================
