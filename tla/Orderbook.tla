------------------------------ MODULE Orderbook ------------------------------
(***************************************************************************)
(* The order book of a fixed-term market: the matching of the              *)
(* agnostic-orderbook library (external: its source is not part of the     *)
(* repository) as fixed-term/src/orderbook/state drives it.                *)
(*                                                                         *)
(* Bids lend, asks borrow or sell tickets.  Base is tickets, quote is      *)
(* tokens, and a price is the fixed-point number of tokens for a ticket,   *)
(* counted in units of 1/ONE (2^32 in the code).  A book has one sequence  *)
(* of orders for each side, in the order they are matched.                 *)
(***************************************************************************)
EXTENDS Integers, Sequences, FiniteSetsExt

CONSTANTS
  ONE,      \* FP32_ONE
  MinBase,  \* min_base_order_size of the book
  MaxQty    \* stands for u64::MAX, the quantity of an order without a limit

ASSUME OrderbookAssumption == ONE \in Nat \ {0} /\ MinBase \in Nat \ {0} /\ MaxQty \in Nat

\* RoundingAction::direction is Down for every action.
fp32_mul_floor(base, price) == (base * price) \div ONE
fp32_div(quote, price) == (quote * ONE) \div price
quote_from_base(base, price) == fp32_mul_floor(base, price)

Opposite(side) == IF side = "Bid" THEN "Ask" ELSE "Bid"
Crosses(side, limit, price) == IF side = "Bid" THEN limit >= price ELSE limit <= price
Better(side, p, q) == IF side = "Bid" THEN p > q ELSE p < q

\* OrderParams; match_limit is taken to be large, as every client sets it
OrderParams(base, quote, price, options) ==
  [max_ticket_qty |-> base, max_underlying_token_qty |-> quote, limit_price |-> price,
   post_only |-> "post_only" \in options, post_allowed |-> "post_allowed" \in options,
   auto_stake |-> "auto_stake" \in options, auto_roll |-> "auto_roll" \in options]

Fill(side, order, base) ==
  [tag |-> "Fill", side |-> side, info |-> order.info, base |-> base, price |-> order.price]
Out(side, order, base) ==
  [tag |-> "Out", side |-> side, info |-> order.info, base |-> base, price |-> order.price]

EventQuote(e) == quote_from_base(e.base, e.price)

-----------------------------------------------------------------------------
(* Matching, from the best opposite order on.  An order whose remainder is  *)
(* below the minimum leaves the book with an Out event for the remainder.   *)

TradeQty(m, o) ==
  Min({o.base, m.base, fp32_div(m.quote, o.price)})

MatchOne(m, o, side, p, info) ==
  LET qty == TradeQty(m, o)
      left == o.base - qty
  IN  CASE m.stopped \/ p.post_only \/ ~Crosses(side, p.limit_price, o.price) \/ qty = 0 ->
             [m EXCEPT !.stopped = TRUE, !.book = @ \o <<o>>]
        [] OTHER ->
             [m EXCEPT !.aborted = @ \/ o.info.owner = info.owner,
                       !.base = @ - qty,
                       !.quote = @ - quote_from_base(qty, o.price),
                       !.book = IF left < MinBase THEN @ ELSE @ \o <<[o EXCEPT !.base = left]>>,
                       !.events = @ \o (IF left < MinBase
                                          THEN <<Fill(Opposite(side), o, qty),
                                                 Out(Opposite(side), o, left)>>
                                          ELSE <<Fill(Opposite(side), o, qty)>>)]

MatchAll(orders, side, p, info) ==
  LET m[k \in 0 .. Len(orders)] ==
        IF k = 0
          THEN [base |-> p.max_ticket_qty, quote |-> p.max_underlying_token_qty,
                book |-> <<>>, events |-> <<>>, stopped |-> FALSE, aborted |-> FALSE]
          ELSE MatchOne(m[k - 1], orders[k], side, p, info)
  IN  m[Len(orders)]

\* behind the orders of an equal or a better price
Insert(orders, o, side) ==
  LET ahead == {i \in DOMAIN orders : ~Better(side, o.price, orders[i].price)}
      at == Cardinality(ahead)
  IN  SubSeq(orders, 1, at) \o <<o>> \o SubSeq(orders, at + 1, Len(orders))

\* The book, the events and the quantities that a new order leaves
new_order(book, side, p, info, id) ==
  LET m == MatchAll(book[Opposite(side)], side, p, info)
      crossed == m.book # <<>> /\ Crosses(side, p.limit_price, m.book[1].price)
      qty == Min({m.base, fp32_div(m.quote, p.limit_price)})
      posted == IF p.post_allowed /\ ~crossed /\ qty >= MinBase THEN qty ELSE 0
      order == [id |-> id, price |-> p.limit_price, base |-> posted, info |-> info]
  IN  [book |-> [book EXCEPT ![Opposite(side)] = m.book,
                             ![side] = IF posted > 0 THEN Insert(@, order, side) ELSE @],
       events |-> m.events,
       aborted |-> m.aborted,
       limit_price |-> p.limit_price,
       total_base |-> p.max_ticket_qty - m.base + posted,
       total_quote |-> p.max_underlying_token_qty - m.quote
                         + quote_from_base(posted, p.limit_price),
       base_posted |-> posted]

\* place_order accepts what was posted or filled, at a price of at most one
Accepted(s) == /\ ~s.aborted
               /\ s.limit_price <= ONE
               /\ s.total_base > 0

-----------------------------------------------------------------------------
(* SensibleOrderSummary *)

quote_posted(s) == quote_from_base(s.base_posted, s.limit_price)
quote_filled(s) == s.total_quote - quote_posted(s)
base_filled(s) == s.total_base - s.base_posted

=============================================================================
