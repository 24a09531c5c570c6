--------------------------- MODULE OrderbookModel ---------------------------
(***************************************************************************)
(* The web client's model of a fixed-term order book (packages/margin/src/ *)
(* wasm-src/core/orderbook.rs): it copies the book and simulates, before   *)
(* a user signs anything, what an order would do.  Next to it the book     *)
(* itself, which orders of the users change as in the program.             *)
(***************************************************************************)
EXTENDS OriginationFee

CONSTANTS
  Traders,
  TradePrices,
  TradeSizes,            \* quote quantities of the orders that are placed
  SimulatedSizes,        \* and of the orders that are simulated
  MIN_BASE_SIZE_POSTED,  \* the smallest order the client thinks can be posted
  MaxDepth               \* bound: orders on each side of the book

ASSUME OrderbookModelAssumption ==
  /\ TradePrices \subseteq 1 .. ONE /\ MIN_BASE_SIZE_POSTED \in Nat /\ MaxDepth \in Nat
  /\ TradeSizes \cup SimulatedSizes \subseteq Nat \ {0}

VARIABLE market_book

EmptyBook == [s \in {"Bid", "Ask"} |-> << >>]

InitBook == market_book = EmptyBook

-----------------------------------------------------------------------------
(* The program.  Lenders bid, borrowers ask for what they need and the fee. *)

SidePosted(action) == IF action = "Lend" THEN "Bid" ELSE "Ask"

Placed(action, user, qty, price, options) ==
  LET params == OrderParams(MaxQty, qty, price, options)
  IN  new_order(market_book, SidePosted(action),
                IF action = "Lend" THEN params ELSE add_origination_fee(params), [owner |-> user], 0)

place_order(action, user, qty, price, options) ==
  LET s == Placed(action, user, qty, price, options)
  IN  /\ Accepted(s)
      /\ \A side \in {"Bid", "Ask"} : Len(s.book[side]) <= MaxDepth
      /\ market_book' = s.book

cancel_order(side, n) ==
  /\ n \in DOMAIN market_book[side]
  /\ market_book' = [market_book EXCEPT ![side] = SubSeq(@, 1, n - 1) \o SubSeq(@, n + 1, Len(@))]

BookNext ==
  \/ \E action \in {"Lend", "Borrow"}, user \in Traders, qty \in TradeSizes, price \in TradePrices,
        options \in {{"post_allowed"}, {"post_allowed", "post_only"}} :
       place_order(action, user, qty, price, options)
  \/ \E side \in {"Bid", "Ask"}, n \in 1 .. MaxDepth : cancel_order(side, n)

BookSpec == InitBook /\ [][BookNext]_market_book

-----------------------------------------------------------------------------
(* The client.                                                              *)

\* the orders of both sides, best first
refresh(book) ==
  [side \in {"Bid", "Ask"} |->
     [i \in DOMAIN book[side] |-> [owner |-> book[side][i].info.owner,
                                   base_size |-> book[side][i].base, price |-> book[side][i].price]]]

fp32_mul_ceil(base, price) == (base * price + ONE - 1) \div ONE

base_to_quote(side, base, price) ==
  IF side = "Bid" THEN fp32_mul_ceil(base, price) ELSE fp32_mul_floor(base, price)

\* Slip: an order at the limit price does not match.
Matches_strictly(action, o, limit) == IF action = "Lend" THEN o.price < limit ELSE o.price > limit

Matches(action, o, limit) == IF action = "Lend" THEN o.price <= limit ELSE o.price >= limit
Precedes(action, o, limit) == IF action = "Lend" THEN o.price >= limit ELSE o.price <= limit

\* Slip: the two worst prices are swapped.
worst_price_swapped(action) == IF action = "Lend" THEN 1 ELSE ONE

worst_price(action) == IF action = "Lend" THEN ONE ELSE 1

would_match(model, action, limit) ==
  LET orders == model[Opposite(SidePosted(action))]
  IN  orders # << >> /\ Matches(action, orders[1], limit)

\* the fill of one order, from the best on; the first that does not match ends the loop
SimulatedFill(s, o, action, limit, user) ==
  LET base == Min({o.base_size, fp32_div(s.unfilled_quote_qty, o.price)})
      quote == base_to_quote(Opposite(SidePosted(action)), base, o.price)
  IN  IF s.done \/ s.unfilled_quote_qty = 0 \/ ~Matches(action, o, limit)
        THEN [s EXCEPT !.done = TRUE]
        ELSE [s EXCEPT !.self_match = @ \/ o.owner = user,
                       !.matches = @ + 1,
                       !.filled_base_qty = @ + base,
                       !.filled_quote_qty = @ + quote,
                       !.filled_user_qty = @ + loan_to_disburse(quote),
                       !.unfilled_quote_qty = @ - quote]

simulate_taker(model, action, user_quote_qty, limit, user) ==
  LET orders == model[Opposite(SidePosted(action))]
      total_qty == IF action = "Lend" THEN user_quote_qty ELSE borrow_order_qty(user_quote_qty)
      sim[k \in 0 .. Len(orders)] ==
        IF k = 0
          THEN [done |-> FALSE, self_match |-> FALSE, matches |-> 0, filled_base_qty |-> 0,
                filled_quote_qty |-> 0, filled_user_qty |-> 0, unfilled_quote_qty |-> total_qty]
          ELSE SimulatedFill(sim[k - 1], orders[k], action, limit, user)
  IN  sim[Len(orders)]

\* the order that a maker's remainder would become, and the orders ahead of it
simulate_maker(model, action, user_quote_qty, limit, user) ==
  LET fill == simulate_taker(model, action, user_quote_qty, limit, user)
      side == SidePosted(action)
      remaining == fp32_div(fill.unfilled_quote_qty, limit)
      would_post == remaining >= MIN_BASE_SIZE_POSTED
  IN  [fill |-> fill,
       would_post |-> would_post,
       posted_base_qty |-> IF would_post THEN remaining ELSE 0,
       depth |-> IF ~would_post THEN 0
                 ELSE LET ahead[k \in 0 .. Len(model[side])] ==
                            IF k = 0 \/ ~Precedes(action, model[side][k], limit) THEN 0
                            ELSE 1 + ahead[k - 1]
                      IN  Max({ahead[k] : k \in 0 .. Len(model[side])})]

\* points of the liquidity chart: cumulated base and quote, order by order
sample_liquidity(model, side, max_quote_qty) ==
  LET orders == model[side]
      point[k \in 0 .. Len(orders)] ==
        IF k = 0 THEN [base |-> 0, quote |-> 0, orders |-> 0]
        ELSE IF point[k - 1].quote >= max_quote_qty THEN point[k - 1]
        ELSE [base |-> point[k - 1].base + orders[k].base_size,
              quote |-> point[k - 1].quote + base_to_quote(side, orders[k].base_size, orders[k].price),
              orders |-> k]
  IN  point

-----------------------------------------------------------------------------
NumFills(events) == Cardinality({i \in DOMAIN events : events[i].tag = "Fill"})

\* What the user was shown is what the program then does, on a book that has not changed:
\* the two loops match, stop and round on their own (orderbook.rs:344-378, and the order
\* book's matching), and the fee is added before and taken off after.  A lender's
\* simulation is exact: it meets its own order exactly if the program would refuse it,
\* makes the same matches, and what is posted is the order it shows, in the same place.
\* Only when one unit of quote is left may it show an order that is not posted, as the
\* rest of an order that was matched is still ahead.  A borrower's is
\* rounded up at each match, so a match of the last few units may be missing from it: what
\* it shows happens, and it shows as much or up to one unit of quote more for each match.
SimulationAgrees ==
  LET model == refresh(market_book)
  IN  market_book # EmptyBook => \A action \in {"Lend", "Borrow"}, user \in Traders, qty \in SimulatedSizes, limit \in TradePrices :
        LET sim == simulate_maker(model, action, qty, limit, user)
            real == Placed(action, user, qty, limit, {"post_allowed"})
            fills == NumFills(real.events)
            posted == real.book["Bid"][sim.depth + 1]
        IN  /\ would_match(model, action, limit) <=> fills > 0
            /\ sim.fill.self_match => real.aborted
            /\ sim.fill.matches <= fills
            /\ sim.fill.filled_quote_qty - quote_filled(real) \in 0 .. fills
            /\ action = "Lend" =>
                 /\ real.aborted => sim.fill.self_match
                 /\ sim.fill.matches = fills /\ sim.fill.filled_quote_qty = quote_filled(real)
                 /\ sim.fill.unfilled_quote_qty # 1 => sim.posted_base_qty = real.base_posted
                 /\ real.base_posted > 0 => /\ real.base_posted = sim.posted_base_qty
                                            /\ posted.price = limit /\ posted.base = real.base_posted

\* what cannot be had of an order for its quote, as that is rounded down
RoundedOff(o) == o.base_size - fp32_div(base_to_quote("Ask", o.base_size, o.price), o.price)

\* The chart's liquidity can be had: somebody who lends what a point of the chart shows,
\* at any price, gets the tickets it shows, but for what rounding takes off each order.
ChartIsFillable ==
  LET model == refresh(market_book)
      asks == model["Ask"]
      chart == sample_liquidity(model, "Ask", MaxQty)
      off[k \in 0 .. Len(asks)] == IF k = 0 THEN 0 ELSE off[k - 1] + RoundedOff(asks[k])
  IN  \A k \in DOMAIN chart : chart[k].quote > 0 =>
        chart[k].base <= off[chart[k].orders]
                           + simulate_taker(model, "Lend", chart[k].quote, worst_price("Lend"), 0).filled_base_qty

=============================================================================
