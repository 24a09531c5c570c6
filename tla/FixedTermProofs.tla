-------------------------- MODULE FixedTermProofs --------------------------
(***************************************************************************)
(* Proofs about a fixed-term market, for every set of users, orders, fees, *)
(* tenors and queue lengths.  First what the order book's matching keeps,  *)
(* then the MarginUser records, and at last the handlers.                  *)
(***************************************************************************)
EXTENDS FixedTerm, SumTheorems

-----------------------------------------------------------------------------
(* Quantities *)

\* The tokens for tickets, rounded down: parts are not worth more than the whole.
LEMMA QuoteNat ==
  ASSUME NEW b \in Nat, NEW p \in Nat
  PROVE  quote_from_base(b, p) \in Nat
<1>1. b * p \in Nat /\ ONE \in Nat \ {0}
  BY MulNat, OrderbookAssumption
<1> QED BY <1>1, DivBounds DEF quote_from_base, fp32_mul_floor

\* What is filled and what is left cost no more than the whole.
LEMMA QuoteOfParts ==
  ASSUME NEW b \in Nat, NEW c \in Nat, NEW p \in Nat
  PROVE  quote_from_base(b, p) + quote_from_base(c, p) <= quote_from_base(b + c, p)
<1> DEFINE x == (b * p) \div ONE
           y == (c * p) \div ONE
           z == ((b + c) * p) \div ONE
<1>1. b * p \in Nat /\ c * p \in Nat /\ (b + c) * p = b * p + c * p /\ ONE \in Nat \ {0}
  BY MulNat, OrderbookAssumption
<1>2. x \in Int /\ x * ONE <= b * p /\ y \in Int /\ y * ONE <= c * p
  BY <1>1, DivBounds
<1>3. z \in Int /\ b * p + c * p < z * ONE + ONE
  BY <1>1, DivBounds
<1> HIDE DEF x, y, z
<1>4. (x + y) * ONE = x * ONE + y * ONE /\ (z + 1) * ONE = z * ONE + ONE
  BY <1>1, <1>2, <1>3
<1>5. (x + y) * ONE < (z + 1) * ONE
  BY <1>1, <1>2, <1>3, <1>4
<1>6. x + y < z + 1
  <2> DEFINE l == x + y
             r == z + 1
  <2>1. l \in Int /\ r \in Int /\ l * ONE < r * ONE
    BY <1>2, <1>3, <1>5
  <2> HIDE DEF l, r
  <2>2. l < r
    BY <1>1, <2>1, Cancel
  <2> QED BY <2>2 DEF l, r
<1>7. x + y <= z
  BY <1>2, <1>3, <1>6
<1> QED BY <1>7 DEF quote_from_base, fp32_mul_floor, x, y, z

\* What a quantity of tokens buys costs no more than it.
LEMMA Affordable ==
  ASSUME NEW q \in Nat, NEW p \in Nat \ {0}, NEW b \in Nat, b <= fp32_div(q, p)
  PROVE  quote_from_base(b, p) <= q /\ fp32_div(q, p) \in Nat
<1> DEFINE d == (q * ONE) \div p
           x == (b * p) \div ONE
<1>1. ONE \in Nat \ {0} /\ q * ONE \in Nat /\ b * p \in Nat
  BY MulNat, OrderbookAssumption
<1>2. d \in Nat /\ d * p <= q * ONE /\ b <= d
  BY <1>1, DivBounds DEF fp32_div
<1>3. x \in Int /\ x * ONE <= b * p
  BY <1>1, DivBounds
<1> HIDE DEF d, x
<1>4. b * p <= d * p
  BY <1>2, MulNat
<1>5. x * ONE <= q * ONE
  BY <1>1, <1>2, <1>3, <1>4
<1>6. x <= q
  BY <1>1, <1>3, <1>5, Cancel
<1> QED BY <1>2, <1>6 DEF quote_from_base, fp32_mul_floor, fp32_div, x, d

-----------------------------------------------------------------------------
(* Matching.  I is a set of callback infos: an order and its events carry  *)
(* the same one.                                                           *)

Sides == {"Bid", "Ask"}

Order(I) == [id : Nat, price : Nat \ {0}, base : Nat \ {0}, info : I]

Event(I, side) ==
  {e \in [tag : {"Fill", "Out"}, side : {side}, info : I, base : Nat, price : Nat \ {0}] :
     e.tag = "Fill" => e.base # 0}

Matching(I, side) ==
  [base : Nat, quote : Nat, book : Seq(Order(I)), events : Seq(Event(I, side)),
   stopped : BOOLEAN, aborted : BOOLEAN]

\* The order is left alone, and so are all behind it.
Passed(m, n, o) ==
  /\ n.base = m.base /\ n.quote = m.quote /\ n.events = m.events
  /\ n.book = m.book \o <<o>>

\* The order is filled with qty; what is left of it stays or is out.
Filled(m, n, o, side, qty) ==
  /\ qty \in 1 .. o.base /\ qty <= m.base /\ quote_from_base(qty, o.price) <= m.quote
  /\ n.base = m.base - qty
  /\ n.quote = m.quote - quote_from_base(qty, o.price)
  /\ \/ /\ n.book = m.book
        /\ n.events = m.events \o <<Fill(side, o, qty), Out(side, o, o.base - qty)>>
     \/ /\ o.base - qty # 0
        /\ n.book = m.book \o <<[o EXCEPT !.base = o.base - qty]>>
        /\ n.events = m.events \o <<Fill(side, o, qty)>>

\* The parts of an order are an order and events.
LEMMA PartsType ==
  ASSUME NEW I, NEW side, NEW o \in Order(I), NEW qty \in 1 .. o.base
  PROVE  /\ Fill(side, o, qty) \in Event(I, side)
         /\ Out(side, o, o.base - qty) \in Event(I, side)
         /\ Out(side, o, o.base) \in Event(I, side)
         /\ o.base - qty # 0 => [o EXCEPT !.base = o.base - qty] \in Order(I)
<1>1. o.base \in Nat \ {0} /\ o.price \in Nat \ {0} /\ o.info \in I /\ o.id \in Nat
  BY DEF Order
<1>2. qty \in Nat /\ qty # 0 /\ o.base - qty \in Nat
  BY <1>1
<1>3. Fill(side, o, qty) \in Event(I, side)
  BY <1>1, <1>2 DEF Fill, Event
<1>4. \A b \in Nat : Out(side, o, b) \in Event(I, side)
  BY <1>1 DEF Out, Event
<1>5. o.base - qty # 0 => [o EXCEPT !.base = o.base - qty] \in Order(I)
  BY <1>1, <1>2 DEF Order
<1> QED BY <1>1, <1>2, <1>3, <1>4, <1>5

\* One step of the matching passes the order or fills it.
LEMMA MatchOneStep ==
  ASSUME NEW I, NEW side \in Sides, NEW p \in ValidOrders, NEW info,
         NEW o \in Order(I), NEW m \in Matching(I, Opposite(side))
  PROVE  LET n == MatchOne(m, o, side, p, info)
         IN  /\ n \in Matching(I, Opposite(side))
             /\ Passed(m, n, o) \/ \E qty \in Nat : Filled(m, n, o, Opposite(side), qty)
<1> DEFINE n == MatchOne(m, o, side, p, info)
           qty == TradeQty(m, o)
           left == o.base - qty
           s == Opposite(side)
           out == m.stopped \/ p.post_only \/ ~Crosses(side, p.limit_price, o.price) \/ qty = 0
<1>1. /\ o.base \in Nat \ {0} /\ o.price \in Nat \ {0} /\ o.info \in I /\ o.id \in Nat
      /\ m.base \in Nat /\ m.quote \in Nat /\ m.stopped \in BOOLEAN /\ m.aborted \in BOOLEAN
      /\ m.book \in Seq(Order(I)) /\ m.events \in Seq(Event(I, s))
      /\ MinBase \in Nat \ {0}
  BY OrderbookAssumption DEF Order, Matching
<1>2. fp32_div(m.quote, o.price) \in Nat
  <2>1. m.quote * ONE \in Nat
    BY <1>1, OrderbookAssumption, MulNat
  <2> QED BY <1>1, <2>1, DivBounds DEF fp32_div
<1>3. /\ qty \in Nat /\ qty <= o.base /\ qty <= m.base /\ qty <= fp32_div(m.quote, o.price)
  BY <1>1, <1>2, MinThree DEF TradeQty
<1>4. quote_from_base(qty, o.price) <= m.quote /\ quote_from_base(qty, o.price) \in Nat
  BY <1>1, <1>3, Affordable, QuoteNat
<1> DEFINE cost == quote_from_base(qty, o.price)
<1>5. CASE out
  <2>1. n = [m EXCEPT !.stopped = TRUE, !.book = @ \o <<o>>]
    BY <1>5 DEF MatchOne
  <2>2. m.book \o <<o>> \in Seq(Order(I))
    BY <1>1
  <2> HIDE DEF n
  <2>3. n \in Matching(I, s)
    BY <1>1, <2>1, <2>2 DEF Matching
  <2>4. Passed(m, n, o)
    BY <1>1, <2>1 DEF Passed, Matching
  <2> QED BY <2>3, <2>4 DEF n
<1>6. CASE ~out
  <2>1. n = [m EXCEPT !.aborted = @ \/ o.info.owner = info.owner,
                      !.base = @ - qty,
                      !.quote = @ - cost,
                      !.book = IF left < MinBase THEN @ ELSE @ \o <<[o EXCEPT !.base = left]>>,
                      !.events = @ \o (IF left < MinBase
                                         THEN <<Fill(s, o, qty), Out(s, o, left)>>
                                         ELSE <<Fill(s, o, qty)>>)]
    BY <1>6 DEF MatchOne
  <2> DEFINE bk == IF left < MinBase THEN m.book ELSE m.book \o <<[o EXCEPT !.base = left]>>
             ev == m.events \o (IF left < MinBase
                                  THEN <<Fill(s, o, qty), Out(s, o, left)>>
                                  ELSE <<Fill(s, o, qty)>>)
             ab == m.aborted \/ o.info.owner = info.owner
  <2>2. qty \in 1 .. o.base /\ left \in Nat
    BY <1>1, <1>3, <1>6
  <2>3. Fill(s, o, qty) \in Event(I, s) /\ Out(s, o, left) \in Event(I, s)
    BY <2>2, PartsType
  <2>4. left >= MinBase => left # 0 /\ [o EXCEPT !.base = left] \in Order(I)
    BY <1>1, <2>2, PartsType
  <2>5. bk \in Seq(Order(I)) /\ ev \in Seq(Event(I, s)) /\ ab \in BOOLEAN
    <3> HIDE DEF left, qty, s
    <3>1. left < MinBase \/ left >= MinBase
      BY <1>1, <2>2
    <3> QED BY <1>1, <2>3, <2>4, <3>1
  <2>6. n = [m EXCEPT !.aborted = ab, !.base = m.base - qty, !.quote = m.quote - cost,
                      !.book = bk, !.events = ev]
    BY <2>1
  <2>7. m.base - qty \in Nat /\ m.quote - cost \in Nat
    BY <1>1, <1>3, <1>4
  <2> HIDE DEF n, bk, ev, ab, cost, qty, left
  <2>8. /\ n \in Matching(I, s) /\ n.base = m.base - qty /\ n.quote = m.quote - cost
        /\ n.book = bk /\ n.events = ev
    BY <1>1, <2>5, <2>6, <2>7 DEF Matching
  <2>9. Filled(m, n, o, s, qty)
    <3>1. left = o.base - qty /\ cost = quote_from_base(qty, o.price)
      BY DEF left, cost
    <3>2. CASE left < MinBase
      <4>1. n.book = m.book /\ n.events = m.events \o <<Fill(s, o, qty), Out(s, o, left)>>
        BY <2>8, <3>2 DEF bk, ev
      <4> QED BY <1>3, <1>4, <2>2, <2>8, <3>1, <4>1 DEF Filled, cost
    <3>3. CASE ~(left < MinBase)
      <4>1. /\ n.book = m.book \o <<[o EXCEPT !.base = left]>>
            /\ n.events = m.events \o <<Fill(s, o, qty)>>
        BY <2>8, <3>3 DEF bk, ev
      <4>2. left # 0
        BY <1>1, <2>2, <3>3
      <4> QED BY <1>3, <1>4, <2>2, <2>8, <3>1, <4>1, <4>2 DEF Filled, cost
    <3> QED BY <3>2, <3>3
  <2> QED BY <1>3, <2>8, <2>9 DEF n
<1> QED BY <1>5, <1>6

\* The matching of an order with all the orders of the other side
Unmatched(p) ==
  [base |-> p.max_ticket_qty, quote |-> p.max_underlying_token_qty,
   book |-> <<>>, events |-> <<>>, stopped |-> FALSE, aborted |-> FALSE]

Matchings(g, orders, side, p, info) ==
  g = [k \in 0 .. Len(orders) |->
         IF k = 0 THEN Unmatched(p) ELSE MatchOne(g[k - 1], orders[k], side, p, info)]

StepByStep(g, I, orders, side, p, info) ==
  /\ g[0] = Unmatched(p)
  /\ \A k \in 0 .. Len(orders) : g[k] \in Matching(I, Opposite(side))
  /\ \A k \in 1 .. Len(orders) : g[k] = MatchOne(g[k - 1], orders[k], side, p, info)
  /\ MatchAll(orders, side, p, info) = g[Len(orders)]

\* MatchAll goes through the orders one by one.
LEMMA MatchAllSteps ==
  ASSUME NEW I, NEW side \in Sides, NEW p \in ValidOrders, NEW info,
         NEW orders \in Seq(Order(I))
  PROVE  \E g : StepByStep(g, I, orders, side, p, info)
<1> DEFINE V == Matching(I, Opposite(side))
           n == Len(orders)
           step(k) == [m \in V |-> IF k \in 1 .. n THEN MatchOne(m, orders[k], side, p, info) ELSE m]
           s == [k \in Nat |-> step(k)]
<1>1. n \in Nat /\ \A k \in 1 .. n : orders[k] \in Order(I)
  OBVIOUS
<1>2. \A k \in 1 .. n : \A m \in V : MatchOne(m, orders[k], side, p, info) \in V
  BY <1>1, MatchOneStep
<1>3. Unmatched(p) \in V
  <2>1. <<>> \in Seq(Order(I)) /\ <<>> \in Seq(Event(I, Opposite(side)))
    OBVIOUS
  <2> QED BY <2>1 DEF Unmatched, Matching, ValidOrders
<1> HIDE DEF V, n
<1>4. s \in [Nat -> [V -> V]]
  BY <1>2
<1>5. PICK g : ByRecursion(g, V, 0, n, Unmatched(p), s)
  <2> HIDE DEF s
  <2>1. 0 <= n /\ 0 \in Nat
    BY <1>1
  <2> QED BY <1>1, <1>3, <1>4, <2>1, Recursion
<1>6. g \in [0 .. n -> V] /\ g[0] = Unmatched(p)
  BY <1>5 DEF ByRecursion
<1>7. ASSUME NEW k \in 1 .. n PROVE g[k] = MatchOne(g[k - 1], orders[k], side, p, info)
  <2>1. k \in 0 + 1 .. n /\ k \in Nat /\ k - 1 \in 0 .. n
    BY <1>1
  <2>2. g[k] = s[k][g[k - 1]] /\ g[k - 1] \in V
    BY <1>5, <2>1 DEF ByRecursion
  <2>3. s[k] = step(k)
    BY <2>1
  <2> HIDE DEF s
  <2> QED BY <2>2, <2>3
<1>8. Matchings(g, orders, side, p, info)
  <2>1. \A k \in 0 .. n : k # 0 => k \in 1 .. n
    BY <1>1
  <2>2. \A k \in 0 .. n :
          g[k] = IF k = 0 THEN Unmatched(p) ELSE MatchOne(g[k - 1], orders[k], side, p, info)
    BY <1>6, <1>7, <2>1
  <2>3. g = [k \in 0 .. n |-> g[k]]
    BY <1>6
  <2> QED BY <2>2, <2>3 DEF Matchings, n
<1> DEFINE h == CHOOSE f : Matchings(f, orders, side, p, info)
<1>9. Matchings(h, orders, side, p, info)
  BY <1>8
<1>10. MatchAll(orders, side, p, info) = h[n]
  BY DEF MatchAll, Matchings, Unmatched, n
<1> HIDE DEF h
<1>11. \A k \in 0 .. n :
         h[k] = IF k = 0 THEN Unmatched(p) ELSE MatchOne(h[k - 1], orders[k], side, p, info)
  BY <1>9 DEF Matchings, n
<1>12. /\ h[0] = Unmatched(p)
       /\ \A k \in 1 .. n : h[k] = MatchOne(h[k - 1], orders[k], side, p, info)
  <2>1. 0 \in 0 .. n /\ \A k \in 1 .. n : k \in 0 .. n /\ k # 0
    BY <1>1
  <2> QED BY <1>11, <2>1
<1>13. \A k \in 0 .. n : h[k] \in V
  <2>1. \A k \in 0 + 1 .. n : h[k - 1] \in V => h[k] \in V
    <3>1. \A k \in 0 + 1 .. n : k \in 1 .. n
      BY <1>1
    <3> QED BY <1>2, <1>12, <3>1
  <2>2. 0 \in Nat /\ h[0] \in V
    BY <1>3, <1>12
  <2> QED BY <1>1, <2>1, <2>2, Along
<1> QED BY <1>10, <1>12, <1>13 DEF StepByStep, V, n

-----------------------------------------------------------------------------
(* What matching keeps.  Orders weigh wo and events we.                    *)

\* Filling an order does not raise the weight by more than c for every token
\* paid and ticket not traded.
Conserves(wo, we, c, I, side) ==
  /\ wo \in [Order(I) -> Int] /\ we \in [Event(I, side) -> Int] /\ c \in Int
  /\ \A o \in Order(I) : \A qty \in 1 .. o.base :
       LET gain == c * (quote_from_base(qty, o.price) - qty)
           fill == we[Fill(side, o, qty)]
       IN  /\ fill + we[Out(side, o, o.base - qty)] <= wo[o] + gain
           /\ o.base - qty # 0 =>
                fill + wo[[o EXCEPT !.base = o.base - qty]] <= wo[o] + gain

\* One step of the matching keeps the weight.
LEMMA MatchOneWeight ==
  ASSUME NEW I, NEW side, NEW wo, NEW we, NEW c, Conserves(wo, we, c, I, side),
         NEW o \in Order(I), NEW m \in Matching(I, side), NEW n \in Matching(I, side),
         Passed(m, n, o) \/ \E qty \in Nat : Filled(m, n, o, side, qty)
  PROVE  /\ Weight(wo, n.book) + Weight(we, n.events)
              <= Weight(wo, m.book) + Weight(we, m.events) + wo[o]
                   + c * ((m.quote - n.quote) - (m.base - n.base))
         /\ n.base <= m.base /\ n.quote <= m.quote
<1> DEFINE B == Weight(wo, m.book)
           E == Weight(we, m.events)
<1>1. /\ wo \in [Order(I) -> Int] /\ we \in [Event(I, side) -> Int] /\ c \in Int
      /\ m.book \in Seq(Order(I)) /\ m.events \in Seq(Event(I, side)) /\ wo[o] \in Int
      /\ m.base \in Nat /\ m.quote \in Nat /\ n.base \in Nat /\ n.quote \in Nat
  BY DEF Conserves, Matching
<1>2. B \in Int /\ E \in Int
  BY <1>1, WeightType
<1>3. CASE Passed(m, n, o)
  <2>1. Weight(wo, n.book) = B + wo[o]
    <3>1. n.book = m.book \o <<o>>
      BY <1>3 DEF Passed
    <3>2. Weight(wo, m.book \o <<o>>) = Weight(wo, m.book) + wo[o]
      <4> DEFINE S == Order(I)
                 s == m.book
      <4>1. s \in Seq(S) /\ o \in S /\ wo \in [S -> Int]
        BY <1>1
      <4> HIDE DEF S, s
      <4>2. Weight(wo, s \o <<o>>) = Weight(wo, s) + wo[o]
        BY <4>1, WeightAppend
      <4> QED BY <4>2 DEF s
    <3> QED BY <3>1, <3>2
  <2>2. Weight(we, n.events) = E /\ n.base = m.base /\ n.quote = m.quote
    BY <1>3 DEF Passed
  <2>3. c * ((m.quote - n.quote) - (m.base - n.base)) = 0
    <3>1. (m.quote - n.quote) - (m.base - n.base) = 0
      BY <1>1, <2>2
    <3>2. c * 0 = 0
      BY <1>1
    <3> QED BY <3>1, <3>2
  <2> HIDE DEF B, E
  <2> QED BY <1>1, <1>2, <2>1, <2>2, <2>3 DEF B, E
<1>4. ASSUME NEW qty \in Nat, Filled(m, n, o, side, qty)
      PROVE  /\ Weight(wo, n.book) + Weight(we, n.events)
                  <= B + E + wo[o] + c * ((m.quote - n.quote) - (m.base - n.base))
             /\ n.base <= m.base /\ n.quote <= m.quote
  <2> DEFINE f == Fill(side, o, qty)
             x == Out(side, o, o.base - qty)
             r == [o EXCEPT !.base = o.base - qty]
             cost == quote_from_base(qty, o.price)
             gain == c * (cost - qty)
  <2>1. qty \in 1 .. o.base /\ n.base = m.base - qty /\ n.quote = m.quote - cost /\ cost \in Nat
    <3>1. o.price \in Nat
      BY DEF Order
    <3> QED BY <1>4, <3>1, QuoteNat DEF Filled
  <2>2. (m.quote - n.quote) - (m.base - n.base) = cost - qty
    BY <1>1, <2>1
  <2>3. f \in Event(I, side) /\ x \in Event(I, side) /\ (o.base - qty # 0 => r \in Order(I))
    BY <2>1, PartsType
  <2>4. we[f] \in Int /\ we[x] \in Int /\ gain \in Int /\ (o.base - qty # 0 => wo[r] \in Int)
    BY <1>1, <2>1, <2>3
  <2>5. we[f] + we[x] <= wo[o] + gain /\ (o.base - qty # 0 => we[f] + wo[r] <= wo[o] + gain)
    BY <2>1 DEF Conserves
  <2>6. \/ /\ n.book = m.book /\ n.events = m.events \o <<f, x>>
        \/ /\ o.base - qty # 0
           /\ n.book = m.book \o <<r>> /\ n.events = m.events \o <<f>>
    BY <1>4 DEF Filled
  <2> HIDE DEF f, x, r, gain, cost
  <2>7. Weight(we, m.events \o <<f>>) = Weight(we, m.events) + we[f]
    <3> DEFINE S == Event(I, side)
               s == m.events
    <3>1. s \in Seq(S) /\ f \in S /\ we \in [S -> Int]
      BY <1>1, <2>3
    <3> HIDE DEF S, s
    <3>2. Weight(we, s \o <<f>>) = Weight(we, s) + we[f]
      BY <3>1, WeightAppend
    <3> QED BY <3>2 DEF s
  <2>8. Weight(we, m.events \o <<f, x>>) = Weight(we, m.events) + (we[f] + we[x])
    <3> DEFINE S == Event(I, side)
               s == m.events
    <3>1. s \in Seq(S) /\ f \in S /\ x \in S /\ we \in [S -> Int]
      BY <1>1, <2>3
    <3> HIDE DEF S, s
    <3>2. Weight(we, s \o <<f, x>>) = Weight(we, s) + (we[f] + we[x])
      BY <3>1, WeightAppendTwo, SMTT(40)
    <3> QED BY <3>2 DEF s
  <2>9. Weight(wo, n.book) + Weight(we, n.events) <= B + E + wo[o] + gain
    <3>1. CASE n.book = m.book /\ n.events = m.events \o <<f, x>>
      <4>1. Weight(we, n.events) = E + (we[f] + we[x])
        BY <2>8, <3>1
      <4> HIDE DEF B, E
      <4> QED BY <1>1, <1>2, <2>4, <2>5, <3>1, <4>1, SMTT(40) DEF B
    <3>2. CASE o.base - qty # 0 /\ n.book = m.book \o <<r>> /\ n.events = m.events \o <<f>>
      <4>1. Weight(we, n.events) = E + we[f]
        BY <2>7, <3>2
      <4>2. Weight(wo, m.book \o <<r>>) = Weight(wo, m.book) + wo[r]
        <5> DEFINE S == Order(I)
                   s == m.book
        <5>1. s \in Seq(S) /\ r \in S /\ wo \in [S -> Int]
          BY <1>1, <2>3, <3>2
        <5> HIDE DEF S, s
        <5>2. Weight(wo, s \o <<r>>) = Weight(wo, s) + wo[r]
          BY <5>1, WeightAppend
        <5> QED BY <5>2 DEF s
      <4>3. Weight(wo, n.book) = B + wo[r]
        BY <3>2, <4>2
      <4>4. wo[r] \in Int /\ we[f] + wo[r] <= wo[o] + gain
        BY <2>4, <2>5, <3>2
      <4> HIDE DEF B, E
      <4> QED BY <1>1, <1>2, <2>4, <4>1, <4>3, <4>4, SMTT(40)
    <3> QED BY <2>6, <3>1, <3>2
  <2> QED BY <1>1, <2>1, <2>2, <2>9, SMTT(40) DEF gain
<1> QED BY <1>3, <1>4

\* What all the matching of an order leaves.
LEMMA MatchAllType ==
  ASSUME NEW I, NEW side \in Sides, NEW p \in ValidOrders, NEW info,
         NEW orders \in Seq(Order(I))
  PROVE  LET m == MatchAll(orders, side, p, info)
         IN  /\ m \in Matching(I, Opposite(side))
             /\ m.base <= p.max_ticket_qty /\ m.quote <= p.max_underlying_token_qty
             /\ \A wo, we, c : Conserves(wo, we, c, I, Opposite(side)) =>
                  Weight(wo, m.book) + Weight(we, m.events)
                    <= Weight(wo, orders) + c * ((p.max_underlying_token_qty - m.quote)
                                                  - (p.max_ticket_qty - m.base))
<1> DEFINE n == Len(orders)
           V == Matching(I, Opposite(side))
           B0 == p.max_ticket_qty
           Q0 == p.max_underlying_token_qty
<1>0. PICK g : StepByStep(g, I, orders, side, p, info)
  BY MatchAllSteps
<1>1. /\ g[0] = Unmatched(p)
      /\ \A k \in 0 .. n : g[k] \in V
      /\ \A k \in 1 .. n : g[k] = MatchOne(g[k - 1], orders[k], side, p, info)
      /\ MatchAll(orders, side, p, info) = g[n]
  BY <1>0 DEF StepByStep
<1>2. n \in Nat /\ B0 \in Nat /\ Q0 \in Nat /\ \A k \in 1 .. n : orders[k] \in Order(I)
  BY DEF ValidOrders
<1>3. ASSUME NEW k \in 1 .. n
      PROVE  /\ k - 1 \in 0 .. n /\ k \in 0 .. n /\ g[k - 1] \in V /\ g[k] \in V
             /\ \/ Passed(g[k - 1], g[k], orders[k])
                \/ \E qty \in Nat : Filled(g[k - 1], g[k], orders[k], Opposite(side), qty)
  <2>1. k - 1 \in 0 .. n /\ k \in 0 .. n
    BY <1>2
  <2>2. g[k - 1] \in V /\ g[k] \in V /\ orders[k] \in Order(I)
    BY <1>1, <1>2, <2>1
  <2>3. g[k] = MatchOne(g[k - 1], orders[k], side, p, info)
    BY <1>1
  <2> DEFINE m == g[k - 1]
             o == orders[k]
  <2> HIDE DEF m, o
  <2>4. Passed(m, MatchOne(m, o, side, p, info), o)
         \/ \E qty \in Nat : Filled(m, MatchOne(m, o, side, p, info), o, Opposite(side), qty)
    BY <2>2, MatchOneStep DEF m, o
  <2> QED BY <2>1, <2>2, <2>3, <2>4 DEF m, o
<1>4. \A k \in 0 .. n : g[k].base \in Nat /\ g[k].quote \in Nat
  BY <1>1 DEF Matching
<1> HIDE DEF V, n, B0, Q0
<1>5. g[0].base = B0 /\ g[0].quote = Q0 /\ g[0].book = <<>> /\ g[0].events = <<>>
  BY <1>1 DEF Unmatched, B0, Q0
<1>6. ASSUME NEW wo, NEW we, NEW c, Conserves(wo, we, c, I, Opposite(side))
      PROVE  \A k \in 0 .. n :
               /\ g[k].base <= B0 /\ g[k].quote <= Q0
               /\ Weight(wo, g[k].book) + Weight(we, g[k].events)
                    <= SumOver([i \in 1 .. n |-> wo[orders[i]]], 1 .. k)
                         + c * ((Q0 - g[k].quote) - (B0 - g[k].base))
  <2> DEFINE F == [i \in 1 .. n |-> wo[orders[i]]]
             W(k) == Weight(wo, g[k].book) + Weight(we, g[k].events)
             D(k) == (Q0 - g[k].quote) - (B0 - g[k].base)
             Good(k) == /\ g[k].base <= B0 /\ g[k].quote <= Q0
                        /\ W(k) <= SumOver(F, 1 .. k) + c * D(k)
             P == {k \in Nat : k \in 0 .. n => Good(k)}
  <2>1. c \in Int /\ wo \in [Order(I) -> Int] /\ we \in [Event(I, Opposite(side)) -> Int]
    BY <1>6 DEF Conserves
  <2>2. \A i \in 1 .. n : F[i] \in Int /\ F[i] = wo[orders[i]]
    BY <1>2, <2>1
  <2>3. \A k \in 0 .. n : D(k) \in Int /\ c * D(k) \in Int /\ W(k) \in Int
                          /\ SumOver(F, 1 .. k) \in Int
    <3> SUFFICES ASSUME NEW k \in 0 .. n
                 PROVE  D(k) \in Int /\ c * D(k) \in Int /\ W(k) \in Int
                        /\ SumOver(F, 1 .. k) \in Int
      OBVIOUS
    <3>1. g[k].book \in Seq(Order(I)) /\ g[k].events \in Seq(Event(I, Opposite(side)))
      BY <1>1 DEF Matching, V, n
    <3>2. Weight(wo, g[k].book) \in Int /\ Weight(we, g[k].events) \in Int
      BY <2>1, <3>1, WeightType
    <3>3. IsFiniteSet(1 .. k) /\ \A i \in 1 .. k : F[i] \in Int
      <4>1. \A i \in 1 .. k : i \in 1 .. n
        BY <1>2
      <4> QED BY <1>2, <2>2, <4>1, FS_Interval
    <3> HIDE DEF F
    <3>4. SumOver(F, 1 .. k) \in Int
      BY <3>3, SumType
    <3>5. D(k) \in Int
      BY <1>2, <1>4
    <3> HIDE DEF D
    <3> QED BY <2>1, <3>2, <3>4, <3>5
  <2> HIDE DEF F
  <2>4. 0 \in P
    <3>1. W(0) = 0
      BY <1>5, WeightEmpty
    <3>2. D(0) = 0 /\ c * 0 = 0
      BY <1>2, <1>5, <2>1
    <3>3. 1 .. 0 = {} /\ SumOver(F, {}) = 0
      BY SumEmpty
    <3> QED BY <1>2, <1>5, <3>1, <3>2, <3>3
  <2>5. ASSUME NEW j \in Nat, j \in P PROVE j + 1 \in P
    <3> DEFINE k == j + 1
    <3> SUFFICES ASSUME k \in 0 .. n PROVE Good(k)
      OBVIOUS
    <3>1. k \in 1 .. n /\ j \in 0 .. n /\ k - 1 = j
      BY <1>2
    <3>2. Good(j)
      BY <2>5, <3>1
    <3>3. 1 .. k = (1 .. j) \cup {k} /\ k \notin 1 .. j
      BY <1>2
    <3> HIDE DEF k
    <3> DEFINE d == (g[j].quote - g[k].quote) - (g[j].base - g[k].base)
    <3>4. /\ W(k) <= W(j) + wo[orders[k]] + c * d
          /\ g[k].base <= g[j].base /\ g[k].quote <= g[j].quote
      <4> DEFINE x == g[j]
                 y == g[k]
                 o == orders[k]
                 s == Opposite(side)
      <4>1. /\ x \in Matching(I, s) /\ y \in Matching(I, s) /\ o \in Order(I)
            /\ Passed(x, y, o) \/ \E qty \in Nat : Filled(x, y, o, s, qty)
            /\ Conserves(wo, we, c, I, s)
        BY <1>2, <1>3, <1>6, <3>1 DEF V
      <4> HIDE DEF x, y, o, s
      <4>2. /\ Weight(wo, y.book) + Weight(we, y.events)
                 <= Weight(wo, x.book) + Weight(we, x.events) + wo[o]
                      + c * ((x.quote - y.quote) - (x.base - y.base))
            /\ y.base <= x.base /\ y.quote <= x.quote
        BY <4>1, MatchOneWeight
      <4> QED BY <4>2 DEF x, y, o
    <3>5. SumOver(F, 1 .. k) = SumOver(F, 1 .. j) + wo[orders[k]]
      <4> DEFINE J == 1 .. j
      <4>1. IsFiniteSet(J) /\ k \notin J /\ F[k] = wo[orders[k]]
        BY <2>2, <3>1, <3>3, FS_Interval
      <4>2. \A i \in J \cup {k} : F[i] \in Int
        <5>1. \A i \in J \cup {k} : i \in 1 .. n
          BY <1>2, <3>1
        <5> QED BY <2>2, <5>1
      <4>3. 1 .. k = J \cup {k}
        BY <3>3
      <4> HIDE DEF J
      <4>4. SumOver(F, J \cup {k}) = SumOver(F, J) + F[k]
        BY <4>1, <4>2, SumAdd
      <4> QED BY <4>1, <4>3, <4>4 DEF J
    <3>6. c * D(k) = c * D(j) + c * d /\ d \in Int
      <4>1. g[j].base \in Nat /\ g[j].quote \in Nat /\ g[k].base \in Nat /\ g[k].quote \in Nat
        BY <1>2, <1>4, <3>1
      <4> DEFINE jb == g[j].base
                 jq == g[j].quote
                 kb == g[k].base
                 kq == g[k].quote
      <4>2. D(j) = (Q0 - jq) - (B0 - jb) /\ D(k) = (Q0 - kq) - (B0 - kb)
            /\ d = (jq - kq) - (jb - kb)
        OBVIOUS
      <4>3. jb \in Nat /\ jq \in Nat /\ kb \in Nat /\ kq \in Nat
        BY <4>1
      <4> HIDE DEF D, d, jb, jq, kb, kq
      <4>4. D(k) = D(j) + d /\ D(j) \in Int /\ d \in Int
        BY <1>2, <4>2, <4>3
      <4> QED BY <2>1, <4>4
    <3>7. wo[orders[k]] \in Int /\ c * d \in Int
      BY <2>1, <2>2, <3>1, <3>6
    <3>8. W(k) <= SumOver(F, 1 .. k) + c * D(k)
      <4>1. /\ W(j) \in Int /\ W(k) \in Int /\ c * D(j) \in Int /\ c * D(k) \in Int
            /\ SumOver(F, 1 .. j) \in Int /\ SumOver(F, 1 .. k) \in Int
            /\ W(j) <= SumOver(F, 1 .. j) + c * D(j)
        BY <2>3, <3>1, <3>2
      <4> DEFINE x == c * D(j)
                 y == c * D(k)
                 z == c * d
                 wk == W(k)
                 wj == W(j)
                 sk == SumOver(F, 1 .. k)
                 sj == SumOver(F, 1 .. j)
                 u == wo[orders[k]]
      <4>2. wk <= wj + u + z /\ y = x + z /\ sk = sj + u
        BY <3>4, <3>5, <3>6
      <4>3. /\ z \in Int /\ x \in Int /\ y \in Int /\ wk \in Int /\ wj \in Int
            /\ sj \in Int /\ sk \in Int /\ u \in Int /\ wj <= sj + x
        BY <3>7, <4>1
      <4> HIDE DEF x, y, z, wk, wj, sk, sj, u
      <4>4. wk <= sk + y
        BY <4>2, <4>3
      <4> QED BY <4>4 DEF wk, y, sk
    <3>9. g[k].base <= B0 /\ g[k].quote <= Q0
      <4>1. g[j].base \in Nat /\ g[j].quote \in Nat /\ g[k].base \in Nat /\ g[k].quote \in Nat
        BY <1>2, <1>4, <3>1
      <4> DEFINE jb == g[j].base
                 jq == g[j].quote
                 kb == g[k].base
                 kq == g[k].quote
      <4>2. /\ jb \in Nat /\ jq \in Nat /\ kb \in Nat /\ kq \in Nat
            /\ jb <= B0 /\ jq <= Q0 /\ kb <= jb /\ kq <= jq
        BY <3>2, <3>4, <4>1
      <4> HIDE DEF jb, jq, kb, kq
      <4>3. kb <= B0 /\ kq <= Q0
        BY <1>2, <4>2
      <4> QED BY <4>3 DEF kb, kq
    <3> QED BY <3>8, <3>9
  <2>6. Nat \subseteq P
    <3> HIDE DEF P
    <3> QED BY <2>4, <2>5, NatSetInduction
  <2>7. \A k \in 0 .. n : Good(k)
    <3> HIDE DEF Good
    <3> QED BY <1>2, <2>6
  <2> QED BY <2>7 DEF F
<1>7. n \in 0 .. n
  BY <1>2
<1>8. \A wo, we, c : Conserves(wo, we, c, I, Opposite(side)) =>
        Weight(wo, g[n].book) + Weight(we, g[n].events)
          <= Weight(wo, orders) + c * ((Q0 - g[n].quote) - (B0 - g[n].base))
  <2> SUFFICES ASSUME NEW wo, NEW we, NEW c, Conserves(wo, we, c, I, Opposite(side))
               PROVE  Weight(wo, g[n].book) + Weight(we, g[n].events)
                        <= Weight(wo, orders) + c * ((Q0 - g[n].quote) - (B0 - g[n].base))
    OBVIOUS
  <2>1. Weight(wo, orders) = SumOver([i \in 1 .. n |-> wo[orders[i]]], 1 .. n)
    <3>1. wo \in [Order(I) -> Int]
      BY DEF Conserves
    <3> QED BY <3>1, WeightType DEF n
  <2> QED BY <1>6, <1>7, <2>1
<1>9. g[n].base <= B0 /\ g[n].quote <= Q0
  <2> DEFINE wo == [o \in Order(I) |-> 0]
             we == [e \in Event(I, Opposite(side)) |-> 0]
  <2>1. Conserves(wo, we, 0, I, Opposite(side))
    <3>1. wo \in [Order(I) -> Int] /\ we \in [Event(I, Opposite(side)) -> Int] /\ 0 \in Int
      OBVIOUS
    <3>2. ASSUME NEW o \in Order(I), NEW qty \in 1 .. o.base
          PROVE  /\ we[Fill(Opposite(side), o, qty)] = 0
                 /\ we[Out(Opposite(side), o, o.base - qty)] = 0
                 /\ o.base - qty # 0 => wo[[o EXCEPT !.base = o.base - qty]] = 0
                 /\ wo[o] = 0
                 /\ 0 * (quote_from_base(qty, o.price) - qty) = 0
      <4>1. o.price \in Nat /\ qty \in Nat /\ o.base \in Nat
        BY DEF Order
      <4>2. quote_from_base(qty, o.price) \in Nat
        BY <4>1, QuoteNat
      <4> QED BY <4>1, <4>2, PartsType
    <3> HIDE DEF wo, we
    <3> QED BY <3>1, <3>2 DEF Conserves
  <2> HIDE DEF wo, we
  <2> QED BY <1>6, <1>7, <2>1
<1> QED BY <1>1, <1>7, <1>8, <1>9 DEF V, B0, Q0, n

-----------------------------------------------------------------------------
(* A new order.  J gives the callback infos of each side.                  *)

IsBook(b, J) ==
  /\ DOMAIN b = Sides /\ b = [s \in Sides |-> b[s]]
  /\ \A s \in Sides : b[s] \in Seq(Order(J[s]))

\* A posted order goes between the others.
LEMMA InsertWeight ==
  ASSUME NEW S, NEW orders \in Seq(S), NEW o \in S, NEW side, NEW w \in [S -> Int]
  PROVE  /\ Insert(orders, o, side) \in Seq(S)
         /\ Weight(w, Insert(orders, o, side)) = Weight(w, orders) + w[o]
<1> DEFINE ahead == {i \in DOMAIN orders : ~Better(side, o.price, orders[i].price)}
           at == Cardinality(ahead)
<1>1. Len(orders) \in Nat /\ DOMAIN orders = 1 .. Len(orders)
  OBVIOUS
<1>2. IsFiniteSet(1 .. Len(orders)) /\ Cardinality(1 .. Len(orders)) = Len(orders)
  <2> DEFINE n == Len(orders)
  <2> HIDE DEF n
  <2>1. n \in Nat
    BY <1>1 DEF n
  <2>2. IsFiniteSet(1 .. n)
    BY <2>1, FS_Interval
  <2>3. Cardinality(1 .. n) = IF 1 > n THEN 0 ELSE n - 1 + 1
    BY <2>1, FS_Interval
  <2>4. Cardinality(1 .. n) = n
    BY <2>1, <2>3
  <2> QED BY <2>2, <2>4 DEF n
<1>3. ahead \in SUBSET (1 .. Len(orders))
  BY <1>1
<1> HIDE DEF ahead
<1>4. IsFiniteSet(ahead) /\ Cardinality(ahead) <= Len(orders)
  BY <1>2, <1>3, FS_Subset
<1>5. at \in 0 .. Len(orders)
  BY <1>1, <1>4, FS_CardinalityType
<1>6. Insert(orders, o, side) = SubSeq(orders, 1, at) \o <<o>> \o SubSeq(orders, at + 1, Len(orders))
  BY DEF Insert, ahead
<1> HIDE DEF at
<1> QED BY <1>5, <1>6, WeightInsert

\* the order that is posted of p
Posted(s, p, info, id) ==
  [id |-> id, price |-> p.limit_price, base |-> s.base_posted, info |-> info]

\* What a new order leaves
Leaves(s, b, J, side, p, info, id) ==
  /\ IsBook(s.book, J)
  /\ s.events \in Seq(Event(J[Opposite(side)], Opposite(side)))
  /\ s.total_base \in Nat /\ s.total_quote \in Nat /\ s.base_posted \in Nat
  /\ s.limit_price = p.limit_price
  /\ base_filled(s) \in Nat /\ quote_filled(s) \in Nat /\ quote_posted(s) \in Nat
  /\ s.total_quote <= p.max_underlying_token_qty
  /\ s.base_posted > 0 => Posted(s, p, info, id) \in Order(J[side])
  /\ \A wo, we, c : Conserves(wo, we, c, J[Opposite(side)], Opposite(side)) =>
       Weight(wo, s.book[Opposite(side)]) + Weight(we, s.events)
         <= Weight(wo, b[Opposite(side)]) + c * (quote_filled(s) - base_filled(s))
  /\ \A w \in [Order(J[side]) -> Int] :
       Weight(w, s.book[side]) =
         Weight(w, b[side]) + (IF s.base_posted > 0 THEN w[Posted(s, p, info, id)] ELSE 0)

\* The book, the events and the quantities of a new order.
LEMMA NewOrder ==
  ASSUME NEW J, NEW b, IsBook(b, J), NEW side \in Sides, NEW p \in ValidOrders,
         NEW info \in J[side], NEW id \in Nat
  PROVE  Leaves(new_order(b, side, p, info, id), b, J, side, p, info, id)
<1> DEFINE opp == Opposite(side)
           m == MatchAll(b[opp], side, p, info)
           crossed == m.book # <<>> /\ Crosses(side, p.limit_price, m.book[1].price)
           afford == fp32_div(m.quote, p.limit_price)
           qty == Min({m.base, afford})
           posted == IF p.post_allowed /\ ~crossed /\ qty >= MinBase THEN qty ELSE 0
           order == [id |-> id, price |-> p.limit_price, base |-> posted, info |-> info]
           own == IF posted > 0 THEN Insert(b[side], order, side) ELSE b[side]
           s == new_order(b, side, p, info, id)
           B0 == p.max_ticket_qty
           Q0 == p.max_underlying_token_qty
           cost == quote_from_base(posted, p.limit_price)
<1>1. opp \in Sides /\ opp # side /\ \A t \in Sides : t = side \/ t = opp
  BY DEF Opposite, Sides
<1>2. /\ DOMAIN b = Sides /\ b[opp] \in Seq(Order(J[opp])) /\ b[side] \in Seq(Order(J[side]))
      /\ p.limit_price \in Nat \ {0} /\ B0 \in Nat /\ Q0 \in Nat /\ MinBase \in Nat \ {0}
  BY <1>1, OrderbookAssumption DEF IsBook, ValidOrders
<1>3. /\ m \in Matching(J[opp], opp) /\ m.base <= B0 /\ m.quote <= Q0
      /\ \A wo, we, c : Conserves(wo, we, c, J[opp], opp) =>
           Weight(wo, m.book) + Weight(we, m.events)
             <= Weight(wo, b[opp]) + c * ((Q0 - m.quote) - (B0 - m.base))
  BY <1>2, MatchAllType
<1>4. m.base \in Nat /\ m.quote \in Nat /\ m.book \in Seq(Order(J[opp])) /\ m.events \in Seq(Event(J[opp], opp))
  BY <1>3 DEF Matching
<1>5. s = [book |-> [b EXCEPT ![opp] = m.book, ![side] = own],
           events |-> m.events, aborted |-> m.aborted, limit_price |-> p.limit_price,
           total_base |-> B0 - m.base + posted,
           total_quote |-> Q0 - m.quote + cost,
           base_posted |-> posted]
  <2>1. [b EXCEPT ![opp] = m.book, ![side] = own]
          = [b EXCEPT ![opp] = m.book, ![side] = IF posted > 0 THEN Insert(@, order, side) ELSE @]
    BY <1>1, <1>2
  <2> QED BY <2>1 DEF new_order
<1> HIDE DEF m, crossed, opp
<1>6. afford \in Nat
  <2>1. m.quote * ONE \in Nat
    BY <1>4, OrderbookAssumption, MulNat
  <2> QED BY <1>2, <2>1, DivBounds DEF fp32_div
<1>7. qty \in Nat /\ qty <= m.base /\ qty <= afford
  <2> HIDE DEF afford
  <2> QED BY <1>4, <1>6, MinTwo
<1>8. posted \in Nat /\ posted <= m.base /\ posted <= afford
  <2> HIDE DEF afford, qty
  <2> QED BY <1>4, <1>6, <1>7
<1>9. cost \in Nat /\ cost <= m.quote
  <2> HIDE DEF posted
  <2> QED BY <1>2, <1>4, <1>8, QuoteNat, Affordable
<1>10. posted > 0 => order \in Order(J[side])
  <2> HIDE DEF posted
  <2> QED BY <1>2, <1>8 DEF Order
<1> HIDE DEF afford, qty, posted, order
<1>11. /\ own \in Seq(Order(J[side]))
       /\ \A w \in [Order(J[side]) -> Int] :
            Weight(w, own) = Weight(w, b[side]) + (IF posted > 0 THEN w[order] ELSE 0)
  <2>1. CASE posted > 0
    <3>1. own = Insert(b[side], order, side) /\ order \in Order(J[side])
      BY <1>10, <2>1
    <3>2. \E w : w \in [Order(J[side]) -> Int]
      <4>1. [o \in Order(J[side]) |-> 0] \in [Order(J[side]) -> Int]
        OBVIOUS
      <4> QED BY <4>1
    <3> DEFINE S == Order(J[side])
               os == b[side]
    <3>3. os \in Seq(S) /\ order \in S /\ \E w : w \in [S -> Int]
      BY <1>2, <3>1, <3>2
    <3> HIDE DEF S, os
    <3>4. /\ Insert(os, order, side) \in Seq(S)
          /\ \A w \in [S -> Int] : Weight(w, Insert(os, order, side)) = Weight(w, os) + w[order]
      BY <3>3, InsertWeight
    <3> QED BY <2>1, <3>1, <3>4 DEF S, os
  <2>2. CASE ~(posted > 0)
    <3>1. own = b[side]
      BY <2>2
    <3>2. \A w \in [Order(J[side]) -> Int] : Weight(w, b[side]) \in Int
      BY <1>2, WeightType
    <3> QED BY <1>2, <2>2, <3>1, <3>2
  <2> QED BY <2>1, <2>2
<1> HIDE DEF own
<1>12. /\ s.book = [b EXCEPT ![opp] = m.book, ![side] = own] /\ s.events = m.events
       /\ s.limit_price = p.limit_price /\ s.base_posted = posted
       /\ s.total_base = B0 - m.base + posted /\ s.total_quote = Q0 - m.quote + cost
  BY <1>5
<1>13. s.book[opp] = m.book /\ s.book[side] = own /\ DOMAIN s.book = Sides
       /\ s.book = [t \in Sides |-> s.book[t]]
  BY <1>1, <1>2, <1>12
<1> HIDE DEF s
<1>14. IsBook(s.book, J)
  BY <1>1, <1>4, <1>11, <1>13 DEF IsBook
<1>15. quote_posted(s) = cost /\ base_filled(s) = B0 - m.base /\ quote_filled(s) = Q0 - m.quote
  <2>1. quote_posted(s) = cost
    BY <1>12 DEF quote_posted
  <2> HIDE DEF cost, B0, Q0
  <2>2. base_filled(s) = B0 - m.base
    BY <1>2, <1>4, <1>8, <1>12 DEF base_filled
  <2>3. quote_filled(s) = Q0 - m.quote
    BY <1>2, <1>4, <1>9, <1>12, <2>1 DEF quote_filled
  <2> QED BY <2>1, <2>2, <2>3
<1>16. /\ s.total_base \in Nat /\ s.total_quote \in Nat /\ s.base_posted \in Nat
       /\ base_filled(s) \in Nat /\ quote_filled(s) \in Nat /\ quote_posted(s) \in Nat
       /\ s.total_quote <= Q0
  <2> DEFINE mb == m.base
             mq == m.quote
  <2>1. /\ mb \in Nat /\ mq \in Nat /\ mb <= B0 /\ mq <= Q0 /\ B0 \in Nat /\ Q0 \in Nat
        /\ posted \in Nat /\ cost \in Nat /\ cost <= mq
    BY <1>2, <1>3, <1>4, <1>8, <1>9
  <2> HIDE DEF cost, B0, Q0, mb, mq
  <2>2. /\ B0 - mb + posted \in Nat /\ Q0 - mq + cost \in Nat /\ B0 - mb \in Nat /\ Q0 - mq \in Nat
        /\ Q0 - mq + cost <= Q0
    BY <2>1
  <2> QED BY <1>12, <1>15, <2>1, <2>2 DEF mb, mq
<1>17. \A wo, we, c : Conserves(wo, we, c, J[opp], opp) =>
         Weight(wo, s.book[opp]) + Weight(we, s.events)
           <= Weight(wo, b[opp]) + c * (quote_filled(s) - base_filled(s))
  BY <1>3, <1>12, <1>13, <1>15
<1>18. Posted(s, p, info, id) = order
  BY <1>12 DEF Posted, order
<1> HIDE DEF Q0
<1>19. s.total_quote <= p.max_underlying_token_qty
  BY <1>16 DEF Q0
<1>20. /\ s.base_posted > 0 => Posted(s, p, info, id) \in Order(J[side])
       /\ \A w \in [Order(J[side]) -> Int] :
            Weight(w, s.book[side]) =
              Weight(w, b[side]) + (IF s.base_posted > 0 THEN w[Posted(s, p, info, id)] ELSE 0)
  BY <1>10, <1>11, <1>12, <1>13, <1>18
<1>21. s.events \in Seq(Event(J[opp], opp)) /\ s.limit_price = p.limit_price
  BY <1>4, <1>12
<1> HIDE DEF B0, cost
<1>22. Leaves(s, b, J, side, p, info, id)
  BY <1>14, <1>16, <1>17, <1>19, <1>20, <1>21, Zenon DEF Leaves, opp
<1> QED BY <1>22 DEF s

-----------------------------------------------------------------------------
(* MarginUser records.  S is Nat, or Int while subtractions are unchecked. *)

UserFields ==
  {"next_new_term_loan_seqno", "next_unpaid_term_loan_seqno", "next_term_loan_maturity",
   "pending", "committed", "entitled_tokens", "entitled_tickets",
   "next_deposit_seqno", "next_unredeemed_deposit_seqno",
   "tickets_staked", "tickets_posted", "tokens_posted",
   "borrow_roll_price", "borrow_roll_tenor", "lend_roll_price"}

UserOf(S) == [UserFields -> S]

MarginUser == UserOf(Nat)

\* r has the fields of m, those in F apart
Agree(m, r, F) == \A f \in UserFields \ F : r[f] = m[f]

SetOne(m, f, v) == [m EXCEPT ![f] = v]
SetTwo(m, f, v, g, w) == [m EXCEPT ![f] = v, ![g] = w]
SetThree(m, f, v, g, w, h, x) == [m EXCEPT ![f] = v, ![g] = w, ![h] = x]

\* A field is assigned.
LEMMA SetOneField ==
  ASSUME NEW S, NEW m \in UserOf(S), NEW f \in UserFields, NEW v \in S
  PROVE  LET r == SetOne(m, f, v) IN r \in UserOf(S) /\ r[f] = v /\ Agree(m, r, {f})
  BY DEF UserOf, Agree, SetOne

\* Two fields are assigned.
LEMMA SetTwoFields ==
  ASSUME NEW S, NEW m \in UserOf(S), NEW f \in UserFields, NEW v \in S,
         NEW g \in UserFields, NEW w \in S, f # g
  PROVE  LET r == SetTwo(m, f, v, g, w)
         IN  r \in UserOf(S) /\ r[f] = v /\ r[g] = w /\ Agree(m, r, {f, g})
  BY DEF UserOf, Agree, SetTwo

\* The fields of a record are numbers.
LEMMA UserNumbers ==
  ASSUME NEW S, NEW m \in UserOf(S)
  PROVE  /\ m.next_new_term_loan_seqno \in S /\ m.next_unpaid_term_loan_seqno \in S
         /\ m.next_term_loan_maturity \in S /\ m.pending \in S /\ m.committed \in S
         /\ m.entitled_tokens \in S /\ m.entitled_tickets \in S /\ m.next_deposit_seqno \in S
         /\ m.next_unredeemed_deposit_seqno \in S /\ m.tickets_staked \in S
         /\ m.tickets_posted \in S /\ m.tokens_posted \in S
         /\ m.borrow_roll_price \in S /\ m.borrow_roll_tenor \in S /\ m.lend_roll_price \in S
  BY DEF UserOf, UserFields

\* Natural numbers are integers, and integers that were checked are natural.
LEMMA CheckedUser ==
  ASSUME NEW r
  PROVE  (r \in UserOf(Int) /\ Checked(r) => r \in MarginUser) /\ (r \in MarginUser => r \in UserOf(Int))
  BY DEF UserOf, MarginUser, Checked

\* The loans that a record tells of are the same.
SameDebt(m, r) ==
  /\ r.next_new_term_loan_seqno = m.next_new_term_loan_seqno
  /\ r.next_unpaid_term_loan_seqno = m.next_unpaid_term_loan_seqno
  /\ r.next_term_loan_maturity = m.next_term_loan_maturity
  /\ r.committed = m.committed

DebtFields == {"next_new_term_loan_seqno", "next_unpaid_term_loan_seqno",
               "next_term_loan_maturity", "committed"}

\* what the market owes to the user
Entitled(m) == m.entitled_tickets + m.entitled_tokens

\* What is not assigned is not changed.
LEMMA AgreeKeeps ==
  ASSUME NEW m, NEW r, NEW F, Agree(m, r, F)
  PROVE  /\ F \cap DebtFields = {} => SameDebt(m, r)
         /\ "pending" \notin F => r.pending = m.pending
         /\ "entitled_tokens" \notin F => r.entitled_tokens = m.entitled_tokens
         /\ "entitled_tickets" \notin F => r.entitled_tickets = m.entitled_tickets
         /\ "committed" \notin F => r.committed = m.committed
         /\ "next_new_term_loan_seqno" \notin F =>
              r.next_new_term_loan_seqno = m.next_new_term_loan_seqno
         /\ "next_unpaid_term_loan_seqno" \notin F =>
              r.next_unpaid_term_loan_seqno = m.next_unpaid_term_loan_seqno
         /\ "next_term_loan_maturity" \notin F =>
              r.next_term_loan_maturity = m.next_term_loan_maturity
         /\ "next_deposit_seqno" \notin F => r.next_deposit_seqno = m.next_deposit_seqno
         /\ "lend_roll_price" \notin F => r.lend_roll_price = m.lend_roll_price
  BY DEF Agree, UserFields, SameDebt, DebtFields

\* Debt::post_borrow_order
LEMMA PostBorrow ==
  ASSUME NEW m \in MarginUser, NEW x \in Nat, NEW y \in Nat
  PROVE  LET r == post_borrow_order(m, x, y)
         IN  /\ r \in MarginUser /\ r.pending = m.pending + y
             /\ SameDebt(m, r) /\ Entitled(r) = Entitled(m)
<1> DEFINE f == "tokens_posted"
           g == "pending"
           v == m.tokens_posted + x
           w == m.pending + y
           r == SetTwo(m, f, v, g, w)
<1>1. v \in Nat /\ w \in Nat
  BY UserNumbers DEF MarginUser
<1>2. post_borrow_order(m, x, y) = r
  BY DEF post_borrow_order, SetTwo
<1>3. f \in UserFields /\ g \in UserFields /\ f # g /\ m \in UserOf(Nat)
  BY DEF UserFields, MarginUser
<1> HIDE DEF f, g, v, w
<1>4. r \in UserOf(Nat) /\ r[f] = v /\ r[g] = w /\ Agree(m, r, {f, g})
  BY <1>1, <1>3, SetTwoFields
<1> HIDE DEF r
<1>5. SameDebt(m, r) /\ r.entitled_tokens = m.entitled_tokens /\ r.entitled_tickets = m.entitled_tickets
  BY <1>4, AgreeKeeps DEF f, g, DebtFields
<1>6. r.pending = m.pending + y
  BY <1>4 DEF g, w
<1> QED BY <1>2, <1>4, <1>5, <1>6 DEF MarginUser, Entitled


\* A loan of x is added to the debt of m.
Borrows(m, r, x, maturity) ==
  /\ r.committed = m.committed + x
  /\ r.next_new_term_loan_seqno = m.next_new_term_loan_seqno + 1
  /\ r.next_unpaid_term_loan_seqno = m.next_unpaid_term_loan_seqno
  /\ r.next_term_loan_maturity =
       IF m.next_new_term_loan_seqno = m.next_unpaid_term_loan_seqno
         THEN maturity ELSE m.next_term_loan_maturity

\* Debt::new_term_loan
LEMMA NewTermLoan ==
  ASSUME NEW S \in {Nat, Int}, NEW m \in UserOf(S), NEW x \in Nat, NEW y \in Nat
  PROVE  LET r == new_term_loan(m, x, y)
         IN  /\ r \in UserOf(S) /\ r.pending = m.pending /\ Entitled(r) = Entitled(m)
             /\ Borrows(m, r, x, y)
<1> DEFINE f == "committed"
           g == "next_term_loan_maturity"
           h == "next_new_term_loan_seqno"
           v == m.committed + x
           w == IF m.next_new_term_loan_seqno = m.next_unpaid_term_loan_seqno
                  THEN y ELSE m.next_term_loan_maturity
           z == m.next_new_term_loan_seqno + 1
           r == SetThree(m, f, v, g, w, h, z)
<1>1. v \in S /\ w \in S /\ z \in S
  <2>1. m.committed \in S /\ m.next_term_loan_maturity \in S /\ m.next_new_term_loan_seqno \in S
    BY UserNumbers
  <2>2. CASE S = Nat
    BY <2>1, <2>2
  <2>3. CASE S = Int
    BY <2>1, <2>3
  <2> QED BY <2>2, <2>3
<1>2. new_term_loan(m, x, y) = r
  BY DEF new_term_loan, SetThree
<1>3. f \in UserFields /\ g \in UserFields /\ h \in UserFields /\ f # g /\ f # h /\ g # h
  BY DEF UserFields
<1> HIDE DEF f, g, h, v, w, z
<1>4. r \in UserOf(S) /\ r[f] = v /\ r[g] = w /\ r[h] = z /\ Agree(m, r, {f, g, h})
  BY <1>1, <1>3 DEF SetThree, UserOf, Agree
<1> HIDE DEF r
<1>5. /\ r.entitled_tokens = m.entitled_tokens /\ r.entitled_tickets = m.entitled_tickets
      /\ r.pending = m.pending /\ r.next_unpaid_term_loan_seqno = m.next_unpaid_term_loan_seqno
  BY <1>4, AgreeKeeps DEF f, g, h
<1>6. /\ r.committed = v /\ r.next_term_loan_maturity = w /\ r.next_new_term_loan_seqno = z
  BY <1>4 DEF f, g, h
<1> QED BY <1>2, <1>4, <1>5, <1>6 DEF Entitled, Borrows, v, w, z

\* Debt and Assets after the fill of a maker's borrow order or ticket sale
LEMMA BorrowOrderFill ==
  ASSUME NEW m \in MarginUser, NEW tokens \in Nat, NEW disbursed \in Nat
  PROVE  LET r == borrow_order_fill(m, tokens, disbursed)
         IN  /\ r \in UserOf(Int) /\ r.pending = m.pending /\ SameDebt(m, r)
             /\ Entitled(r) = Entitled(m) + disbursed
<1> DEFINE f == "tokens_posted"
           g == "entitled_tokens"
           v == m.tokens_posted - tokens
           w == m.entitled_tokens + disbursed
           r == SetTwo(m, f, v, g, w)
<1>0. m.tokens_posted \in Nat /\ m.entitled_tokens \in Nat /\ m.entitled_tickets \in Nat
  BY UserNumbers DEF MarginUser
<1>1. v \in Int /\ w \in Int
  BY <1>0
<1>2. borrow_order_fill(m, tokens, disbursed) = r
  BY DEF borrow_order_fill, SetTwo
<1>3. f \in UserFields /\ g \in UserFields /\ f # g /\ m \in UserOf(Int)
  BY CheckedUser DEF UserFields
<1> HIDE DEF f, g, v, w
<1>4. r \in UserOf(Int) /\ r[f] = v /\ r[g] = w /\ Agree(m, r, {f, g})
  BY <1>1, <1>3, SetTwoFields
<1> HIDE DEF r
<1>5. SameDebt(m, r) /\ r.pending = m.pending /\ r.entitled_tickets = m.entitled_tickets
  BY <1>4, AgreeKeeps DEF f, g, DebtFields
<1>6. r.entitled_tokens = m.entitled_tokens + disbursed
  BY <1>4 DEF g, w
<1>7. Entitled(r) = Entitled(m) + disbursed
  BY <1>0, <1>5, <1>6 DEF Entitled
<1> QED BY <1>2, <1>4, <1>5, <1>7

\* The record r after a borrow order or a ticket sale of m is filled
LoanFilled(m, r, disbursed, x, maturity) ==
  /\ r \in UserOf(Int) /\ Entitled(r) = Entitled(m) + disbursed
  /\ r.pending = m.pending - x /\ Borrows(m, r, x, maturity)
SaleFilled(m, r, disbursed) ==
  /\ r \in UserOf(Int) /\ Entitled(r) = Entitled(m) + disbursed
  /\ r.pending = m.pending /\ SameDebt(m, r)

\* MarginUser::maker_fill_borrow_order
LEMMA MakerFillBorrow ==
  ASSUME NEW m \in MarginUser, NEW tokens \in Nat, NEW disbursed \in Nat,
         NEW x \in Nat, NEW maturity \in Nat, NEW new_debt \in BOOLEAN
  PROVE  LET r == maker_fill_borrow_order(m, new_debt, disbursed, tokens, x, maturity)
         IN  IF new_debt THEN LoanFilled(m, r, disbursed, x, maturity) ELSE SaleFilled(m, r, disbursed)
<1> DEFINE a == borrow_order_fill(m, tokens, disbursed)
           f == "pending"
           v == a.pending - x
           b == SetOne(a, f, v)
<1>1. /\ a \in UserOf(Int) /\ a.pending = m.pending /\ SameDebt(m, a)
      /\ Entitled(a) = Entitled(m) + disbursed
  BY BorrowOrderFill
<1>2. maker_fill_borrow_order(m, new_debt, disbursed, tokens, x, maturity)
        = IF new_debt THEN new_term_loan(b, x, maturity) ELSE a
  BY DEF maker_fill_borrow_order, SetOne
<1> HIDE DEF a
<1>3. v \in Int /\ f \in UserFields
  BY <1>1, UserNumbers DEF UserFields
<1> HIDE DEF f, v
<1>4. b \in UserOf(Int) /\ b[f] = v /\ Agree(a, b, {f})
  BY <1>1, <1>3, SetOneField
<1> HIDE DEF b
<1>5. b.pending = m.pending - x /\ SameDebt(a, b)
      /\ b.entitled_tokens = a.entitled_tokens /\ b.entitled_tickets = a.entitled_tickets
  <2>1. b.pending = m.pending - x
    BY <1>1, <1>4 DEF f, v
  <2> QED BY <2>1, <1>4, AgreeKeeps DEF f, DebtFields
<1> DEFINE n == new_term_loan(b, x, maturity)
<1>6. /\ n \in UserOf(Int) /\ n.pending = b.pending /\ Entitled(n) = Entitled(b)
      /\ Borrows(b, n, x, maturity)
  <2>1. Int \in {Nat, Int}
    OBVIOUS
  <2> QED BY <1>4, <2>1, NewTermLoan
<1> HIDE DEF n
<1>7. n.pending = m.pending - x /\ Borrows(m, n, x, maturity) /\ Entitled(n) = Entitled(m) + disbursed
  BY <1>1, <1>5, <1>6 DEF Borrows, SameDebt, Entitled
<1>8. LoanFilled(m, n, disbursed, x, maturity) /\ SaleFilled(m, a, disbursed)
  BY <1>1, <1>6, <1>7 DEF LoanFilled, SaleFilled
<1> QED BY <1>2, <1>8 DEF n

\* MarginUser::cancel_borrow_order
LEMMA CancelBorrow ==
  ASSUME NEW m \in MarginUser, NEW tokens \in Nat, NEW x \in Nat, NEW is_debt \in BOOLEAN
  PROVE  LET r == cancel_borrow_order(m, tokens, x, is_debt)
         IN  /\ r \in UserOf(Int) /\ SameDebt(m, r)
             /\ IF is_debt THEN r.pending = m.pending - x /\ Entitled(r) = Entitled(m)
                           ELSE r.pending = m.pending /\ Entitled(r) = Entitled(m) + x
<1> DEFINE f == "tokens_posted"
           g == "pending"
           h == "entitled_tickets"
           v == m.tokens_posted - tokens
           w == m.pending - x
           z == m.entitled_tickets + x
           r == SetTwo(m, f, v, g, w)
           q == SetTwo(m, f, v, h, z)
<1>0. /\ m.tokens_posted \in Nat /\ m.entitled_tokens \in Nat /\ m.entitled_tickets \in Nat
      /\ m.pending \in Nat
  BY UserNumbers DEF MarginUser
<1>1. v \in Int /\ w \in Int /\ z \in Int
  BY <1>0
<1>2. cancel_borrow_order(m, tokens, x, is_debt) = IF is_debt THEN r ELSE q
  BY DEF cancel_borrow_order, SetTwo
<1>3. f \in UserFields /\ g \in UserFields /\ h \in UserFields /\ f # g /\ f # h /\ m \in UserOf(Int)
  BY CheckedUser DEF UserFields
<1> HIDE DEF f, g, h, v, w, z
<1>4. /\ r \in UserOf(Int) /\ r[g] = w /\ Agree(m, r, {f, g})
      /\ q \in UserOf(Int) /\ q[h] = z /\ Agree(m, q, {f, h})
  BY <1>1, <1>3, SetTwoFields, SMTT(40)
<1> HIDE DEF r, q
<1>5. SameDebt(m, r) /\ r.entitled_tokens = m.entitled_tokens /\ r.entitled_tickets = m.entitled_tickets
  BY <1>4, AgreeKeeps DEF f, g, DebtFields
<1>6. SameDebt(m, q) /\ q.entitled_tokens = m.entitled_tokens /\ q.pending = m.pending
  BY <1>4, AgreeKeeps DEF f, h, DebtFields
<1>7. r.pending = m.pending - x /\ q.entitled_tickets = m.entitled_tickets + x
  BY <1>4 DEF g, h, w, z
<1>8. Entitled(r) = Entitled(m) /\ Entitled(q) = Entitled(m) + x
  BY <1>0, <1>5, <1>6, <1>7 DEF Entitled
<1> QED BY <1>2, <1>4, <1>5, <1>6, <1>7, <1>8


\* Nothing of a record changes that the market's debts and claims depend on.
Keeps(m, r) == r.pending = m.pending /\ SameDebt(m, r) /\ Entitled(r) = Entitled(m)

KeptFields == DebtFields \cup {"pending", "entitled_tokens", "entitled_tickets"}

\* Assigning other fields keeps them.
LEMMA AgreeKept ==
  ASSUME NEW m, NEW r, NEW F, Agree(m, r, F), F \cap KeptFields = {}
  PROVE  Keeps(m, r)
<1>1. F \cap DebtFields = {} /\ "pending" \notin F /\ "entitled_tokens" \notin F /\ "entitled_tickets" \notin F
  BY DEF KeptFields
<1>2. SameDebt(m, r) /\ r.pending = m.pending
      /\ r.entitled_tokens = m.entitled_tokens /\ r.entitled_tickets = m.entitled_tickets
  BY <1>1, AgreeKeeps
<1> QED BY <1>2 DEF Keeps, Entitled

\* Assets::new_deposit
LEMMA NewDeposit ==
  ASSUME NEW S \in {Nat, Int}, NEW m \in UserOf(S), NEW x \in Nat
  PROVE  new_deposit(m, x) \in UserOf(S) /\ Keeps(m, new_deposit(m, x))
<1> DEFINE f == "next_deposit_seqno"
           g == "tickets_staked"
           v == m.next_deposit_seqno + 1
           w == m.tickets_staked + x
           r == SetTwo(m, f, v, g, w)
<1>1. v \in S /\ w \in S
  <2>1. m.next_deposit_seqno \in S /\ m.tickets_staked \in S
    BY UserNumbers
  <2>2. CASE S = Nat
    BY <2>1, <2>2
  <2>3. CASE S = Int
    BY <2>1, <2>3
  <2> QED BY <2>2, <2>3
<1>2. new_deposit(m, x) = IF x > 0 THEN r ELSE m
  BY DEF new_deposit, SetTwo
<1>3. f \in UserFields /\ g \in UserFields /\ f # g
  BY DEF UserFields
<1> HIDE DEF f, g, v, w
<1>4. r \in UserOf(S) /\ Agree(m, r, {f, g})
  BY <1>1, <1>3 DEF SetTwo, UserOf, Agree
<1> HIDE DEF r
<1>5. Keeps(m, r)
  <2>1. {f, g} \cap KeptFields = {}
    BY DEF f, g, KeptFields, DebtFields
  <2> QED BY <1>4, <2>1, AgreeKept
<1>6. Keeps(m, m)
  BY DEF Keeps, SameDebt
<1> QED BY <1>2, <1>4, <1>5, <1>6

\* Assets::lend_order and sell_tickets
LEMMA LendOrder ==
  ASSUME NEW m \in MarginUser, NEW x \in Nat, NEW y \in Nat
  PROVE  /\ lend_order(m, x, y) \in MarginUser /\ Keeps(m, lend_order(m, x, y))
         /\ sell_tickets(m, y) \in MarginUser /\ Keeps(m, sell_tickets(m, y))
<1> DEFINE f == "tickets_posted"
<1>1. ASSUME NEW a \in MarginUser
      PROVE  LET r == SetOne(a, f, a.tickets_posted + y) IN r \in MarginUser /\ Keeps(a, r)
  <2> DEFINE v == a.tickets_posted + y
             r == SetOne(a, f, v)
  <2>1. v \in Nat /\ f \in UserFields /\ {f} \cap KeptFields = {} /\ a \in UserOf(Nat)
    BY UserNumbers DEF MarginUser, UserFields, KeptFields, DebtFields
  <2> HIDE DEF v, f
  <2>2. r \in UserOf(Nat) /\ Agree(a, r, {f})
    BY <2>1, SetOneField
  <2> HIDE DEF r
  <2>3. Keeps(a, r)
    BY <2>1, <2>2, AgreeKept
  <2> QED BY <2>2, <2>3 DEF r, v, MarginUser
<1>2. new_deposit(m, x) \in MarginUser /\ Keeps(m, new_deposit(m, x))
  <2>1. Nat \in {Nat, Int} /\ m \in UserOf(Nat)
    BY DEF MarginUser
  <2>2. new_deposit(m, x) \in UserOf(Nat) /\ Keeps(m, new_deposit(m, x))
    BY <2>1, NewDeposit
  <2> QED BY <2>2 DEF MarginUser
<1> DEFINE d == new_deposit(m, x)
           r == SetOne(d, f, d.tickets_posted + y)
           q == SetOne(m, f, m.tickets_posted + y)
<1>3. lend_order(m, x, y) = r /\ sell_tickets(m, y) = q
  BY DEF lend_order, sell_tickets, SetOne
<1>4. r \in MarginUser /\ Keeps(d, r) /\ q \in MarginUser /\ Keeps(m, q)
  BY <1>1, <1>2
<1> HIDE DEF r, q, d
<1>5. Keeps(m, d) /\ Keeps(d, r) => Keeps(m, r)
  BY DEF Keeps, SameDebt
<1> QED BY <1>2, <1>3, <1>4, <1>5 DEF d

\* MarginUser::maker_fill_lend_order
LEMMA MakerFillLend ==
  ASSUME NEW m \in MarginUser, NEW stake \in BOOLEAN, NEW x \in Nat
  PROVE  LET r == maker_fill_lend_order(m, stake, x)
         IN  /\ r \in UserOf(Int) /\ r.pending = m.pending /\ SameDebt(m, r)
             /\ Entitled(r) = Entitled(m) + (IF stake THEN 0 ELSE x)
<1> DEFINE f == "tickets_posted"
           g == "entitled_tickets"
           v == m.tickets_posted - x
           a == SetOne(m, f, v)
<1>0. m.tickets_posted \in Nat /\ m.entitled_tickets \in Nat /\ m.entitled_tokens \in Nat
  BY UserNumbers DEF MarginUser
<1>1. v \in Int /\ m \in UserOf(Int) /\ f \in UserFields /\ g \in UserFields
      /\ {f} \cap KeptFields = {}
  BY <1>0, CheckedUser DEF UserFields, KeptFields, DebtFields
<1>2. maker_fill_lend_order(m, stake, x) =
        IF stake THEN new_deposit(a, x) ELSE SetOne(a, g, a.entitled_tickets + x)
  BY DEF maker_fill_lend_order, SetOne
<1> HIDE DEF v, f, g
<1>3. a \in UserOf(Int) /\ Agree(m, a, {f})
  BY <1>1, SetOneField
<1> HIDE DEF a
<1>4. Keeps(m, a) /\ a.entitled_tickets = m.entitled_tickets /\ a.entitled_tokens = m.entitled_tokens
  <2>1. Keeps(m, a)
    BY <1>1, <1>3, AgreeKept
  <2> QED BY <1>3, <2>1, AgreeKeeps DEF f
<1>5. CASE stake
  <2>1. new_deposit(a, x) \in UserOf(Int) /\ Keeps(a, new_deposit(a, x))
    <3>1. Int \in {Nat, Int}
      OBVIOUS
    <3> QED BY <1>3, <3>1, NewDeposit
  <2>2. Entitled(m) + 0 = Entitled(m)
    BY <1>0 DEF Entitled
  <2> QED BY <1>2, <1>4, <1>5, <2>1, <2>2 DEF Keeps, SameDebt
<1>6. CASE ~stake
  <2> DEFINE w == a.entitled_tickets + x
             r == SetOne(a, g, w)
  <2>1. w \in Int
    BY <1>0, <1>4
  <2> HIDE DEF w
  <2>2. r \in UserOf(Int) /\ r[g] = w /\ Agree(a, r, {g})
    BY <1>1, <1>3, <2>1, SetOneField
  <2> HIDE DEF r
  <2>3. r.pending = a.pending /\ SameDebt(a, r) /\ r.entitled_tokens = a.entitled_tokens
    BY <2>2, AgreeKeeps DEF g, DebtFields
  <2>4. r.entitled_tickets = m.entitled_tickets + x
    BY <1>4, <2>2 DEF g, w
  <2>5. Entitled(r) = Entitled(m) + x
    BY <1>0, <1>4, <2>3, <2>4 DEF Entitled
  <2>6. r.pending = m.pending /\ SameDebt(m, r)
    BY <1>4, <2>3 DEF Keeps, SameDebt
  <2> QED BY <1>2, <1>6, <2>2, <2>5, <2>6 DEF r, w
<1> QED BY <1>5, <1>6

\* Assets::cancel_lend_order
LEMMA CancelLend ==
  ASSUME NEW m \in MarginUser, NEW tokens \in Nat, NEW x \in Nat
  PROVE  LET r == cancel_lend_order(m, tokens, x)
         IN  /\ r \in UserOf(Int) /\ r.pending = m.pending /\ SameDebt(m, r)
             /\ Entitled(r) = Entitled(m) + tokens
<1> DEFINE f == "entitled_tokens"
           g == "tickets_posted"
           v == m.entitled_tokens + tokens
           w == m.tickets_posted - x
           r == SetTwo(m, f, v, g, w)
<1>0. m.tickets_posted \in Nat /\ m.entitled_tokens \in Nat /\ m.entitled_tickets \in Nat
  BY UserNumbers DEF MarginUser
<1>1. v \in Int /\ w \in Int
  BY <1>0
<1>2. cancel_lend_order(m, tokens, x) = r
  BY DEF cancel_lend_order, SetTwo
<1>3. f \in UserFields /\ g \in UserFields /\ f # g /\ m \in UserOf(Int)
  BY CheckedUser DEF UserFields
<1> HIDE DEF f, g, v, w
<1>4. r \in UserOf(Int) /\ r[f] = v /\ r[g] = w /\ Agree(m, r, {f, g})
  BY <1>1, <1>3, SetTwoFields
<1> HIDE DEF r
<1>5. SameDebt(m, r) /\ r.pending = m.pending /\ r.entitled_tickets = m.entitled_tickets
  BY <1>4, AgreeKeeps DEF f, g, DebtFields
<1>6. r.entitled_tokens = m.entitled_tokens + tokens
  BY <1>4 DEF f, v
<1>7. Entitled(r) = Entitled(m) + tokens
  BY <1>0, <1>5, <1>6 DEF Entitled
<1> QED BY <1>2, <1>4, <1>5, <1>7


\* Assets::redeem_deposit
LEMMA RedeemDepositOf ==
  ASSUME NEW m \in MarginUser, NEW x \in Nat
  PROVE  LET r == redeem_deposit_of(m, x)
         IN  /\ r \in MarginUser /\ Keeps(m, r) /\ r.lend_roll_price = m.lend_roll_price
             /\ r.next_deposit_seqno = m.next_deposit_seqno
<1> DEFINE f == "next_unredeemed_deposit_seqno"
           g == "tickets_staked"
           v == m.next_unredeemed_deposit_seqno + 1
           w == IF m.tickets_staked > x THEN m.tickets_staked - x ELSE 0
           r == SetTwo(m, f, v, g, w)
<1>1. v \in Nat /\ w \in Nat
  BY UserNumbers DEF MarginUser
<1>2. redeem_deposit_of(m, x) = r
  BY DEF redeem_deposit_of, SetTwo
<1>3. f \in UserFields /\ g \in UserFields /\ f # g /\ {f, g} \cap KeptFields = {} /\ m \in UserOf(Nat)
  BY DEF UserFields, KeptFields, DebtFields, MarginUser
<1> HIDE DEF f, g, v, w
<1>4. r \in UserOf(Nat) /\ Agree(m, r, {f, g})
  BY <1>1, <1>3, SetTwoFields
<1> HIDE DEF r
<1>5. Keeps(m, r)
  BY <1>3, <1>4, AgreeKept
<1>6. r.lend_roll_price = m.lend_roll_price /\ r.next_deposit_seqno = m.next_deposit_seqno
  BY <1>4, AgreeKeeps DEF f, g
<1> QED BY <1>2, <1>4, <1>5, <1>6 DEF MarginUser

\* Assets::settlement_complete
LEMMA SettlementComplete ==
  ASSUME NEW m \in MarginUser
  PROVE  LET r == settlement_complete(m)
         IN  r \in MarginUser /\ r.pending = m.pending /\ SameDebt(m, r) /\ Entitled(r) = 0
<1> DEFINE f == "entitled_tickets"
           g == "entitled_tokens"
           v == 0
           r == SetTwo(m, f, v, g, v)
<1>1. settlement_complete(m) = r /\ v \in Nat
  BY DEF settlement_complete, SetTwo
<1>2. f \in UserFields /\ g \in UserFields /\ f # g /\ m \in UserOf(Nat)
  BY DEF UserFields, MarginUser
<1> HIDE DEF f, g, v
<1>3. r \in UserOf(Nat) /\ r[f] = v /\ r[g] = v /\ Agree(m, r, {f, g})
  BY <1>1, <1>2, SetTwoFields
<1> HIDE DEF r
<1>4. SameDebt(m, r) /\ r.pending = m.pending
  BY <1>3, AgreeKeeps DEF f, g, DebtFields
<1>5. r.entitled_tickets = 0 /\ r.entitled_tokens = 0
  BY <1>3 DEF f, g, v
<1>6. Entitled(r) = 0
  BY <1>5 DEF Entitled
<1> QED BY <1>1, <1>3, <1>4, <1>6 DEF MarginUser

\* The auto-roll settings
LEMMA RollSettings ==
  ASSUME NEW m \in MarginUser, NEW price \in Nat, NEW tenor \in Nat
  PROVE  /\ LET r == [m EXCEPT !.borrow_roll_price = price, !.borrow_roll_tenor = tenor]
            IN  r \in MarginUser /\ Keeps(m, r)
         /\ LET r == [m EXCEPT !.lend_roll_price = price] IN r \in MarginUser /\ Keeps(m, r)
<1> DEFINE f == "borrow_roll_price"
           g == "borrow_roll_tenor"
           h == "lend_roll_price"
           r == SetTwo(m, f, price, g, tenor)
           q == SetOne(m, h, price)
<1>1. /\ r = [m EXCEPT !.borrow_roll_price = price, !.borrow_roll_tenor = tenor]
      /\ q = [m EXCEPT !.lend_roll_price = price]
  BY DEF SetOne, SetTwo
<1>2. /\ f \in UserFields /\ g \in UserFields /\ f # g /\ h \in UserFields /\ m \in UserOf(Nat)
      /\ {f, g} \cap KeptFields = {} /\ {h} \cap KeptFields = {}
  BY DEF UserFields, MarginUser, KeptFields, DebtFields
<1> HIDE DEF f, g, h
<1>3. /\ r \in UserOf(Nat) /\ Agree(m, r, {f, g}) /\ q \in UserOf(Nat) /\ Agree(m, q, {h})
  BY <1>2, SetTwoFields, SetOneField
<1> HIDE DEF r, q
<1>4. Keeps(m, r) /\ Keeps(m, q)
  BY <1>2, <1>3, AgreeKept
<1> QED BY <1>1, <1>3, <1>4 DEF MarginUser

\* The record r after amount of loan n is paid
Repays(m, r, ls, u, n, amount) ==
  /\ r.pending = m.pending /\ Entitled(r) = Entitled(m)
  /\ r.committed = m.committed - amount
  /\ r.next_new_term_loan_seqno = m.next_new_term_loan_seqno
  /\ IF amount < ls[<<u, n>>].balance
       THEN /\ r.next_unpaid_term_loan_seqno = m.next_unpaid_term_loan_seqno
            /\ r.next_term_loan_maturity = m.next_term_loan_maturity
       ELSE /\ r.next_unpaid_term_loan_seqno = m.next_unpaid_term_loan_seqno + 1
            /\ n + 1 < m.next_new_term_loan_seqno =>
                 r.next_term_loan_maturity = ls[<<u, n + 1>>].maturity

\* RepayAccounts::repay
LEMMA RepaidUser ==
  ASSUME NEW m \in MarginUser, NEW ls, NEW u, NEW n \in Nat, NEW amount \in Nat,
         amount <= m.committed,
         n + 1 < m.next_new_term_loan_seqno => ls[<<u, n + 1>>].maturity \in Nat
  PROVE  /\ LoanRepaid(m, ls, u, n, amount) \in MarginUser
         /\ Repays(m, LoanRepaid(m, ls, u, n, amount), ls, u, n, amount)
<1> DEFINE f == "committed"
           g == "next_unpaid_term_loan_seqno"
           h == "next_term_loan_maturity"
           v == m.committed - amount
           w == m.next_unpaid_term_loan_seqno + 1
           z == IF n + 1 < m.next_new_term_loan_seqno
                  THEN ls[<<u, n + 1>>].maturity ELSE m.next_term_loan_maturity
           r == SetOne(m, f, v)
           q == SetThree(m, f, v, g, w, h, z)
<1>0. /\ m.committed \in Nat /\ m.next_unpaid_term_loan_seqno \in Nat
      /\ m.next_new_term_loan_seqno \in Nat /\ m.next_term_loan_maturity \in Nat
  BY UserNumbers DEF MarginUser
<1>1. v \in Nat /\ w \in Nat /\ z \in Nat
  BY <1>0
<1>2. LoanRepaid(m, ls, u, n, amount) = IF amount < ls[<<u, n>>].balance THEN r ELSE q
  BY DEF LoanRepaid, SetOne, SetThree
<1>3. /\ f \in UserFields /\ g \in UserFields /\ h \in UserFields /\ f # g /\ f # h /\ g # h
      /\ m \in UserOf(Nat)
  BY DEF UserFields, MarginUser
<1> HIDE DEF f, g, h, v, w, z
<1>4. r \in UserOf(Nat) /\ r[f] = v /\ Agree(m, r, {f})
  BY <1>1, <1>3, SetOneField
<1>5. q \in UserOf(Nat) /\ q[f] = v /\ q[g] = w /\ q[h] = z /\ Agree(m, q, {f, g, h})
  BY <1>1, <1>3 DEF SetThree, UserOf, Agree
<1> HIDE DEF r, q
<1>6. /\ r.pending = m.pending /\ r.entitled_tokens = m.entitled_tokens
      /\ r.entitled_tickets = m.entitled_tickets
      /\ r.next_new_term_loan_seqno = m.next_new_term_loan_seqno
      /\ r.next_unpaid_term_loan_seqno = m.next_unpaid_term_loan_seqno
      /\ r.next_term_loan_maturity = m.next_term_loan_maturity
  BY <1>4, AgreeKeeps DEF f
<1>7. /\ q.pending = m.pending /\ q.entitled_tokens = m.entitled_tokens
      /\ q.entitled_tickets = m.entitled_tickets
      /\ q.next_new_term_loan_seqno = m.next_new_term_loan_seqno
  BY <1>5, AgreeKeeps DEF f, g, h
<1>8. /\ r.committed = v /\ q.committed = v /\ q.next_unpaid_term_loan_seqno = w
      /\ q.next_term_loan_maturity = z
  BY <1>4, <1>5 DEF f, g, h
<1>9. Entitled(r) = Entitled(m) /\ Entitled(q) = Entitled(m)
  BY <1>6, <1>7 DEF Entitled
<1>10. CASE amount < ls[<<u, n>>].balance
  BY <1>2, <1>4, <1>6, <1>8, <1>9, <1>10 DEF MarginUser, Repays, v
<1>11. CASE ~(amount < ls[<<u, n>>].balance)
  BY <1>2, <1>5, <1>7, <1>8, <1>9, <1>11 DEF MarginUser, Repays, v, w, z
<1> QED BY <1>10, <1>11

\* A new MarginUser owes and is owed nothing.
LEMMA NewUser ==
  /\ NewMarginUser \in MarginUser
  /\ NewMarginUser.next_new_term_loan_seqno = 0 /\ NewMarginUser.next_unpaid_term_loan_seqno = 0
  /\ NewMarginUser.committed = 0 /\ NewMarginUser.pending = 0 /\ Entitled(NewMarginUser) = 0
  BY DEF NewMarginUser, MarginUser, UserOf, UserFields, None, Entitled


-----------------------------------------------------------------------------
(* The loans of a user                                                     *)

TermLoans == [balance : Nat \ {0}, strike : Nat, maturity : Nat, auto_roll : BOOLEAN]

LoanMap(ls, D) ==
  IsFiniteSet(DOMAIN ls) /\ DOMAIN ls \subseteq D \X Nat /\ ls \in [DOMAIN ls -> TermLoans]

\* the sequence numbers of the loans that a record tells of
Numbers(m) == m.next_unpaid_term_loan_seqno .. m.next_new_term_loan_seqno - 1

\* m tells of u's loans: which they are, when the first is due, and what they sum up to.
\* Loans are numbered in the order they mature.
OwnLoans(m, ls, u, now) ==
  /\ m.next_unpaid_term_loan_seqno <= m.next_new_term_loan_seqno
  /\ LoansOf(ls, u) = {<<u, n>> : n \in Numbers(m)}
  /\ \A i, j \in Numbers(m) : i <= j => ls[<<u, i>>].maturity <= ls[<<u, j>>].maturity
  /\ \A i \in Numbers(m) : ls[<<u, i>>].maturity <= now + BorrowTenor
  /\ m.next_unpaid_term_loan_seqno < m.next_new_term_loan_seqno =>
       m.next_term_loan_maturity = ls[<<u, m.next_unpaid_term_loan_seqno>>].maturity
  /\ m.committed = SumOver(Balances(ls), LoansOf(ls, u))

\* The balances of loans can be summed up.
LEMMA LoanSums ==
  ASSUME NEW ls, NEW D, LoanMap(ls, D), NEW u
  PROVE  /\ \A k \in DOMAIN ls : ls[k].balance \in Nat \ {0} /\ ls[k].maturity \in Nat
                                 /\ ls[k].strike \in Nat /\ ls[k].auto_roll \in BOOLEAN
         /\ DOMAIN Balances(ls) = DOMAIN ls
         /\ \A k \in DOMAIN ls : Balances(ls)[k] = ls[k].balance
         /\ LoansOf(ls, u) \subseteq DOMAIN ls /\ IsFiniteSet(LoansOf(ls, u))
         /\ Total(Balances(ls)) \in Nat /\ SumOver(Balances(ls), LoansOf(ls, u)) \in Nat
<1>1. \A k \in DOMAIN ls : ls[k].balance \in Nat \ {0} /\ ls[k].maturity \in Nat
                           /\ ls[k].strike \in Nat /\ ls[k].auto_roll \in BOOLEAN
  BY DEF LoanMap, TermLoans
<1>2. DOMAIN Balances(ls) = DOMAIN ls /\ \A k \in DOMAIN ls : Balances(ls)[k] = ls[k].balance
  BY DEF Balances
<1>3. LoansOf(ls, u) \subseteq DOMAIN ls /\ IsFiniteSet(DOMAIN ls)
  BY DEF LoansOf, LoanMap
<1>4. IsFiniteSet(LoansOf(ls, u))
  BY <1>3, FS_Subset
<1> DEFINE f == Balances(ls)
           A == DOMAIN ls
           B == LoansOf(ls, u)
<1>5. (\A k \in A : f[k] \in Nat) /\ \A k \in B : f[k] \in Nat
  BY <1>1, <1>2, <1>3
<1> HIDE DEF f, A, B
<1>6. SumOver(f, A) \in Nat /\ SumOver(f, B) \in Nat
  <2>1. IsFiniteSet(A) /\ IsFiniteSet(B)
    BY <1>3, <1>4 DEF A, B
  <2> QED BY <1>5, <2>1, SumNat
<1>7. Total(Balances(ls)) = SumOver(f, A)
  BY <1>2 DEF Total, f, A
<1> QED BY <1>1, <1>2, <1>3, <1>4, <1>6, <1>7 DEF f, A, B

\* Nothing changes for a user whose record and loans tell the same.
LEMMA SameLoans ==
  ASSUME NEW ls, NEW D, LoanMap(ls, D), NEW u, NEW m \in MarginUser, NEW now \in Nat,
         OwnLoans(m, ls, u, now),
         NEW r, SameDebt(m, r), NEW later \in Nat, now <= later,
         NEW lt, LoansOf(lt, u) = LoansOf(ls, u),
         \A k \in LoansOf(ls, u) : lt[k].maturity = ls[k].maturity /\ lt[k].balance = ls[k].balance
  PROVE  OwnLoans(r, lt, u, later)
<1>1. Numbers(r) = Numbers(m)
  BY DEF Numbers, SameDebt
<1>2. \A i \in Numbers(m) : <<u, i>> \in LoansOf(ls, u)
  BY DEF OwnLoans
<1>3. \A i \in Numbers(m) : lt[<<u, i>>].maturity = ls[<<u, i>>].maturity
  BY <1>2
<1>4. SumOver(Balances(lt), LoansOf(lt, u)) = SumOver(Balances(ls), LoansOf(ls, u))
  <2> DEFINE B == LoansOf(ls, u)
             f == Balances(lt)
             g == Balances(ls)
  <2>1. IsFiniteSet(B) /\ B = LoansOf(lt, u)
    BY LoanSums
  <2>2. \A k \in B : f[k] = g[k]
    <3>1. \A k \in B : k \in DOMAIN ls /\ k \in DOMAIN lt
      BY <2>1 DEF LoansOf
    <3> QED BY <3>1 DEF Balances
  <2> HIDE DEF B, f, g
  <2>3. SumOver(f, B) = SumOver(g, B)
    BY <2>1, <2>2, SumSame
  <2> QED BY <2>1, <2>3 DEF B, f, g
<1>5. \A i \in Numbers(m) : ls[<<u, i>>].maturity <= later + BorrowTenor
  <2>1. BorrowTenor \in Nat
    BY FixedTermAssumption
  <2>2. \A i \in Numbers(m) : ls[<<u, i>>].maturity \in Nat /\ ls[<<u, i>>].maturity <= now + BorrowTenor
    BY <1>2, LoanSums DEF OwnLoans
  <2> QED BY <2>1, <2>2
<1>6. m.next_unpaid_term_loan_seqno < m.next_new_term_loan_seqno =>
        m.next_unpaid_term_loan_seqno \in Numbers(m)
  BY UserNumbers DEF Numbers, MarginUser
<1> HIDE DEF Numbers
<1>7. /\ r.next_unpaid_term_loan_seqno <= r.next_new_term_loan_seqno
      /\ LoansOf(lt, u) = {<<u, n>> : n \in Numbers(r)}
      /\ r.next_unpaid_term_loan_seqno < r.next_new_term_loan_seqno =>
           r.next_term_loan_maturity = lt[<<u, r.next_unpaid_term_loan_seqno>>].maturity
      /\ r.committed = SumOver(Balances(lt), LoansOf(lt, u))
  BY <1>1, <1>3, <1>4, <1>6 DEF OwnLoans, SameDebt
<1>8. \A i, j \in Numbers(r) : i <= j => lt[<<u, i>>].maturity <= lt[<<u, j>>].maturity
  BY <1>1, <1>3 DEF OwnLoans
<1>9. \A i \in Numbers(r) : lt[<<u, i>>].maturity <= later + BorrowTenor
  BY <1>1, <1>3, <1>5
<1> QED BY <1>7, <1>8, <1>9 DEF OwnLoans


\* The loans of V are the same.
Others(ls, lt, V) ==
  \A v \in V : LoansOf(lt, v) = LoansOf(ls, v) /\ \A j \in LoansOf(ls, v) : lt[j] = ls[j]

\* u's record becomes r, the loans become lt and their sum grows by x.
LoanStep(ls, lt, D, u, r, now, x) ==
  /\ LoanMap(lt, D) /\ OwnLoans(r, lt, u, now) /\ Others(ls, lt, D \ {u})
  /\ Total(Balances(lt)) = Total(Balances(ls)) + x

\* A new loan gets a new number, and matures last.
LEMMA LoanAdded ==
  ASSUME NEW ls, NEW D, LoanMap(ls, D), NEW u \in D, NEW m \in MarginUser, NEW now \in Nat,
         OwnLoans(m, ls, u, now),
         NEW l \in TermLoans, l.maturity = now + BorrowTenor,
         NEW r, Borrows(m, r, l.balance, now + BorrowTenor)
  PROVE  LoanStep(ls, Put(ls, <<u, m.next_new_term_loan_seqno>>, l), D, u, r, now, l.balance)
<1> DEFINE a == m.next_unpaid_term_loan_seqno
           b == m.next_new_term_loan_seqno
           k == <<u, b>>
           lt == Put(ls, k, l)
           A == DOMAIN ls
           B == LoansOf(ls, u)
<1>1. a \in Nat /\ b \in Nat /\ a <= b /\ BorrowTenor \in Nat
  BY UserNumbers, FixedTermAssumption DEF OwnLoans, MarginUser
<1>2. Numbers(m) = a .. b - 1 /\ b \notin Numbers(m)
      /\ Numbers(r) = Numbers(m) \cup {b}
  <2>1. r.next_unpaid_term_loan_seqno = a /\ r.next_new_term_loan_seqno = b + 1
    BY DEF Borrows
  <2>2. a .. (b + 1) - 1 = (a .. b - 1) \cup {b} /\ b \notin a .. b - 1
    BY <1>1
  <2> QED BY <2>1, <2>2 DEF Numbers
<1>3. B = {<<u, n>> : n \in Numbers(m)}
  BY DEF OwnLoans
<1>4. k \notin B /\ k \notin A
  <2>1. k \notin B
    BY <1>2, <1>3
  <2>2. k \in A => k \in B
    BY DEF LoansOf
  <2> QED BY <2>1, <2>2
<1>5. /\ DOMAIN lt = A \cup {k} /\ lt[k] = l /\ \A j \in A : lt[j] = ls[j] /\ lt \in [A \cup {k} -> TermLoans]
  BY <1>4 DEF Put, LoanMap
<1>6. LoanMap(lt, D)
  <2>1. IsFiniteSet(A) /\ A \subseteq D \X Nat /\ k \in D \X Nat
    BY <1>1 DEF LoanMap
  <2>2. lt \in [A \cup {k} -> TermLoans]
    BY DEF Put, LoanMap
  <2> HIDE DEF k, lt, A
  <2>3. IsFiniteSet(A \cup {k})
    BY <2>1, FS_AddElement
  <2> QED BY <1>5, <2>1, <2>2, <2>3 DEF LoanMap
<1>7. LoansOf(lt, u) = B \cup {k}
  <2>1. k[1] = u
    OBVIOUS
  <2> HIDE DEF k, lt
  <2> QED BY <1>5, <2>1 DEF LoansOf
<1>8. l.balance \in Nat \ {0} /\ l.maturity \in Nat
  BY DEF TermLoans
<1>9. \A i \in Numbers(m) : <<u, i>> \in A /\ lt[<<u, i>>] = ls[<<u, i>>]
  <2>1. \A i \in Numbers(m) : <<u, i>> \in A
    BY <1>3 DEF LoansOf
  <2> HIDE DEF lt, A
  <2> QED BY <1>5, <2>1
<1> DEFINE f == Balances(ls)
           g == Balances(lt)
<1>10. /\ \A j \in A : f[j] = g[j] /\ g[j] \in Int
       /\ g[k] = l.balance /\ IsFiniteSet(A) /\ IsFiniteSet(B) /\ B \subseteq A
       /\ DOMAIN f = A /\ DOMAIN g = A \cup {k}
  <2>1. \A j \in A : f[j] = ls[j].balance /\ ls[j].balance \in Nat
    BY LoanSums
  <2>2. IsFiniteSet(A) /\ IsFiniteSet(B) /\ B \subseteq A
    BY LoanSums DEF LoanMap
  <2> HIDE DEF lt, A, k, B
  <2>3. \A j \in A \cup {k} : g[j] = lt[j].balance
    BY <1>5 DEF Balances
  <2>4. DOMAIN f = A /\ DOMAIN g = A \cup {k}
    BY <1>5 DEF Balances, A
  <2> QED BY <1>5, <1>8, <2>1, <2>2, <2>3, <2>4
<1>11. /\ SumOver(g, A \cup {k}) = SumOver(f, A) + l.balance
       /\ SumOver(g, B \cup {k}) = SumOver(f, B) + l.balance
  <2> HIDE DEF f, g, A, B, k, lt
  <2>1. (\A j \in A \cup {k} : g[j] \in Int) /\ \A j \in B \cup {k} : g[j] \in Int
    BY <1>8, <1>10
  <2>2. SumOver(g, A \cup {k}) = SumOver(g, A) + l.balance
    BY <1>4, <1>10, <2>1, SumAdd
  <2>3. SumOver(g, B \cup {k}) = SumOver(g, B) + l.balance
    BY <1>4, <1>10, <2>1, SumAdd
  <2>4. SumOver(g, A) = SumOver(f, A) /\ SumOver(g, B) = SumOver(f, B)
    <3>1. (\A j \in A : g[j] = f[j]) /\ \A j \in B : g[j] = f[j]
      BY <1>10
    <3> QED BY <1>10, <3>1, SumSame
  <2> QED BY <2>2, <2>3, <2>4
<1>12. Total(Balances(lt)) = Total(Balances(ls)) + l.balance
  BY <1>10, <1>11 DEF Total
<1>13. r.committed = SumOver(Balances(lt), LoansOf(lt, u))
  <2>1. m.committed = SumOver(f, B)
    BY DEF OwnLoans
  <2> HIDE DEF f, g, B, k, lt
  <2> QED BY <1>7, <1>11, <2>1 DEF Borrows, g
<1>14. OwnLoans(r, lt, u, now)
  <2>1. LoansOf(lt, u) = {<<u, n>> : n \in Numbers(r)}
    <3>1. {<<u, n>> : n \in Numbers(m) \cup {b}} = {<<u, n>> : n \in Numbers(m)} \cup {<<u, b>>}
      OBVIOUS
    <3> QED BY <1>2, <1>3, <1>7, <3>1
  <2>2. r.next_unpaid_term_loan_seqno = a /\ r.next_new_term_loan_seqno = b + 1
    BY DEF Borrows
  <2> DEFINE M(i) == lt[<<u, i>>].maturity
             O(i) == ls[<<u, i>>].maturity
             T == now + BorrowTenor
  <2>3. M(b) = T /\ T \in Nat /\ \A i \in Numbers(m) : M(i) = O(i) /\ O(i) <= T /\ O(i) \in Nat
    <3>1. \A i \in Numbers(m) : M(i) = O(i) /\ O(i) \in Nat
      BY <1>9, LoanSums
    <3>2. \A i \in Numbers(m) : O(i) <= T
      BY DEF OwnLoans
    <3>3. M(b) = T
      BY <1>5
    <3> QED BY <1>1, <3>1, <3>2, <3>3
  <2>4. \A i, j \in Numbers(m) : i <= j => O(i) <= O(j)
    BY DEF OwnLoans
  <2>5. \A i, j \in Numbers(r) : i <= j => M(i) <= M(j)
    <3>1. \A j \in Numbers(m) : ~(b <= j)
      BY <1>1, <1>2
    <3> HIDE DEF M, O, T
    <3> QED BY <1>2, <2>3, <2>4, <3>1
  <2>6. \A i \in Numbers(r) : M(i) <= T
    <3> HIDE DEF M, O, T
    <3> QED BY <1>2, <2>3
  <2>7. r.next_term_loan_maturity = M(a)
    <3>1. CASE a = b
      <4>1. r.next_term_loan_maturity = T
        BY <3>1 DEF Borrows
      <4> QED BY <2>3, <3>1, <4>1
    <3>2. CASE a < b
      <4>1. r.next_term_loan_maturity = m.next_term_loan_maturity
        BY <1>1, <3>2 DEF Borrows
      <4>2. m.next_term_loan_maturity = O(a)
        BY <3>2 DEF OwnLoans
      <4>3. a \in Numbers(m)
        BY <1>1, <1>2, <3>2
      <4> QED BY <2>3, <4>1, <4>2, <4>3
    <3> QED BY <1>1, <3>1, <3>2
  <2>8. a <= b + 1
    BY <1>1
  <2> QED BY <1>13, <2>1, <2>2, <2>5, <2>6, <2>7, <2>8 DEF OwnLoans
<1>15. \A v \in D \ {u} : LoansOf(lt, v) = LoansOf(ls, v) /\ \A j \in LoansOf(ls, v) : lt[j] = ls[j]
  <2>1. k[1] = u
    OBVIOUS
  <2> HIDE DEF k, lt
  <2> QED BY <1>5, <2>1 DEF LoansOf
<1> QED BY <1>6, <1>12, <1>14, <1>15 DEF LoanStep, Others


\* The first loan is paid, in part or in full.
LEMMA LoanPaid ==
  ASSUME NEW ls, NEW D, LoanMap(ls, D), NEW u \in D, NEW m \in MarginUser, NEW now \in Nat,
         OwnLoans(m, ls, u, now),
         NEW n, <<u, n>> \in DOMAIN ls, Unpaid(m, n),
         NEW amount \in Nat, amount <= ls[<<u, n>>].balance
  PROVE  LET r == LoanRepaid(m, ls, u, n, amount)
             lt == LoansAfter(ls, u, n, amount)
         IN  /\ r \in MarginUser /\ r.pending = m.pending /\ Entitled(r) = Entitled(m)
             /\ r.committed = m.committed - amount
             /\ LoanStep(ls, lt, D, u, r, now, 0 - amount)
<1> DEFINE b == m.next_new_term_loan_seqno
           k == <<u, n>>
           r == LoanRepaid(m, ls, u, n, amount)
           lt == LoansAfter(ls, u, n, amount)
           A == DOMAIN ls
           B == LoansOf(ls, u)
           f == Balances(ls)
           g == Balances(lt)
           l == ls[k]
<1>1. n = m.next_unpaid_term_loan_seqno /\ n \in Nat /\ b \in Nat /\ n <= b
  BY UserNumbers DEF OwnLoans, MarginUser, Unpaid
<1>2. Numbers(m) = n .. b - 1
  BY <1>1 DEF Numbers
<1>3. B = {<<u, i>> : i \in Numbers(m)}
  BY DEF OwnLoans
<1>4. k \in A /\ k \in B /\ k[1] = u /\ n \in Numbers(m) /\ n < b
  <2>1. k \in A /\ k[1] = u
    OBVIOUS
  <2>2. k \in B
    BY <2>1 DEF LoansOf
  <2>3. n \in Numbers(m)
    BY <1>3, <2>2
  <2> QED BY <1>1, <1>2, <2>1, <2>2, <2>3
<1>5. /\ l \in TermLoans /\ l.balance \in Nat \ {0} /\ l.maturity \in Nat
      /\ IsFiniteSet(A) /\ IsFiniteSet(B) /\ B \subseteq A /\ DOMAIN f = A
      /\ \A j \in A : f[j] = ls[j].balance /\ f[j] \in Nat
      /\ SumOver(f, A) \in Nat /\ SumOver(f, B) \in Nat
      /\ A \subseteq D \X Nat /\ ls \in [A -> TermLoans]
  <2>1. /\ \A j \in A : f[j] = ls[j].balance /\ ls[j].balance \in Nat \ {0} /\ ls[j].maturity \in Nat
        /\ DOMAIN f = A /\ IsFiniteSet(B) /\ B \subseteq A
        /\ Total(f) \in Nat /\ SumOver(f, B) \in Nat
    BY LoanSums
  <2> QED BY <1>4, <2>1 DEF LoanMap, Total
<1>6. m.committed = SumOver(f, B) /\ amount <= m.committed
  <2>1. m.committed = SumOver(f, B)
    BY DEF OwnLoans
  <2>2. f[k] <= SumOver(f, B)
    <3>1. \A j \in B : f[j] \in Nat
      BY <1>5
    <3> HIDE DEF f, B, k
    <3> QED BY <1>4, <1>5, <3>1, SumCovers
  <2>3. f[k] = l.balance
    BY <1>4, <1>5
  <2> HIDE DEF f, k
  <2> QED BY <1>5, <2>1, <2>2, <2>3 DEF l, k
<1>7. n + 1 < b => /\ n + 1 \in Numbers(m) /\ ls[<<u, n + 1>>].maturity \in Nat
                   /\ <<u, n + 1>> \in A
  <2> SUFFICES ASSUME n + 1 < b
               PROVE  n + 1 \in Numbers(m) /\ ls[<<u, n + 1>>].maturity \in Nat /\ <<u, n + 1>> \in A
    OBVIOUS
  <2>1. n + 1 \in Numbers(m)
    BY <1>1, <1>2
  <2>2. <<u, n + 1>> \in A
    BY <1>3, <1>5, <2>1
  <2> QED BY <2>1, <2>2, LoanSums
<1>8. /\ r \in MarginUser /\ r.pending = m.pending /\ Entitled(r) = Entitled(m)
      /\ r.committed = m.committed - amount
      /\ r.next_new_term_loan_seqno = b
      /\ IF amount < l.balance
           THEN /\ r.next_unpaid_term_loan_seqno = n
                /\ r.next_term_loan_maturity = m.next_term_loan_maturity
           ELSE /\ r.next_unpaid_term_loan_seqno = n + 1
                /\ n + 1 < b => r.next_term_loan_maturity = ls[<<u, n + 1>>].maturity
  <2>1. /\ n \in Nat /\ amount <= m.committed
        /\ n + 1 < m.next_new_term_loan_seqno => ls[<<u, n + 1>>].maturity \in Nat
    BY <1>1, <1>6, <1>7
  <2>2. r \in MarginUser /\ Repays(m, r, ls, u, n, amount)
    BY <2>1, RepaidUser
  <2> HIDE DEF r
  <2> QED BY <1>1, <2>2 DEF Repays
<1> HIDE DEF r
<1>9. \A i \in Numbers(m) : <<u, i>> \in B /\ ls[<<u, i>>].maturity \in Nat
  <2>1. \A i \in Numbers(m) : <<u, i>> \in B
    BY <1>3
  <2> QED BY <1>5, <2>1, LoanSums
<1> DEFINE O(i) == ls[<<u, i>>].maturity
           M(i) == lt[<<u, i>>].maturity
           T == now + BorrowTenor
<1>10. /\ \A i, j \in Numbers(m) : i <= j => O(i) <= O(j)
       /\ \A i \in Numbers(m) : O(i) <= T
       /\ m.next_term_loan_maturity = O(n)
  BY <1>1, <1>4 DEF OwnLoans
<1>11. CASE amount < l.balance
  <2> DEFINE z == [l EXCEPT !.balance = l.balance - amount]
  <2>1. lt = [ls EXCEPT ![k] = z]
    BY <1>11 DEF LoansAfter
  <2>2. z \in TermLoans /\ z.balance = l.balance - amount /\ z.maturity = l.maturity
    BY <1>5, <1>11 DEF TermLoans
  <2> HIDE DEF z, lt, l
  <2>3. /\ DOMAIN lt = A /\ lt \in [A -> TermLoans] /\ lt[k] = z
        /\ \A j \in A : j # k => lt[j] = ls[j]
    BY <1>4, <1>5, <2>1, <2>2
  <2>4. LoanMap(lt, D)
    BY <1>5, <2>3 DEF LoanMap
  <2> HIDE DEF k
  <2>5. \A v : LoansOf(lt, v) = LoansOf(ls, v)
    BY <2>3 DEF LoansOf
  <2>6. \A v \in D \ {u} : \A j \in LoansOf(ls, v) : lt[j] = ls[j]
    BY <1>4, <2>3 DEF LoansOf
  <2>7. DOMAIN g = A /\ g[k] = l.balance - amount /\ f[k] = l.balance /\ \A j \in A \ {k} : g[j] = f[j]
    <3>1. \A j \in A : g[j] = lt[j].balance /\ f[j] = ls[j].balance
      BY <2>3 DEF Balances
    <3>2. DOMAIN g = A
      BY <2>3 DEF Balances
    <3> QED BY <1>4, <2>2, <2>3, <3>1, <3>2 DEF l
  <2>8. /\ SumOver(g, A) = SumOver(f, A) - amount
        /\ SumOver(g, B) = SumOver(f, B) - amount
    <3> HIDE DEF f, g, A, B
    <3>1. g[k] \in Int /\ g[k] - f[k] = 0 - amount
      BY <1>5, <2>7
    <3>2. SumOver(g, A) = SumOver(f, A) + (g[k] - f[k])
      <4>1. \A j \in A : f[j] \in Int
        BY <1>5
      <4> QED BY <1>4, <1>5, <2>7, <3>1, <4>1, SumChange
    <3>3. SumOver(g, B) = SumOver(f, B) + (g[k] - f[k])
      <4>1. (\A j \in B : f[j] \in Int) /\ \A j \in B \ {k} : g[j] = f[j]
        BY <1>5, <2>7
      <4> QED BY <1>4, <1>5, <3>1, <4>1, SumChange
    <3> QED BY <1>5, <3>1, <3>2, <3>3
  <2>9. Total(Balances(lt)) = Total(Balances(ls)) - amount
    BY <1>5, <2>7, <2>8 DEF Total
  <2>10. OwnLoans(r, lt, u, now)
    <3>1. Numbers(r) = Numbers(m)
      BY <1>1, <1>8, <1>11 DEF Numbers
    <3>2. \A i \in Numbers(m) : M(i) = O(i)
      <4> SUFFICES ASSUME NEW i \in Numbers(m) PROVE M(i) = O(i)
        OBVIOUS
      <4>1. CASE <<u, i>> = k
        BY <2>2, <2>3, <4>1 DEF l
      <4>2. CASE <<u, i>> # k
        BY <1>5, <1>9, <2>3, <4>2
      <4> QED BY <4>1, <4>2
    <3>3. r.committed = SumOver(Balances(lt), LoansOf(lt, u))
      BY <1>6, <1>8, <2>5, <2>8
    <3>4. LoansOf(lt, u) = {<<u, i>> : i \in Numbers(r)}
      BY <1>3, <2>5, <3>1
    <3>5. \A i, j \in Numbers(r) : i <= j => M(i) <= M(j)
      BY <1>10, <3>1, <3>2
    <3>6. \A i \in Numbers(r) : M(i) <= T
      BY <1>10, <3>1, <3>2
    <3>7. r.next_term_loan_maturity = M(r.next_unpaid_term_loan_seqno)
      BY <1>4, <1>8, <1>10, <1>11, <3>2
    <3>8. r.next_unpaid_term_loan_seqno <= r.next_new_term_loan_seqno
      BY <1>1, <1>8, <1>11
    <3> QED BY <3>3, <3>4, <3>5, <3>6, <3>7, <3>8 DEF OwnLoans
  <2>11. Total(Balances(lt)) = Total(Balances(ls)) + (0 - amount)
    BY <2>9, LoanSums
  <2>12. LoanStep(ls, lt, D, u, r, now, 0 - amount)
    BY <2>4, <2>5, <2>6, <2>10, <2>11 DEF LoanStep, Others
  <2> QED BY <1>8, <2>12 DEF r, lt
<1>12. CASE ~(amount < l.balance)
  <2>0. amount = l.balance
    BY <1>5, <1>12
  <2>1. lt = Drop(ls, k)
    BY <1>12 DEF LoansAfter
  <2> HIDE DEF lt, l
  <2>3. /\ DOMAIN lt = A \ {k} /\ lt \in [A \ {k} -> TermLoans]
        /\ \A j \in A \ {k} : lt[j] = ls[j]
    BY <1>5, <2>1 DEF Drop
  <2>4. LoanMap(lt, D)
    <3>1. IsFiniteSet(A \ {k})
      BY <1>5, FS_Subset
    <3>2. A \ {k} \subseteq D \X Nat
      BY <1>5
    <3> HIDE DEF A
    <3> QED BY <2>3, <3>1, <3>2 DEF LoanMap
  <2>5. LoansOf(lt, u) = B \ {k}
    <3> HIDE DEF k
    <3> QED BY <2>3 DEF LoansOf
  <2>6. \A v \in D \ {u} : LoansOf(lt, v) = LoansOf(ls, v) /\ \A j \in LoansOf(ls, v) : lt[j] = ls[j]
    <3> HIDE DEF k
    <3> QED BY <1>4, <2>3 DEF LoansOf
  <2>7. DOMAIN g = A \ {k} /\ f[k] = amount /\ \A j \in A \ {k} : g[j] = f[j]
    <3> HIDE DEF k
    <3>1. \A j \in A \ {k} : g[j] = lt[j].balance /\ f[j] = ls[j].balance
      BY <2>3 DEF Balances
    <3>2. DOMAIN g = A \ {k}
      BY <2>3 DEF Balances
    <3> QED BY <1>4, <1>5, <2>0, <2>3, <3>1, <3>2 DEF l
  <2>8. /\ SumOver(g, A \ {k}) = SumOver(f, A) - amount
        /\ SumOver(g, B \ {k}) = SumOver(f, B) - amount
    <3> HIDE DEF f, g, A, B, k
    <3>1. (\A j \in A : f[j] \in Int) /\ (\A j \in B : f[j] \in Int) /\ amount \in Int
      BY <1>5
    <3>2. SumOver(f, A) = SumOver(f, A \ {k}) + f[k]
      BY <1>4, <1>5, <3>1, SumRemove
    <3>3. SumOver(f, B) = SumOver(f, B \ {k}) + f[k]
      BY <1>4, <1>5, <3>1, SumRemove
    <3>4. IsFiniteSet(A \ {k}) /\ IsFiniteSet(B \ {k})
      BY <1>5, FS_Subset
    <3>5. SumOver(g, A \ {k}) = SumOver(f, A \ {k}) /\ SumOver(g, B \ {k}) = SumOver(f, B \ {k})
      <4>1. \A j \in B \ {k} : g[j] = f[j]
        BY <1>5, <2>7
      <4> QED BY <2>7, <3>4, <4>1, SumSame
    <3>6. SumOver(f, A \ {k}) \in Int /\ SumOver(f, B \ {k}) \in Int
      BY <3>1, <3>4, SumType
    <3> QED BY <2>7, <3>1, <3>2, <3>3, <3>5, <3>6
  <2>9. Total(Balances(lt)) = Total(Balances(ls)) - amount
    BY <1>5, <2>7, <2>8 DEF Total
  <2>10. OwnLoans(r, lt, u, now)
    <3>1. Numbers(r) = Numbers(m) \ {n} /\ \A i \in Numbers(r) : i \in Numbers(m) /\ i # n
      <4>1. Numbers(r) = n + 1 .. b - 1
        BY <1>8, <1>12 DEF Numbers
      <4>2. n + 1 .. b - 1 = (n .. b - 1) \ {n}
        BY <1>1
      <4> QED BY <1>2, <4>1, <4>2
    <3>2. \A i \in Numbers(r) : M(i) = O(i)
      <4> SUFFICES ASSUME NEW i \in Numbers(r) PROVE M(i) = O(i)
        OBVIOUS
      <4>1. <<u, i>> # k /\ <<u, i>> \in A
        BY <1>5, <1>9, <3>1
      <4> HIDE DEF k, A
      <4> QED BY <2>3, <4>1
    <3>3. r.committed = SumOver(Balances(lt), LoansOf(lt, u))
      BY <1>6, <1>8, <2>5, <2>8
    <3>4. LoansOf(lt, u) = {<<u, i>> : i \in Numbers(r)}
      <4>1. {<<u, i>> : i \in Numbers(m)} \ {<<u, n>>} = {<<u, i>> : i \in Numbers(m) \ {n}}
        OBVIOUS
      <4> QED BY <1>3, <2>5, <3>1, <4>1
    <3>5. \A i, j \in Numbers(r) : i <= j => M(i) <= M(j)
      <4> HIDE DEF M, O
      <4> QED BY <1>10, <3>1, <3>2
    <3>6. \A i \in Numbers(r) : M(i) <= T
      <4> HIDE DEF M, O, T
      <4> QED BY <1>10, <3>1, <3>2
    <3>7. n + 1 < b => r.next_term_loan_maturity = M(r.next_unpaid_term_loan_seqno)
      <4> SUFFICES ASSUME n + 1 < b PROVE r.next_term_loan_maturity = M(n + 1)
        BY <1>8, <1>12
      <4>1. n + 1 \in Numbers(r)
        BY <1>1, <1>7, <3>1
      <4>2. r.next_term_loan_maturity = O(n + 1)
        BY <1>8, <1>12
      <4> QED BY <3>2, <4>1, <4>2
    <3>8. /\ r.next_unpaid_term_loan_seqno <= r.next_new_term_loan_seqno
          /\ r.next_unpaid_term_loan_seqno < r.next_new_term_loan_seqno => n + 1 < b
      BY <1>1, <1>4, <1>8, <1>12
    <3> QED BY <3>3, <3>4, <3>5, <3>6, <3>7, <3>8 DEF OwnLoans
  <2>11. Total(Balances(lt)) = Total(Balances(ls)) + (0 - amount)
    BY <2>9, LoanSums
  <2>12. LoanStep(ls, lt, D, u, r, now, 0 - amount)
    BY <2>4, <2>5, <2>6, <2>10, <2>11 DEF LoanStep, Others
  <2> QED BY <1>8, <2>12 DEF r, lt
<1> QED BY <1>11, <1>12


-----------------------------------------------------------------------------
(* The market: its orders and events, and who may own them                 *)

Flags == {"NEW_DEBT", "MARGIN", "AUTO_ROLL", "AUTO_STAKE"}

\* Callback infos of orders when D have MarginUser accounts: only they have
\* margin orders, only margin orders to borrow make debt, only bids are staked.
Infos(D) ==
  [side \in Sides |->
     {i \in [owner : Holders, flags : SUBSET Flags] :
        /\ "MARGIN" \in i.flags => i.owner \in D
        /\ "NEW_DEBT" \in i.flags => side = "Ask" /\ "MARGIN" \in i.flags
        /\ "AUTO_STAKE" \in i.flags => side = "Bid"}]

Events(D) == Event(Infos(D)["Bid"], "Bid") \cup Event(Infos(D)["Ask"], "Ask")

Market(b, q, D) == IsBook(b, Infos(D)) /\ q \in Seq(Events(D))

\* whoever has an account
Anyone == Infos(MarginUsers)

\* More accounts, more orders.
LEMMA MoreInfos ==
  ASSUME NEW D, NEW E, D \subseteq E
  PROVE  \A side \in Sides : /\ Infos(D)[side] \subseteq Infos(E)[side]
                             /\ Order(Infos(D)[side]) \subseteq Order(Infos(E)[side])
                             /\ Event(Infos(D)[side], side) \subseteq Event(Infos(E)[side], side)
<1> SUFFICES ASSUME NEW side \in Sides
             PROVE  /\ Infos(D)[side] \subseteq Infos(E)[side]
                    /\ Order(Infos(D)[side]) \subseteq Order(Infos(E)[side])
                    /\ Event(Infos(D)[side], side) \subseteq Event(Infos(E)[side], side)
  OBVIOUS
<1>1. Infos(D)[side] \subseteq Infos(E)[side]
  BY DEF Infos
<1> QED BY <1>1 DEF Order, Event

\* A sequence stays one when its elements may be more.
LEMMA SeqMore ==
  ASSUME NEW S, NEW T, S \subseteq T, NEW s \in Seq(S)
  PROVE  s \in Seq(T)
<1>1. s \in [1 .. Len(s) -> T] /\ Len(s) \in Nat
  OBVIOUS
<1> QED BY <1>1

\* So do a book and a queue.
LEMMA MoreMarket ==
  ASSUME NEW D, NEW E, D \subseteq E, NEW b, NEW q, Market(b, q, D)
  PROVE  Market(b, q, E)
<1>1. \A side \in Sides : b[side] \in Seq(Order(Infos(E)[side]))
  <2> SUFFICES ASSUME NEW side \in Sides PROVE b[side] \in Seq(Order(Infos(E)[side]))
    OBVIOUS
  <2>1. b[side] \in Seq(Order(Infos(D)[side])) /\ Order(Infos(D)[side]) \subseteq Order(Infos(E)[side])
    BY MoreInfos DEF Market, IsBook
  <2> QED BY <2>1, SeqMore
<1>2. Events(D) \subseteq Events(E)
  BY MoreInfos DEF Events, Sides
<1>3. q \in Seq(Events(E))
  BY <1>2, SeqMore DEF Market
<1> QED BY <1>1, <1>3 DEF Market, IsBook

\* What is owed for orders and events, and the debt of v in them
OwedBid == [o \in Order(Anyone["Bid"]) |-> OwedForOrder("Bid", o)]
OwedAsk == [o \in Order(Anyone["Ask"]) |-> OwedForOrder("Ask", o)]
NetOf(S) == [e \in S |-> OwedForEvent(e) - DueForEvent(e)]
DebtIf(v, o) == IF o.info.owner = v /\ IsDebt(o.info) THEN o.base ELSE 0
DebtOf(v, S) == [o \in S |-> DebtIf(v, o)]

Owed(b, q) == Weight(OwedBid, b["Bid"]) + Weight(OwedAsk, b["Ask"]) + Weight(NetOf(Events(MarginUsers)), q)
Debt(v, b, q) == Weight(DebtOf(v, Order(Anyone["Ask"])), b["Ask"])
                   + Weight(DebtOf(v, Events(MarginUsers)), q)

\* The parts of an order.
LEMMA OrderParts ==
  ASSUME NEW I, NEW o \in Order(I)
  PROVE  o.id \in Nat /\ o.price \in Nat \ {0} /\ o.base \in Nat \ {0} /\ o.info \in I
  BY DEF Order

\* The parts of an event.
LEMMA EventParts ==
  ASSUME NEW I, NEW side, NEW e \in Event(I, side)
  PROVE  /\ e.tag \in {"Fill", "Out"} /\ e.side = side /\ e.info \in I
         /\ e.base \in Nat /\ e.price \in Nat \ {0} /\ (e.tag = "Fill" => e.base \in Nat \ {0})
         /\ EventQuote(e) \in Nat
<1>1. /\ e.tag \in {"Fill", "Out"} /\ e.side = side /\ e.info \in I
      /\ e.base \in Nat /\ e.price \in Nat \ {0} /\ (e.tag = "Fill" => e.base \in Nat \ {0})
  BY DEF Event
<1>2. EventQuote(e) \in Nat
  BY <1>1, QuoteNat DEF EventQuote
<1> QED BY <1>1, <1>2

\* Weights are numbers.
LEMMA WeightsTyped ==
  /\ OwedBid \in [Order(Anyone["Bid"]) -> Int] /\ OwedAsk \in [Order(Anyone["Ask"]) -> Int]
  /\ NetOf(Events(MarginUsers)) \in [Events(MarginUsers) -> Int]
  /\ \A side \in Sides :
       /\ Event(Anyone[side], side) \subseteq Events(MarginUsers)
       /\ NetOf(Event(Anyone[side], side)) \in [Event(Anyone[side], side) -> Int]
  /\ \A v : /\ DebtOf(v, Order(Anyone["Ask"])) \in [Order(Anyone["Ask"]) -> Int]
            /\ DebtOf(v, Events(MarginUsers)) \in [Events(MarginUsers) -> Int]
            /\ \A side \in Sides :
                 DebtOf(v, Event(Anyone[side], side)) \in [Event(Anyone[side], side) -> Int]
<1>1. ASSUME NEW side \in Sides, NEW o, o.base \in Nat, o.price \in Nat \ {0}
      PROVE  OwedForOrder(side, o) \in Nat
  <2>1. quote_from_base(o.base, o.price) \in Nat
    BY <1>1, QuoteNat
  <2> QED BY <1>1, <2>1 DEF OwedForOrder, Sides
<1>2. ASSUME NEW side \in Sides, NEW e \in Event(Anyone[side], side)
      PROVE  OwedForEvent(e) \in Int /\ DueForEvent(e) \in Int /\ e.base \in Int
  <2>1. /\ e.tag \in {"Fill", "Out"} /\ e.side = side
        /\ e.base \in Nat /\ e.price \in Nat \ {0} /\ EventQuote(e) \in Nat
    BY EventParts
  <2>2. OwedForOrder(e.side, e) \in Nat
    BY <1>1, <2>1
  <2> QED BY <2>1, <2>2 DEF OwedForEvent, DueForEvent
<1>3. \A side \in Sides : Event(Anyone[side], side) \subseteq Events(MarginUsers)
  BY DEF Events, Sides, Anyone
<1>4. \A e \in Events(MarginUsers) : OwedForEvent(e) - DueForEvent(e) \in Int /\ e.base \in Int
  <2> SUFFICES ASSUME NEW e \in Events(MarginUsers)
               PROVE  OwedForEvent(e) - DueForEvent(e) \in Int /\ e.base \in Int
    OBVIOUS
  <2>1. PICK side \in Sides : e \in Event(Anyone[side], side)
    BY DEF Events, Sides, Anyone
  <2>2. OwedForEvent(e) \in Int /\ DueForEvent(e) \in Int /\ e.base \in Int
    BY <1>2, <2>1
  <2> QED BY <2>2
<1>5. OwedBid \in [Order(Anyone["Bid"]) -> Int] /\ OwedAsk \in [Order(Anyone["Ask"]) -> Int]
  <2>1. ASSUME NEW side \in Sides, NEW o \in Order(Anyone[side])
        PROVE  OwedForOrder(side, o) \in Int
    <3>1. OwedForOrder(side, o) \in Nat
      BY <1>1, OrderParts
    <3> QED BY <3>1
  <2> QED BY <2>1 DEF OwedBid, OwedAsk, Sides
<1>6. /\ NetOf(Events(MarginUsers)) \in [Events(MarginUsers) -> Int]
      /\ \A v : DebtOf(v, Events(MarginUsers)) \in [Events(MarginUsers) -> Int]
  BY <1>4 DEF NetOf, DebtOf, DebtIf
<1>7. \A side \in Sides :
        /\ NetOf(Event(Anyone[side], side)) \in [Event(Anyone[side], side) -> Int]
        /\ \A v : DebtOf(v, Event(Anyone[side], side)) \in [Event(Anyone[side], side) -> Int]
  BY <1>3, <1>4 DEF NetOf, DebtOf, DebtIf
<1>8. \A v : DebtOf(v, Order(Anyone["Ask"])) \in [Order(Anyone["Ask"]) -> Int]
  <2>1. \A o \in Order(Anyone["Ask"]) : o.base \in Int
    BY OrderParts
  <2> QED BY <2>1 DEF DebtOf, DebtIf
<1> QED BY <1>3, <1>5, <1>6, <1>7, <1>8


\* What the events and the rest of a matched order weigh.
LEMMA PartsOwed ==
  ASSUME NEW side \in Sides, NEW o \in Order(Anyone[side]), NEW qty \in 1 .. o.base
  PROVE  LET S == Event(Anyone[side], side)
             f == Fill(side, o, qty)
             left == o.base - qty
             x == Out(side, o, left)
             r == [o EXCEPT !.base = left]
             debt == IsDebt(o.info)
             q == quote_from_base(qty, o.price)
         IN  /\ f \in S /\ x \in S /\ Out(side, o, o.base) \in S
             /\ left # 0 => r \in Order(Anyone[side])
             /\ side = "Bid" => ~debt
             /\ NetOf(S)[f] = IF side = "Bid" THEN qty ELSE q - (IF debt THEN qty ELSE 0)
             /\ NetOf(S)[x] = IF side = "Bid" THEN quote_from_base(left, o.price)
                                              ELSE IF debt THEN 0 ELSE left
             /\ NetOf(S)[Out(side, o, o.base)] = OwedForOrder(side, o)
             /\ OwedForOrder(side, o) = IF side = "Bid" THEN quote_from_base(o.base, o.price)
                                                        ELSE IF debt THEN 0 ELSE o.base
             /\ OwedForOrder(side, r) = IF side = "Bid" THEN quote_from_base(left, o.price)
                                                        ELSE IF debt THEN 0 ELSE left
             /\ \A v : /\ DebtOf(v, S)[f] = IF o.info.owner = v /\ debt THEN qty ELSE 0
                       /\ DebtOf(v, S)[x] = IF o.info.owner = v /\ debt THEN left ELSE 0
                       /\ DebtOf(v, S)[Out(side, o, o.base)] = DebtIf(v, o)
                       /\ DebtIf(v, r) = IF o.info.owner = v /\ debt THEN left ELSE 0
<1> DEFINE S == Event(Anyone[side], side)
           f == Fill(side, o, qty)
           left == o.base - qty
           x == Out(side, o, left)
           y == Out(side, o, o.base)
           r == [o EXCEPT !.base = left]
           debt == IsDebt(o.info)
           q == quote_from_base(qty, o.price)
<1>1. f \in S /\ x \in S /\ y \in S /\ (left # 0 => r \in Order(Anyone[side]))
  BY PartsType
<1>2. o.base \in Nat \ {0} /\ o.price \in Nat \ {0} /\ o.info \in Anyone[side]
      /\ q \in Nat /\ quote_from_base(left, o.price) \in Nat /\ quote_from_base(o.base, o.price) \in Nat
      /\ left \in Nat /\ qty \in Nat
  <2>1. o.base \in Nat \ {0} /\ o.price \in Nat \ {0} /\ o.info \in Anyone[side]
    BY OrderParts
  <2>2. left \in Nat /\ qty \in Nat
    BY <2>1
  <2> QED BY <2>1, <2>2, QuoteNat
<1>3. side = "Bid" => ~debt
  BY <1>2 DEF Anyone, Infos, IsDebt, Sides
<1>4. /\ f.tag = "Fill" /\ f.side = side /\ f.info = o.info /\ f.base = qty /\ f.price = o.price
      /\ x.tag = "Out" /\ x.side = side /\ x.info = o.info /\ x.base = left /\ x.price = o.price
      /\ y.tag = "Out" /\ y.side = side /\ y.info = o.info /\ y.base = o.base /\ y.price = o.price
      /\ r.info = o.info /\ r.base = left /\ r.price = o.price
  BY DEF Fill, Out, Order
<1> HIDE DEF S, f, x, y, r, left
<1>5. /\ OwedForOrder(side, o) = IF side = "Bid" THEN quote_from_base(o.base, o.price)
                                                 ELSE IF debt THEN 0 ELSE o.base
      /\ OwedForOrder(side, r) = IF side = "Bid" THEN quote_from_base(left, o.price)
                                                 ELSE IF debt THEN 0 ELSE left
      /\ OwedForOrder(side, x) = IF side = "Bid" THEN quote_from_base(left, o.price)
                                                 ELSE IF debt THEN 0 ELSE left
      /\ OwedForOrder(side, y) = OwedForOrder(side, o)
  BY <1>4 DEF OwedForOrder, Sides
<1>6. /\ OwedForEvent(f) = IF side = "Bid" THEN qty ELSE q
      /\ OwedForEvent(x) = OwedForOrder(side, x) /\ OwedForEvent(y) = OwedForOrder(side, y)
      /\ DueForEvent(x) = 0 /\ DueForEvent(y) = 0 /\ DueForEvent(f) = IF debt THEN qty ELSE 0
  BY <1>4 DEF OwedForEvent, DueForEvent, EventQuote, Sides
<1>7. /\ NetOf(S)[f] = OwedForEvent(f) - DueForEvent(f)
      /\ NetOf(S)[x] = OwedForEvent(x) - DueForEvent(x)
      /\ NetOf(S)[y] = OwedForEvent(y) - DueForEvent(y)
  BY <1>1 DEF NetOf
<1>8. /\ NetOf(S)[f] = IF side = "Bid" THEN qty ELSE q - (IF debt THEN qty ELSE 0)
      /\ NetOf(S)[x] = IF side = "Bid" THEN quote_from_base(left, o.price)
                                       ELSE IF debt THEN 0 ELSE left
      /\ NetOf(S)[y] = OwedForOrder(side, o)
  <2> HIDE DEF q, debt
  <2>1. CASE side = "Bid"
    BY <1>2, <1>3, <1>5, <1>6, <1>7, <2>1 DEF q
  <2>2. CASE side # "Bid"
    BY <1>2, <1>5, <1>6, <1>7, <2>2 DEF q
  <2> QED BY <2>1, <2>2
<1>9. \A v : /\ DebtOf(v, S)[f] = IF o.info.owner = v /\ debt THEN qty ELSE 0
             /\ DebtOf(v, S)[x] = IF o.info.owner = v /\ debt THEN left ELSE 0
             /\ DebtOf(v, S)[y] = DebtIf(v, o)
             /\ DebtIf(v, r) = IF o.info.owner = v /\ debt THEN left ELSE 0
  BY <1>1, <1>4 DEF DebtOf, DebtIf
<1> QED BY <1>1, <1>3, <1>5, <1>8, <1>9 DEF S, f, x, y, r, left

\* A bid that is matched turns tokens into tickets, an ask tickets into tokens.
LEMMA OwedConserved ==
  /\ Conserves(OwedBid, NetOf(Event(Anyone["Bid"], "Bid")), -1, Anyone["Bid"], "Bid")
  /\ Conserves(OwedAsk, NetOf(Event(Anyone["Ask"], "Ask")), 1, Anyone["Ask"], "Ask")
<1>1. "Bid" \in Sides /\ "Ask" \in Sides /\ -1 \in Int /\ 1 \in Int
  BY DEF Sides
<1>2. ASSUME NEW o \in Order(Anyone["Bid"]), NEW qty \in 1 .. o.base
      PROVE  LET w == NetOf(Event(Anyone["Bid"], "Bid"))
                 gain == (-1) * (quote_from_base(qty, o.price) - qty)
                 fill == w[Fill("Bid", o, qty)]
             IN  /\ fill + w[Out("Bid", o, o.base - qty)] <= OwedBid[o] + gain
                 /\ o.base - qty # 0 =>
                      fill + OwedBid[[o EXCEPT !.base = o.base - qty]] <= OwedBid[o] + gain
  <2> DEFINE w == NetOf(Event(Anyone["Bid"], "Bid"))
             left == o.base - qty
             q == quote_from_base(qty, o.price)
             y == quote_from_base(left, o.price)
             z == quote_from_base(o.base, o.price)
  <2>1. /\ w[Fill("Bid", o, qty)] = qty /\ w[Out("Bid", o, left)] = y /\ OwedBid[o] = z
        /\ left # 0 => OwedBid[[o EXCEPT !.base = left]] = y
    BY <1>1, PartsOwed DEF OwedBid
  <2>2. o.base \in Nat \ {0} /\ o.price \in Nat \ {0} /\ left \in Nat /\ qty \in Nat /\ qty + left = o.base
    BY OrderParts
  <2>3. q \in Nat /\ y \in Nat /\ z \in Nat /\ q + y <= z
    <3> HIDE DEF left
    <3>1. quote_from_base(qty, o.price) + quote_from_base(left, o.price)
            <= quote_from_base(qty + left, o.price)
      BY <2>2, QuoteOfParts
    <3> QED BY <2>2, <3>1, QuoteNat
  <2> HIDE DEF w, q, y, z, left
  <2>4. qty + y <= z + (-1) * (q - qty)
    BY <2>2, <2>3
  <2> QED BY <2>1, <2>4 DEF w, q, left
<1>3. ASSUME NEW o \in Order(Anyone["Ask"]), NEW qty \in 1 .. o.base
      PROVE  LET w == NetOf(Event(Anyone["Ask"], "Ask"))
                 gain == 1 * (quote_from_base(qty, o.price) - qty)
                 fill == w[Fill("Ask", o, qty)]
             IN  /\ fill + w[Out("Ask", o, o.base - qty)] <= OwedAsk[o] + gain
                 /\ o.base - qty # 0 =>
                      fill + OwedAsk[[o EXCEPT !.base = o.base - qty]] <= OwedAsk[o] + gain
  <2> DEFINE w == NetOf(Event(Anyone["Ask"], "Ask"))
             left == o.base - qty
             q == quote_from_base(qty, o.price)
             debt == IsDebt(o.info)
  <2>1. /\ w[Fill("Ask", o, qty)] = q - (IF debt THEN qty ELSE 0)
        /\ w[Out("Ask", o, left)] = IF debt THEN 0 ELSE left
        /\ OwedAsk[o] = IF debt THEN 0 ELSE o.base
        /\ left # 0 => OwedAsk[[o EXCEPT !.base = left]] = IF debt THEN 0 ELSE left
    BY <1>1, PartsOwed DEF OwedAsk
  <2>2. o.base \in Nat \ {0} /\ o.price \in Nat \ {0} /\ left \in Nat /\ qty \in Nat /\ qty + left = o.base
    BY OrderParts
  <2>3. q \in Nat
    BY <2>2, QuoteNat
  <2> HIDE DEF w, q, left, debt
  <2>4. CASE debt
    <3>1. (q - qty) + 0 <= 0 + 1 * (q - qty)
      BY <2>2, <2>3
    <3> QED BY <2>1, <2>4, <3>1 DEF w, q, left
  <2>5. CASE ~debt
    <3>1. (q - 0) + left <= o.base + 1 * (q - qty)
      BY <2>2, <2>3
    <3> QED BY <2>1, <2>5, <3>1 DEF w, q, left
  <2> QED BY <2>4, <2>5
<1> QED BY <1>1, <1>2, <1>3, WeightsTyped DEF Conserves

\* The debt of a user in an ask stays with its parts.
LEMMA DebtConserved ==
  ASSUME NEW v
  PROVE  LET wo == DebtOf(v, Order(Anyone["Ask"]))
             we == DebtOf(v, Event(Anyone["Ask"], "Ask"))
         IN  /\ Conserves(wo, we, 0, Anyone["Ask"], "Ask")
             /\ Conserves([o \in Order(Anyone["Ask"]) |-> 0 - wo[o]],
                          [e \in Event(Anyone["Ask"], "Ask") |-> 0 - we[e]], 0, Anyone["Ask"], "Ask")
<1> DEFINE wo == DebtOf(v, Order(Anyone["Ask"]))
           we == DebtOf(v, Event(Anyone["Ask"], "Ask"))
           no == [o \in Order(Anyone["Ask"]) |-> 0 - wo[o]]
           ne == [e \in Event(Anyone["Ask"], "Ask") |-> 0 - we[e]]
<1>1. "Ask" \in Sides /\ 0 \in Int
  BY DEF Sides
<1>2. /\ wo \in [Order(Anyone["Ask"]) -> Int] /\ we \in [Event(Anyone["Ask"], "Ask") -> Int]
  BY <1>1, WeightsTyped
<1>3. no \in [Order(Anyone["Ask"]) -> Int] /\ ne \in [Event(Anyone["Ask"], "Ask") -> Int]
  BY <1>2
<1>4. ASSUME NEW o \in Order(Anyone["Ask"]), NEW qty \in 1 .. o.base
      PROVE  LET f == Fill("Ask", o, qty)
                 x == Out("Ask", o, o.base - qty)
                 r == [o EXCEPT !.base = o.base - qty]
             IN  /\ 0 * (quote_from_base(qty, o.price) - qty) = 0
                 /\ we[f] + we[x] = wo[o] /\ ne[f] + ne[x] = no[o]
                 /\ o.base - qty # 0 => we[f] + wo[r] = wo[o] /\ ne[f] + no[r] = no[o]
                 /\ wo[o] \in Int /\ no[o] \in Int
  <2> DEFINE f == Fill("Ask", o, qty)
             left == o.base - qty
             x == Out("Ask", o, left)
             r == [o EXCEPT !.base = left]
             own == o.info.owner = v /\ IsDebt(o.info)
  <2>1. /\ f \in Event(Anyone["Ask"], "Ask") /\ x \in Event(Anyone["Ask"], "Ask")
        /\ left # 0 => r \in Order(Anyone["Ask"])
        /\ we[f] = (IF own THEN qty ELSE 0) /\ we[x] = (IF own THEN left ELSE 0)
        /\ DebtIf(v, r) = IF own THEN left ELSE 0
    <3>1. /\ f \in Event(Anyone["Ask"], "Ask") /\ x \in Event(Anyone["Ask"], "Ask")
          /\ left # 0 => r \in Order(Anyone["Ask"])
      BY PartsType
    <3>2. /\ f.info = o.info /\ f.base = qty /\ x.info = o.info /\ x.base = left
          /\ r.info = o.info /\ r.base = left
      BY DEF Fill, Out, Order
    <3> HIDE DEF f, x, r, left
    <3> QED BY <3>1, <3>2 DEF DebtOf, DebtIf
  <2>2. wo[o] = (IF own THEN o.base ELSE 0) /\ (left # 0 => wo[r] = IF own THEN left ELSE 0)
    BY <2>1 DEF DebtOf, DebtIf
  <2>3. /\ ne[f] = 0 - we[f] /\ ne[x] = 0 - we[x] /\ no[o] = 0 - wo[o]
        /\ left # 0 => no[r] = 0 - wo[r]
    BY <2>1
  <2>4. o.base \in Nat \ {0} /\ o.price \in Nat \ {0} /\ left \in Nat /\ qty \in Nat /\ qty + left = o.base
    BY OrderParts
  <2>5. quote_from_base(qty, o.price) \in Nat
    BY <2>4, QuoteNat
  <2>6. 0 * (quote_from_base(qty, o.price) - qty) = 0
    BY <2>4, <2>5
  <2> HIDE DEF f, x, r, left, own, wo, we, no, ne
  <2>7. /\ we[f] + we[x] = wo[o] /\ ne[f] + ne[x] = no[o]
        /\ left # 0 => we[f] + wo[r] = wo[o] /\ ne[f] + no[r] = no[o]
        /\ wo[o] \in Int /\ no[o] \in Int
    <3>1. CASE own
      BY <2>1, <2>2, <2>3, <2>4, <3>1
    <3>2. CASE ~own
      BY <2>1, <2>2, <2>3, <2>4, <3>2
    <3> QED BY <3>1, <3>2
  <2> QED BY <2>6, <2>7 DEF f, x, r, left
<1> HIDE DEF wo, we, no, ne
<1>5. Conserves(wo, we, 0, Anyone["Ask"], "Ask") /\ Conserves(no, ne, 0, Anyone["Ask"], "Ask")
  BY <1>2, <1>3, <1>4 DEF Conserves
<1> QED BY <1>5 DEF wo, we, no, ne


-----------------------------------------------------------------------------
(* What the handlers do to a market                                        *)

\* What is owed and the debt in a market are numbers.
LEMMA MarketSums ==
  ASSUME NEW b, NEW q, Market(b, q, MarginUsers)
  PROVE  /\ Weight(OwedBid, b["Bid"]) \in Int /\ Weight(OwedAsk, b["Ask"]) \in Int
         /\ Weight(NetOf(Events(MarginUsers)), q) \in Int /\ Owed(b, q) \in Int
         /\ \A v : /\ Weight(DebtOf(v, Order(Anyone["Ask"])), b["Ask"]) \in Int
                   /\ Weight(DebtOf(v, Events(MarginUsers)), q) \in Int
                   /\ Debt(v, b, q) \in Int
<1>1. /\ b["Bid"] \in Seq(Order(Anyone["Bid"])) /\ b["Ask"] \in Seq(Order(Anyone["Ask"]))
      /\ q \in Seq(Events(MarginUsers))
  BY DEF Market, IsBook, Sides, Anyone
<1>2. Weight(OwedBid, b["Bid"]) \in Int /\ Weight(OwedAsk, b["Ask"]) \in Int
      /\ Weight(NetOf(Events(MarginUsers)), q) \in Int
  BY <1>1, WeightsTyped, WeightType
<1>3. \A v : /\ Weight(DebtOf(v, Order(Anyone["Ask"])), b["Ask"]) \in Int
             /\ Weight(DebtOf(v, Events(MarginUsers)), q) \in Int
  BY <1>1, WeightsTyped, WeightType
<1> QED BY <1>2, <1>3 DEF Owed, Debt

\* w and z are the same on S
Alike(w, z, S) == \A x \in S : w[x] = z[x]

\* Events of one side join the queue.
LEMMA EventsJoin ==
  ASSUME NEW q \in Seq(Events(MarginUsers)), NEW side \in Sides,
         NEW es \in Seq(Event(Anyone[side], side))
  PROVE  /\ Weight(NetOf(Events(MarginUsers)), q \o es)
              = Weight(NetOf(Events(MarginUsers)), q) + Weight(NetOf(Event(Anyone[side], side)), es)
         /\ Weight(NetOf(Event(Anyone[side], side)), es) \in Int
         /\ \A v : /\ Weight(DebtOf(v, Events(MarginUsers)), q \o es)
                        = Weight(DebtOf(v, Events(MarginUsers)), q)
                            + Weight(DebtOf(v, Event(Anyone[side], side)), es)
                   /\ Weight(DebtOf(v, Event(Anyone[side], side)), es) \in Int
<1> DEFINE S == Event(Anyone[side], side)
           T == Events(MarginUsers)
<1>1. S \subseteq T
  BY WeightsTyped
<1>2. ASSUME NEW w \in [S -> Int], NEW z \in [T -> Int], Alike(w, z, S)
      PROVE  Weight(z, q \o es) = Weight(z, q) + Weight(w, es) /\ Weight(w, es) \in Int
  <2> HIDE DEF S, T
  <2>1. q \in Seq(T) /\ es \in Seq(S)
    BY DEF S, T
  <2>2. es \in Seq(T) /\ Weight(w, es) = Weight(z, es)
    <3>1. es \in Seq(T)
      BY <1>1, <2>1, SeqMore
    <3>2. [i \in DOMAIN es |-> w[es[i]]] = [i \in DOMAIN es |-> z[es[i]]]
      BY <1>2, <2>1 DEF Alike
    <3> QED BY <3>1, <3>2 DEF Weight
  <2>3. Weight(z, q \o es) = Weight(z, q) + Weight(z, es)
    BY <1>2, <2>1, <2>2, WeightConcat
  <2>4. Weight(w, es) \in Int
    BY <1>2, <2>1, WeightType
  <2> QED BY <2>2, <2>3, <2>4
<1>3. /\ NetOf(S) \in [S -> Int] /\ NetOf(T) \in [T -> Int]
      /\ \A v : DebtOf(v, S) \in [S -> Int] /\ DebtOf(v, T) \in [T -> Int]
  BY WeightsTyped
<1>4. Alike(NetOf(S), NetOf(T), S) /\ \A v : Alike(DebtOf(v, S), DebtOf(v, T), S)
  BY <1>1 DEF NetOf, DebtOf, Alike
<1> HIDE DEF S, T
<1>5. /\ Weight(NetOf(T), q \o es) = Weight(NetOf(T), q) + Weight(NetOf(S), es)
      /\ Weight(NetOf(S), es) \in Int
  BY <1>2, <1>3, <1>4
<1>6. ASSUME NEW v
      PROVE  /\ Weight(DebtOf(v, T), q \o es) = Weight(DebtOf(v, T), q) + Weight(DebtOf(v, S), es)
             /\ Weight(DebtOf(v, S), es) \in Int
  BY <1>2, <1>3, <1>4
<1> QED BY <1>5, <1>6 DEF S, T

\* The quantities of a new order
Summary(s, p) ==
  /\ base_filled(s) \in Nat /\ quote_filled(s) \in Nat /\ s.base_posted \in Nat /\ quote_posted(s) \in Nat
  /\ s.total_base = base_filled(s) + s.base_posted
  /\ s.total_quote = quote_filled(s) + quote_posted(s)
  /\ s.total_quote <= p.max_underlying_token_qty

\* A new order leaves a market with more events.
LEMMA OrderPlaced ==
  ASSUME NEW D, D \subseteq MarginUsers, NEW b, NEW q, Market(b, q, D),
         NEW side \in Sides, NEW p \in ValidOrders, NEW info \in Infos(D)[side], NEW id \in Nat
  PROVE  LET s == new_order(b, side, p, info, id)
         IN  /\ Market(s.book, q \o s.events, D) /\ Summary(s, p)
             /\ Leaves(s, b, Anyone, side, p, info, id)
<1> DEFINE s == new_order(b, side, p, info, id)
           opp == Opposite(side)
<1>1. IsBook(b, Infos(D)) /\ q \in Seq(Events(D))
  BY DEF Market
<1>2. Leaves(s, b, Infos(D), side, p, info, id)
  BY <1>1, NewOrder
<1>3. Leaves(s, b, Anyone, side, p, info, id)
  <2>1. IsBook(b, Infos(MarginUsers))
    BY MoreMarket DEF Market
  <2>2. info \in Infos(MarginUsers)[side]
    BY MoreInfos
  <2> QED BY <2>1, <2>2, NewOrder DEF Anyone
<1> HIDE DEF s
<1>4. /\ IsBook(s.book, Infos(D)) /\ s.events \in Seq(Event(Infos(D)[opp], opp))
      /\ s.total_base \in Nat /\ s.total_quote \in Nat /\ s.base_posted \in Nat
      /\ base_filled(s) \in Nat /\ quote_filled(s) \in Nat /\ quote_posted(s) \in Nat
      /\ s.total_quote <= p.max_underlying_token_qty
  BY <1>2 DEF Leaves
<1>5. Summary(s, p)
  <2>1. s.total_base = base_filled(s) + s.base_posted
    BY <1>4 DEF base_filled
  <2>2. s.total_quote = quote_filled(s) + quote_posted(s)
    BY <1>4 DEF quote_filled
  <2> QED BY <1>4, <2>1, <2>2 DEF Summary
<1>6. q \o s.events \in Seq(Events(D))
  <2>1. Event(Infos(D)[opp], opp) \subseteq Events(D)
    BY DEF Events, Opposite, Sides
  <2>2. s.events \in Seq(Events(D))
    BY <1>4, <2>1, SeqMore
  <2> QED BY <1>1, <2>2
<1>7. Market(s.book, q \o s.events, D)
  BY <1>4, <1>6 DEF Market
<1> QED BY <1>3, <1>5, <1>7 DEF s


\* What is owed and every user's debt after an ask: its tickets turn into the tokens
\* of the bids it matched, and what is posted is owed or the borrower's debt.
LEMMA AskPlaced ==
  ASSUME NEW D, D \subseteq MarginUsers, NEW b, NEW q, Market(b, q, D),
         NEW p \in ValidOrders, NEW info \in Infos(D)["Ask"], NEW id \in Nat
  PROVE  LET s == new_order(b, "Ask", p, info, id)
         IN  /\ Owed(s.book, q \o s.events)
                  <= Owed(b, q) + base_filled(s) - quote_filled(s)
                       + (IF IsDebt(info) THEN 0 ELSE s.base_posted)
             /\ \A v : Debt(v, s.book, q \o s.events)
                         = Debt(v, b, q) + (IF info.owner = v /\ IsDebt(info) THEN s.base_posted ELSE 0)
<1> DEFINE s == new_order(b, "Ask", p, info, id)
           o == Posted(s, p, info, id)
           S == Event(Anyone["Bid"], "Bid")
           T == Order(Anyone["Ask"])
<1>0. "Ask" \in Sides /\ "Bid" \in Sides /\ Opposite("Ask") = "Bid"
  BY DEF Sides, Opposite
<1>1. /\ Market(s.book, q \o s.events, D) /\ Summary(s, p)
      /\ Leaves(s, b, Anyone, "Ask", p, info, id)
  BY <1>0, OrderPlaced
<1>2. Market(b, q, MarginUsers) /\ Market(s.book, q \o s.events, MarginUsers)
  BY <1>1, MoreMarket
<1> HIDE DEF s
<1>3. base_filled(s) \in Nat /\ quote_filled(s) \in Nat /\ s.base_posted \in Nat
  BY <1>1 DEF Summary
<1>4. /\ s.events \in Seq(S)
      /\ s.base_posted > 0 => o \in T
      /\ \A w \in [T -> Int] : Weight(w, s.book["Ask"]) = Weight(w, b["Ask"]) + (IF s.base_posted > 0 THEN w[o] ELSE 0)
      /\ \A wo, we, c : Conserves(wo, we, c, Anyone["Bid"], "Bid") =>
           Weight(wo, s.book["Bid"]) + Weight(we, s.events)
             <= Weight(wo, b["Bid"]) + c * (quote_filled(s) - base_filled(s))
  BY <1>0, <1>1 DEF Leaves
<1>5. q \in Seq(Events(MarginUsers))
  BY <1>2 DEF Market
<1>6. o.info = info /\ o.base = s.base_posted
  BY DEF Posted
<1> HIDE DEF o, S, T
<1>7. Owed(s.book, q \o s.events)
        <= Owed(b, q) + base_filled(s) - quote_filled(s) + (IF IsDebt(info) THEN 0 ELSE s.base_posted)
  <2>1. Weight(OwedBid, s.book["Bid"]) + Weight(NetOf(S), s.events)
          <= Weight(OwedBid, b["Bid"]) + (-1) * (quote_filled(s) - base_filled(s))
    BY <1>4, OwedConserved DEF S
  <2>2. Weight(OwedAsk, s.book["Ask"])
          = Weight(OwedAsk, b["Ask"]) + (IF IsDebt(info) THEN 0 ELSE s.base_posted)
    <3>1. OwedAsk \in [T -> Int]
      BY WeightsTyped DEF T
    <3>2. o \in T => OwedAsk[o] = IF IsDebt(info) THEN 0 ELSE s.base_posted
      BY <1>6 DEF T, OwedAsk, OwedForOrder
    <3>3. Weight(OwedAsk, b["Ask"]) \in Int
      BY <1>2, MarketSums
    <3> QED BY <1>3, <1>4, <3>1, <3>2, <3>3
  <2>3. /\ Weight(NetOf(Events(MarginUsers)), q \o s.events)
             = Weight(NetOf(Events(MarginUsers)), q) + Weight(NetOf(S), s.events)
        /\ Weight(NetOf(S), s.events) \in Int
    BY <1>0, <1>4, <1>5, EventsJoin DEF S
  <2>4. /\ Weight(OwedBid, b["Bid"]) \in Int /\ Weight(OwedBid, s.book["Bid"]) \in Int
        /\ Weight(OwedAsk, b["Ask"]) \in Int
        /\ Weight(NetOf(Events(MarginUsers)), q) \in Int
    BY <1>2, MarketSums
  <2> QED BY <1>3, <2>1, <2>2, <2>3, <2>4 DEF Owed
<1>8. ASSUME NEW v
      PROVE  Debt(v, s.book, q \o s.events)
               = Debt(v, b, q) + (IF info.owner = v /\ IsDebt(info) THEN s.base_posted ELSE 0)
  <2>1. Weight(DebtOf(v, T), s.book["Ask"])
          = Weight(DebtOf(v, T), b["Ask"]) + (IF info.owner = v /\ IsDebt(info) THEN s.base_posted ELSE 0)
    <3>1. DebtOf(v, T) \in [T -> Int]
      BY WeightsTyped DEF T
    <3>2. o \in T => DebtOf(v, T)[o] = IF info.owner = v /\ IsDebt(info) THEN s.base_posted ELSE 0
      BY <1>6 DEF DebtOf, DebtIf
    <3>3. Weight(DebtOf(v, T), b["Ask"]) \in Int
      BY <1>2, MarketSums DEF T
    <3> QED BY <1>3, <1>4, <3>1, <3>2, <3>3
  <2>2. Weight(DebtOf(v, S), s.events) = 0
    <3>1. DebtOf(v, S) \in [S -> Int]
      BY <1>0, WeightsTyped DEF S
    <3>2. ASSUME NEW e \in S PROVE DebtOf(v, S)[e] = 0
      <4>1. e.info \in Anyone["Bid"]
        BY <3>2, EventParts DEF S
      <4>2. ~IsDebt(e.info)
        BY <4>1, <1>0 DEF Anyone, Infos, IsDebt
      <4> QED BY <3>2, <4>2 DEF DebtOf, DebtIf
    <3> QED BY <1>4, <3>1, <3>2, WeightZero
  <2>3. Weight(DebtOf(v, Events(MarginUsers)), q \o s.events)
          = Weight(DebtOf(v, Events(MarginUsers)), q) + Weight(DebtOf(v, S), s.events)
    BY <1>0, <1>4, <1>5, EventsJoin DEF S
  <2>4. /\ Weight(DebtOf(v, T), b["Ask"]) \in Int
        /\ Weight(DebtOf(v, Events(MarginUsers)), q) \in Int
    BY <1>2, MarketSums DEF T
  <2> QED BY <1>3, <2>1, <2>2, <2>3, <2>4 DEF Debt, T
<1> QED BY <1>7, <1>8 DEF s

\* The same after a bid: its tokens turn into the tickets of the asks it matched.
LEMMA BidPlaced ==
  ASSUME NEW D, D \subseteq MarginUsers, NEW b, NEW q, Market(b, q, D),
         NEW p \in ValidOrders, NEW info \in Infos(D)["Bid"], NEW id \in Nat
  PROVE  LET s == new_order(b, "Bid", p, info, id)
         IN  /\ Owed(s.book, q \o s.events) <= Owed(b, q) + s.total_quote - base_filled(s)
             /\ \A v : Debt(v, s.book, q \o s.events) = Debt(v, b, q)
<1> DEFINE s == new_order(b, "Bid", p, info, id)
           o == Posted(s, p, info, id)
           S == Event(Anyone["Ask"], "Ask")
           T == Order(Anyone["Ask"])
           U == Order(Anyone["Bid"])
<1>0. "Ask" \in Sides /\ "Bid" \in Sides /\ Opposite("Bid") = "Ask"
  BY DEF Sides, Opposite
<1>1. /\ Market(s.book, q \o s.events, D) /\ Summary(s, p)
      /\ Leaves(s, b, Anyone, "Bid", p, info, id)
  BY <1>0, OrderPlaced
<1>2. Market(b, q, MarginUsers) /\ Market(s.book, q \o s.events, MarginUsers)
  BY <1>1, MoreMarket
<1> HIDE DEF s
<1>3. /\ base_filled(s) \in Nat /\ quote_filled(s) \in Nat /\ s.base_posted \in Nat
      /\ quote_posted(s) \in Nat /\ s.total_quote = quote_filled(s) + quote_posted(s)
  BY <1>1 DEF Summary
<1>4. /\ s.events \in Seq(S)
      /\ s.base_posted > 0 => o \in U
      /\ \A w \in [U -> Int] : Weight(w, s.book["Bid"]) = Weight(w, b["Bid"]) + (IF s.base_posted > 0 THEN w[o] ELSE 0)
      /\ \A wo, we, c : Conserves(wo, we, c, Anyone["Ask"], "Ask") =>
           Weight(wo, s.book["Ask"]) + Weight(we, s.events)
             <= Weight(wo, b["Ask"]) + c * (quote_filled(s) - base_filled(s))
  BY <1>0, <1>1 DEF Leaves
<1>5. q \in Seq(Events(MarginUsers))
  BY <1>2 DEF Market
<1>6. quote_from_base(o.base, o.price) = quote_posted(s)
  BY <1>1 DEF Posted, Leaves, quote_posted
<1> HIDE DEF o, S, T, U
<1>7. Owed(s.book, q \o s.events) <= Owed(b, q) + s.total_quote - base_filled(s)
  <2>1. Weight(OwedAsk, s.book["Ask"]) + Weight(NetOf(S), s.events)
          <= Weight(OwedAsk, b["Ask"]) + 1 * (quote_filled(s) - base_filled(s))
    BY <1>4, OwedConserved DEF S
  <2>2. Weight(OwedBid, s.book["Bid"]) <= Weight(OwedBid, b["Bid"]) + quote_posted(s)
    <3>1. OwedBid \in [U -> Int]
      BY WeightsTyped DEF U
    <3>2. o \in U => OwedBid[o] = quote_posted(s)
      BY <1>6 DEF U, OwedBid, OwedForOrder
    <3>3. Weight(OwedBid, b["Bid"]) \in Int
      BY <1>2, MarketSums
    <3> QED BY <1>3, <1>4, <3>1, <3>2, <3>3
  <2>3. /\ Weight(NetOf(Events(MarginUsers)), q \o s.events)
             = Weight(NetOf(Events(MarginUsers)), q) + Weight(NetOf(S), s.events)
        /\ Weight(NetOf(S), s.events) \in Int
    BY <1>0, <1>4, <1>5, EventsJoin DEF S
  <2>4. /\ Weight(OwedBid, b["Bid"]) \in Int /\ Weight(OwedBid, s.book["Bid"]) \in Int
        /\ Weight(OwedAsk, b["Ask"]) \in Int /\ Weight(OwedAsk, s.book["Ask"]) \in Int
        /\ Weight(NetOf(Events(MarginUsers)), q) \in Int
    BY <1>2, MarketSums
  <2> QED BY <1>3, <2>1, <2>2, <2>3, <2>4 DEF Owed
<1>8. ASSUME NEW v
      PROVE  Debt(v, s.book, q \o s.events) = Debt(v, b, q)
  <2> DEFINE wo == DebtOf(v, T)
             we == DebtOf(v, S)
             no == Minus(wo, T)
             ne == Minus(we, S)
  <2>1. Conserves(wo, we, 0, Anyone["Ask"], "Ask") /\ Conserves(no, ne, 0, Anyone["Ask"], "Ask")
    BY DebtConserved DEF S, T, Minus
  <2>2. /\ wo \in [T -> Int] /\ we \in [S -> Int]
    BY <1>0, WeightsTyped DEF S, T

  <2>5. b["Ask"] \in Seq(T) /\ s.book["Ask"] \in Seq(T)
    BY <1>0, <1>2 DEF Market, IsBook, Anyone, T
  <2> HIDE DEF wo, we
  <2>6. /\ Weight(no, b["Ask"]) = 0 - Weight(wo, b["Ask"])
        /\ Weight(no, s.book["Ask"]) = 0 - Weight(wo, s.book["Ask"])
        /\ Weight(ne, s.events) = 0 - Weight(we, s.events)
    BY <1>4, <2>2, <2>5, WeightNegative
  <2> HIDE DEF no, ne
  <2>7. /\ Weight(wo, s.book["Ask"]) + Weight(we, s.events)
             <= Weight(wo, b["Ask"]) + 0 * (quote_filled(s) - base_filled(s))
        /\ Weight(no, s.book["Ask"]) + Weight(ne, s.events)
             <= Weight(no, b["Ask"]) + 0 * (quote_filled(s) - base_filled(s))
    BY <1>4, <2>1
  <2>8. /\ Weight(wo, b["Ask"]) \in Int /\ Weight(wo, s.book["Ask"]) \in Int
        /\ Weight(DebtOf(v, Events(MarginUsers)), q) \in Int
    BY <1>2, MarketSums DEF wo, T
  <2>9. /\ Weight(DebtOf(v, Events(MarginUsers)), q \o s.events)
             = Weight(DebtOf(v, Events(MarginUsers)), q) + Weight(we, s.events)
        /\ Weight(we, s.events) \in Int
    BY <1>0, <1>4, <1>5, EventsJoin DEF S, we
  <2>10. Weight(wo, s.book["Ask"]) + Weight(we, s.events) = Weight(wo, b["Ask"])
    BY <1>3, <2>6, <2>7, <2>8, <2>9
  <2> QED BY <2>8, <2>9, <2>10 DEF Debt, wo, T
<1> QED BY <1>7, <1>8 DEF s

\* e is taken from the queue q and r is left.
Pops(b, q, e, r, D) ==
  /\ e \in Events(D) /\ Market(b, r, D) /\ Len(r) = Len(q) - 1
  /\ Owed(b, r) = Owed(b, q) - (OwedForEvent(e) - DueForEvent(e))
  /\ OwedForEvent(e) - DueForEvent(e) \in Int
  /\ \A v : Debt(v, b, r) = Debt(v, b, q) - DebtIf(v, e) /\ DebtIf(v, e) \in Nat

\* An event leaves the queue.
LEMMA EventPopped ==
  ASSUME NEW D, D \subseteq MarginUsers, NEW b, NEW q, Market(b, q, D), q # <<>>
  PROVE  Pops(b, q, next_event(q), pop_events(q), D)
<1> DEFINE e == next_event(q)
           r == pop_events(q)
           T == Events(MarginUsers)
<1>1. q \in Seq(Events(D)) /\ IsBook(b, Infos(D))
  BY DEF Market
<1>2. Market(b, q, MarginUsers)
  BY MoreMarket
<1>3. q \in Seq(T)
  BY <1>2 DEF Market
<1>4. e \in Events(D) /\ r \in Seq(Events(D)) /\ Len(r) = Len(q) - 1
  BY <1>1 DEF next_event, pop_events
<1>5. /\ NetOf(T) \in [T -> Int] /\ \A v : DebtOf(v, T) \in [T -> Int]
  BY WeightsTyped
<1>6. e = Head(q) /\ r = Tail(q)
  BY DEF next_event, pop_events
<1> HIDE DEF e, r, T
<1>7. e \in T /\ Weight(NetOf(T), r) = Weight(NetOf(T), q) - NetOf(T)[e]
  BY <1>3, <1>5, <1>6, WeightTail
<1>8. \A v : Weight(DebtOf(v, T), r) = Weight(DebtOf(v, T), q) - DebtOf(v, T)[e]
  BY <1>3, <1>5, <1>6, WeightTail
<1>9. NetOf(T)[e] = OwedForEvent(e) - DueForEvent(e) /\ NetOf(T)[e] \in Int
  BY <1>5, <1>7 DEF NetOf
<1>10. \A v : DebtOf(v, T)[e] = DebtIf(v, e)
  BY <1>7 DEF DebtOf
<1>11. e.base \in Nat
  BY <1>7, EventParts DEF T, Events
<1>12. \A v : DebtIf(v, e) \in Nat
  BY <1>11 DEF DebtIf
<1>13. /\ Weight(OwedBid, b["Bid"]) \in Int /\ Weight(OwedAsk, b["Ask"]) \in Int
       /\ Weight(NetOf(T), q) \in Int
       /\ \A v : /\ Weight(DebtOf(v, Order(Anyone["Ask"])), b["Ask"]) \in Int
                 /\ Weight(DebtOf(v, T), q) \in Int
  BY <1>2, MarketSums DEF T
<1>14. Owed(b, r) = Owed(b, q) - (OwedForEvent(e) - DueForEvent(e))
  BY <1>7, <1>9, <1>13 DEF Owed, T
<1>15. ASSUME NEW v PROVE Debt(v, b, r) = Debt(v, b, q) - DebtIf(v, e)
  <2>1. /\ Weight(DebtOf(v, T), r) = Weight(DebtOf(v, T), q) - DebtIf(v, e)
        /\ Weight(DebtOf(v, T), q) \in Int /\ DebtIf(v, e) \in Int
        /\ Weight(DebtOf(v, Order(Anyone["Ask"])), b["Ask"]) \in Int
    BY <1>8, <1>10, <1>12, <1>13
  <2> QED BY <2>1 DEF Debt, T
<1>16. Market(b, r, D)
  BY <1>1, <1>4 DEF Market
<1>17. Pops(b, q, e, r, D)
  BY <1>4, <1>9, <1>12, <1>14, <1>15, <1>16 DEF Pops
<1> QED BY <1>17 DEF e, r

BookWithout(b, side, i) ==
  [b EXCEPT ![side] = SubSeq(@, 1, i - 1) \o SubSeq(@, i + 1, Len(@))]

IsOrder(b, side, i) == i \in DOMAIN b[side]

WithOut(b, q, side, i) == q \o <<Out(side, b[side][i], b[side][i].base)>>

Cancels(b, q, c, r, D) ==
  /\ Market(c, r, D) /\ Len(r) = Len(q) + 1
  /\ Owed(c, r) = Owed(b, q)
  /\ \A v : Debt(v, c, r) = Debt(v, b, q)

\* An order leaves the book with an event: what is owed for it and its debt stay.
LEMMA OrderCancelled ==
  ASSUME NEW D, D \subseteq MarginUsers, NEW b, NEW q, Market(b, q, D),
         NEW side \in Sides, NEW i, IsOrder(b, side, i)
  PROVE  Cancels(b, q, BookWithout(b, side, i), WithOut(b, q, side, i), D)
<1> DEFINE o == b[side][i]
           x == Out(side, o, o.base)
           s == b[side]
           t == SubSeq(s, 1, i - 1) \o SubSeq(s, i + 1, Len(s))
           c == [b EXCEPT ![side] = t]
           r == q \o <<x>>
           T == Events(MarginUsers)
<1>1. q \in Seq(Events(D)) /\ IsBook(b, Infos(D)) /\ s \in Seq(Order(Infos(D)[side]))
  BY DEF Market, IsBook
<1>2. Market(b, q, MarginUsers)
  BY MoreMarket
<1>3. q \in Seq(T) /\ s \in Seq(Order(Anyone[side]))
  BY <1>2 DEF Market, IsBook, Anyone
<1>4. i \in 1 .. Len(s)
  BY <1>1 DEF IsOrder
<1>5. o = s[i]
  OBVIOUS
<1>6. ASSUME NEW w, NEW S, s \in Seq(S), w \in [S -> Int]
      PROVE  t \in Seq(S) /\ Weight(w, t) = Weight(w, s) - w[o] /\ o \in S
  BY <1>4, <1>6, WeightWithout
<1>7. t \in Seq(Order(Infos(D)[side])) /\ o \in Order(Infos(D)[side])
  <2>1. [y \in Order(Infos(D)[side]) |-> 0] \in [Order(Infos(D)[side]) -> Int]
    OBVIOUS
  <2> QED BY <1>1, <1>6, <2>1
<1>8. o \in Order(Anyone[side])
  BY <1>3, <1>4
<1>10. o.base \in Nat \ {0} /\ 1 \in 1 .. o.base
  BY <1>7, OrderParts
<1>9. x \in Event(Infos(D)[side], side)
  <2> HIDE DEF o
  <2> QED BY <1>7, <1>10, PartsType
<1>11. x \in Events(D)
  BY <1>9 DEF Events, Sides
<1>12. x \in T
  <2>1. /\ Event(Infos(D)[side], side) \subseteq Event(Infos(MarginUsers)[side], side)
    BY MoreInfos
  <2> QED BY <1>9, <2>1 DEF T, Events, Sides
<1>13. /\ NetOf(T)[x] = OwedForOrder(side, o)
       /\ \A v : DebtOf(v, T)[x] = DebtIf(v, o)
  <2> HIDE DEF o
  <2>1. /\ x.tag = "Out" /\ x.side = side /\ x.info = o.info /\ x.base = o.base /\ x.price = o.price
    BY DEF Out
  <2> HIDE DEF x
  <2>2. DueForEvent(x) = 0 /\ OwedForEvent(x) = OwedForOrder(side, o)
    BY <2>1 DEF DueForEvent, OwedForEvent, OwedForOrder
  <2>3. OwedForOrder(side, o) \in Int
    <3>1. quote_from_base(o.base, o.price) \in Nat
      BY <1>8, OrderParts, QuoteNat
    <3> QED BY <1>10, <3>1 DEF OwedForOrder, Sides
  <2>4. \A v : DebtIf(v, x) = DebtIf(v, o)
    BY <2>1 DEF DebtIf
  <2> QED BY <1>12, <2>2, <2>3, <2>4 DEF NetOf, DebtOf
<1>14. c["Bid"] = (IF side = "Bid" THEN t ELSE b["Bid"]) /\ c["Ask"] = (IF side = "Ask" THEN t ELSE b["Ask"])
  BY <1>1 DEF IsBook, Sides
<1>15. Market(c, r, D)
  <2>1. IsBook(c, Infos(D))
    BY <1>1, <1>7 DEF IsBook
  <2> HIDE DEF x, c
  <2> QED BY <1>1, <1>11, <2>1 DEF Market
<1>16. Len(r) = Len(q) + 1
  BY <1>1
<1> HIDE DEF o, x, t, c
<1>23. NetOf(T) \in [T -> Int] /\ \A v : DebtOf(v, T) \in [T -> Int]
  BY WeightsTyped
<1> HIDE DEF T
<1>17. Weight(NetOf(T), r) = Weight(NetOf(T), q) + OwedForOrder(side, o)
  BY <1>3, <1>12, <1>13, <1>23, WeightAppend
<1>18. \A v : Weight(DebtOf(v, T), r) = Weight(DebtOf(v, T), q) + DebtIf(v, o)
  BY <1>3, <1>12, <1>13, <1>23, WeightAppend, SMTT(40)
<1> HIDE DEF r
<1>19. /\ Weight(OwedBid, b["Bid"]) \in Int /\ Weight(OwedAsk, b["Ask"]) \in Int
       /\ Weight(NetOf(T), q) \in Int
       /\ \A v : /\ Weight(DebtOf(v, Order(Anyone["Ask"])), b["Ask"]) \in Int
                 /\ Weight(DebtOf(v, T), q) \in Int
  BY <1>2, MarketSums DEF T
<1>20. /\ side = "Bid" => Weight(OwedBid, t) = Weight(OwedBid, b["Bid"]) - OwedForOrder(side, o)
       /\ side = "Ask" => Weight(OwedAsk, t) = Weight(OwedAsk, b["Ask"]) - OwedForOrder(side, o)
       /\ OwedForOrder(side, o) \in Int
  <2>1. CASE side = "Bid"
    <3>1. Weight(OwedBid, t) = Weight(OwedBid, b["Bid"]) - OwedBid[o] /\ OwedBid[o] \in Int
      BY <1>3, <1>6, <1>8, <2>1, WeightsTyped
    <3> QED BY <1>8, <2>1, <3>1 DEF OwedBid
  <2>2. CASE side = "Ask"
    <3>1. Weight(OwedAsk, t) = Weight(OwedAsk, b["Ask"]) - OwedAsk[o] /\ OwedAsk[o] \in Int
      BY <1>3, <1>6, <1>8, <2>2, WeightsTyped
    <3> QED BY <1>8, <2>2, <3>1 DEF OwedAsk
  <2> QED BY <2>1, <2>2 DEF Sides
<1>21. Owed(c, r) = Owed(b, q)
  <2>1. CASE side = "Bid"
    BY <2>1, <1>14, <1>17, <1>19, <1>20 DEF Owed, T
  <2>2. CASE side = "Ask"
    BY <2>2, <1>14, <1>17, <1>19, <1>20 DEF Owed, T
  <2> QED BY <2>1, <2>2 DEF Sides
<1>22. ASSUME NEW v PROVE Debt(v, c, r) = Debt(v, b, q)
  <2> DEFINE w == DebtOf(v, Order(Anyone["Ask"]))
  <2>1. CASE side = "Bid"
    <3>1. DebtIf(v, o) = 0
      BY <1>8, <2>1, OrderParts DEF DebtIf, Anyone, Infos, IsDebt, Sides
    <3> QED BY <2>1, <3>1, <1>14, <1>18, <1>19 DEF Debt, T
  <2>2. CASE side = "Ask"
    <3>1. w \in [Order(Anyone["Ask"]) -> Int]
      BY WeightsTyped
    <3>2. w[o] = DebtIf(v, o) /\ DebtIf(v, o) \in Int
      BY <1>8, <1>10, <2>2 DEF DebtOf, DebtIf
    <3> HIDE DEF w
    <3>3. Weight(w, t) = Weight(w, b["Ask"]) - w[o]
      BY <1>3, <1>6, <2>2, <3>1
    <3> QED BY <2>2, <3>2, <3>3, <1>14, <1>18, <1>19 DEF Debt, T, w
  <2> QED BY <2>1, <2>2 DEF Sides
<1>24. Cancels(b, q, c, r, D)
  BY <1>15, <1>16, <1>21, <1>22 DEF Cancels
<1> QED BY <1>24 DEF o, x, t, c, r, BookWithout, WithOut


-----------------------------------------------------------------------------
(* Deposits, entitlements and notes *)

TermDeposits ==
  [owner : Holders, sequence_number : Nat, amount : Nat \ {0}, matures_at : Nat, flags : SUBSET Flags]

DepositMap(ds) == IsFiniteSet(DOMAIN ds) /\ ds \in [DOMAIN ds -> TermDeposits]

AmountsOf(ds) == [k \in DOMAIN ds |-> ds[k].amount]

Deposited(ds) == Total(AmountsOf(ds))

\* The amounts of deposits can be summed up.
LEMMA DepositSums ==
  ASSUME NEW ds, DepositMap(ds)
  PROVE  /\ Deposited(ds) = SumOver(AmountsOf(ds), DOMAIN ds) /\ Deposited(ds) \in Nat
         /\ \A k \in DOMAIN ds : AmountsOf(ds)[k] = ds[k].amount /\ ds[k].amount \in Nat \ {0}
<1>1. \A k \in DOMAIN ds : AmountsOf(ds)[k] = ds[k].amount /\ ds[k].amount \in Nat \ {0}
  BY DEF DepositMap, TermDeposits, AmountsOf
<1>2. Deposited(ds) = SumOver(AmountsOf(ds), DOMAIN ds)
  BY DEF Deposited, Total, AmountsOf
<1>3. Deposited(ds) \in Nat
  <2>1. \A k \in DOMAIN ds : AmountsOf(ds)[k] \in Nat
    BY <1>1
  <2> QED BY <1>2, <2>1, SumNat DEF DepositMap
<1> QED BY <1>1, <1>2, <1>3

\* An account is opened, or overwritten.
LEMMA DepositPut ==
  ASSUME NEW ds, DepositMap(ds), NEW k, NEW d \in TermDeposits
  PROVE  DepositMap(Put(ds, k, d)) /\ Deposited(Put(ds, k, d)) <= Deposited(ds) + d.amount
<1> DEFINE dt == Put(ds, k, d)
           f == AmountsOf(ds)
           g == AmountsOf(dt)
           S == DOMAIN ds \ {k}
<1>1. DOMAIN dt = DOMAIN ds \cup {k} /\ dt[k] = d /\ \A j \in S : dt[j] = ds[j]
  BY DEF Put
<1>2. IsFiniteSet(DOMAIN ds) /\ IsFiniteSet(S) /\ IsFiniteSet(DOMAIN dt)
  BY <1>1, FS_AddElement, FS_RemoveElement DEF DepositMap
<1>3. DepositMap(dt)
  <2>1. \A j \in DOMAIN dt : dt[j] \in TermDeposits
    BY <1>1 DEF DepositMap
  <2>2. dt = [j \in DOMAIN dt |-> dt[j]]
    BY DEF Put
  <2> QED BY <1>2, <2>1, <2>2 DEF DepositMap
<1>4. /\ \A j \in DOMAIN ds : f[j] \in Nat
      /\ Deposited(ds) = SumOver(f, DOMAIN ds) /\ Deposited(ds) \in Nat
  BY DepositSums
<1>5. /\ \A j \in DOMAIN dt : g[j] \in Nat
      /\ Deposited(dt) = SumOver(g, DOMAIN dt) /\ Deposited(dt) \in Nat
  BY <1>3, DepositSums
<1>6. g[k] = d.amount /\ \A j \in S : g[j] = f[j]
  BY <1>1 DEF AmountsOf
<1> HIDE DEF dt, f, g
<1>7. SumOver(g, S \cup {k}) = SumOver(g, S) + g[k]
  <2>1. \A j \in S \cup {k} : g[j] \in Int
    BY <1>1, <1>5
  <2> QED BY <1>2, <2>1, SumAdd
<1>8. SumOver(g, S) = SumOver(f, S)
  BY <1>2, <1>6, SumSame
<1>9. SumOver(f, S) <= SumOver(f, DOMAIN ds) /\ SumOver(f, S) \in Nat
  <2>1. /\ S \subseteq DOMAIN ds /\ \A j \in S : f[j] \in Int /\ f[j] <= f[j]
        /\ \A j \in DOMAIN ds : f[j] \in Int
        /\ \A j \in DOMAIN ds \ S : 0 <= f[j]
    BY <1>4
  <2>2. \A j \in S : f[j] \in Nat
    BY <1>4
  <2> QED BY <1>2, <2>1, <2>2, SumMonotone, SumNat
<1>10. DOMAIN dt = S \cup {k}
  BY <1>1
<1>11. d.amount \in Nat
  BY DEF TermDeposits
<1>12. Deposited(dt) <= Deposited(ds) + d.amount
  BY <1>4, <1>5, <1>6, <1>7, <1>8, <1>9, <1>10, <1>11
<1> QED BY <1>3, <1>12 DEF dt

\* An account is closed.
LEMMA DepositDrop ==
  ASSUME NEW ds, DepositMap(ds), NEW k \in DOMAIN ds
  PROVE  /\ DepositMap(Drop(ds, k)) /\ Deposited(Drop(ds, k)) = Deposited(ds) - ds[k].amount
         /\ ds[k] \in TermDeposits
<1> DEFINE dt == Drop(ds, k)
           f == AmountsOf(ds)
           g == AmountsOf(dt)
           S == DOMAIN ds \ {k}
<1>1. DOMAIN dt = S /\ \A j \in S : dt[j] = ds[j]
  BY DEF Drop
<1>2. IsFiniteSet(DOMAIN ds) /\ IsFiniteSet(S)
  BY FS_RemoveElement DEF DepositMap
<1>3. DepositMap(dt)
  <2>1. \A j \in DOMAIN dt : dt[j] \in TermDeposits
    BY <1>1 DEF DepositMap
  <2>2. dt = [j \in DOMAIN dt |-> dt[j]]
    BY DEF Drop
  <2> QED BY <1>1, <1>2, <2>1, <2>2 DEF DepositMap
<1>4. /\ \A j \in DOMAIN ds : f[j] \in Int /\ f[j] = ds[j].amount
      /\ Deposited(ds) = SumOver(f, DOMAIN ds) /\ Deposited(ds) \in Nat
  BY DepositSums
<1>5. Deposited(dt) = SumOver(g, S) /\ Deposited(dt) \in Nat
  BY <1>1, <1>3, DepositSums
<1>6. \A j \in S : g[j] = f[j]
  BY <1>1 DEF AmountsOf
<1>7. ds[k] \in TermDeposits
  BY DEF DepositMap
<1> HIDE DEF dt, f, g
<1>8. SumOver(f, DOMAIN ds) = SumOver(f, S) + f[k]
  BY <1>2, <1>4, SumRemove
<1>9. SumOver(g, S) = SumOver(f, S)
  BY <1>2, <1>6, SumSame
<1>10. Deposited(dt) = Deposited(ds) - ds[k].amount
  BY <1>4, <1>5, <1>8, <1>9
<1> QED BY <1>3, <1>7, <1>10 DEF dt

\* A deposit with the amount it had.
LEMMA DepositChanged ==
  ASSUME NEW ds, DepositMap(ds), NEW k \in DOMAIN ds, NEW d \in TermDeposits, d.amount = ds[k].amount
  PROVE  DepositMap([ds EXCEPT ![k] = d]) /\ Deposited([ds EXCEPT ![k] = d]) = Deposited(ds)
<1> DEFINE dt == [ds EXCEPT ![k] = d]
<1>1. DOMAIN dt = DOMAIN ds
  OBVIOUS
<1>2. DepositMap(dt)
  BY DEF DepositMap
<1>3. AmountsOf(dt) = AmountsOf(ds)
  BY <1>2 DEF AmountsOf, DepositMap
<1> QED BY <1>2, <1>3 DEF Deposited

EntitledOf(us) == [u \in DOMAIN us |-> us[u].entitled_tickets + us[u].entitled_tokens]

Users(us) == DOMAIN us \subseteq MarginUsers /\ us \in [DOMAIN us -> MarginUser]

\* Entitlements can be summed up.
LEMMA EntitledSums ==
  ASSUME NEW us, Users(us)
  PROVE  /\ IsFiniteSet(DOMAIN us) /\ Total(EntitledOf(us)) \in Nat
         /\ Total(EntitledOf(us)) = SumOver(EntitledOf(us), DOMAIN us)
         /\ \A u \in DOMAIN us : EntitledOf(us)[u] = Entitled(us[u]) /\ Entitled(us[u]) \in Nat
<1>1. IsFiniteSet(DOMAIN us)
  <2>1. DOMAIN us \subseteq MarginUsers \cup Wallets
    BY DEF Users
  <2> QED BY <2>1, FixedTermAssumption, FS_Subset
<1>2. ASSUME NEW u \in DOMAIN us
      PROVE  EntitledOf(us)[u] = Entitled(us[u]) /\ Entitled(us[u]) \in Nat
  <2>1. us[u] \in UserOf(Nat)
    BY DEF Users, MarginUser
  <2>2. us[u].entitled_tickets \in Nat /\ us[u].entitled_tokens \in Nat
    BY <2>1, UserNumbers
  <2> QED BY <2>2 DEF EntitledOf, Entitled
<1>3. Total(EntitledOf(us)) = SumOver(EntitledOf(us), DOMAIN us)
  BY DEF Total, EntitledOf
<1>4. \A u \in DOMAIN us : EntitledOf(us)[u] \in Nat
  BY <1>2
<1>5. SumOver(EntitledOf(us), DOMAIN us) \in Nat
  BY <1>1, <1>4, SumNat
<1> QED BY <1>1, <1>2, <1>3, <1>5

\* One user's record changes.
LEMMA EntitledChanged ==
  ASSUME NEW us, Users(us), NEW u \in DOMAIN us, NEW r \in MarginUser
  PROVE  /\ Users([us EXCEPT ![u] = r])
         /\ Total(EntitledOf([us EXCEPT ![u] = r]))
              = Total(EntitledOf(us)) + (Entitled(r) - Entitled(us[u]))
<1> DEFINE ut == [us EXCEPT ![u] = r]
           f == EntitledOf(us)
           g == EntitledOf(ut)
<1>1. DOMAIN ut = DOMAIN us /\ ut[u] = r /\ \A v \in DOMAIN us \ {u} : ut[v] = us[v]
  OBVIOUS
<1>2. Users(ut)
  BY DEF Users
<1> HIDE DEF ut
<1>3. /\ IsFiniteSet(DOMAIN us) /\ Total(f) = SumOver(f, DOMAIN us)
      /\ \A v \in DOMAIN us : f[v] = Entitled(us[v]) /\ f[v] \in Int
  BY EntitledSums
<1>4. Total(g) = SumOver(g, DOMAIN us) /\ \A v \in DOMAIN us : g[v] = Entitled(ut[v]) /\ g[v] \in Int
  BY <1>1, <1>2, EntitledSums
<1> HIDE DEF f, g
<1>5. \A v \in DOMAIN us \ {u} : g[v] = f[v]
  BY <1>1, <1>3, <1>4
<1>6. SumOver(g, DOMAIN us) = SumOver(f, DOMAIN us) + (g[u] - f[u])
  BY <1>3, <1>4, <1>5, SumChange
<1> QED BY <1>1, <1>2, <1>3, <1>4, <1>6 DEF f, g, ut

Notes == [claims : Nat, ticket_collateral : Nat, underlying_collateral : Nat]

-----------------------------------------------------------------------------
(* Orders of users *)

\* The fee is added to the quantities of an order.
LEMMA FeeAdded ==
  ASSUME NEW p \in ValidOrders
  PROVE  add_origination_fee(p) \in ValidOrders
<1>1. ASSUME NEW n \in Nat PROVE borrow_order_qty(n) \in Nat
  <2> DEFINE fee == (n * OriginationFee) \div FEE_UNIT
  <2>1. n * OriginationFee \in Nat
    BY OriginationFeeAssumption, MulNat
  <2>2. fee \in Nat
    BY <2>1, DivBounds, OriginationFeeAssumption
  <2>3. 1 + n + fee \in Nat
    BY <2>2
  <2>4. Min({MaxQty, 1 + n + fee}) \in Nat
    BY <2>3, MinTwo, OrderbookAssumption
  <2> QED BY <2>4 DEF borrow_order_qty
<1>2. p.max_ticket_qty \in Nat /\ p.max_underlying_token_qty \in Nat
  BY DEF ValidOrders
<1>3. borrow_order_qty(p.max_ticket_qty) \in Nat /\ borrow_order_qty(p.max_underlying_token_qty) \in Nat
  BY <1>1, <1>2
<1> QED BY <1>3 DEF add_origination_fee, ValidOrders

\* The fee is a part of what is borrowed.
LEMMA Disbursed ==
  ASSUME NEW q \in Nat
  PROVE  loan_to_disburse(q) \in Nat /\ loan_to_disburse(q) <= q
<1> DEFINE d == FEE_UNIT + OriginationFee
           x == (FEE_UNIT * q) \div d
<1>1. d \in Nat \ {0} /\ FEE_UNIT \in Nat /\ FEE_UNIT <= d
  BY OriginationFeeAssumption
<1> HIDE DEF d
<1>2. FEE_UNIT * q \in Nat /\ FEE_UNIT * q <= d * q
  BY <1>1, MulNat
<1>3. x \in Nat /\ x * d <= FEE_UNIT * q
  BY <1>1, <1>2, DivBounds
<1> HIDE DEF x
<1>4. x * d <= q * d
  BY <1>1, <1>2, <1>3
<1>5. x <= q
  BY <1>1, <1>3, <1>4, Cancel
<1> QED BY <1>3, <1>5 DEF loan_to_disburse, d, x

\* The orders that auto-roll makes.
LEMMA RollOrder ==
  ASSUME NEW q \in Nat, NEW price \in Nat \ {0}, NEW options
  PROVE  /\ OrderParams(MaxQty, q, price, options) \in ValidOrders
         /\ OrderParams(MaxQty, q, price, options).max_underlying_token_qty = q
BY OrderbookAssumption DEF OrderParams, ValidOrders


-----------------------------------------------------------------------------
(* The invariant *)

\* every user's record, notes and loans
Ledger(us, ns, ls, now) ==
  /\ Users(us) /\ ns \in [DOMAIN us -> Notes] /\ LoanMap(ls, DOMAIN us)
  /\ \A u \in DOMAIN us : OwnLoans(us[u], ls, u, now)

\* Pending debt is what is in the book and the queue, and the claims cover all debt.
Accounted(us, ns, b, q) ==
  \A u \in DOMAIN us : us[u].pending = Debt(u, b, q) /\ ns[u].claims >= total(us[u])

MarketInv ==
  Market(book, queue, DOMAIN users) /\ Len(queue) <= QueueCapacity /\ nonce \in Nat

FundsInv ==
  tickets \in [Holders -> Nat] /\ vault \in Nat /\ clock \in Nat /\ DepositMap(deposits)

LedgerInv == Ledger(users, notes, loans, clock)
AccountedInv == Accounted(users, notes, book, queue)

\* The vault and the loans cover the tickets, the deposits, the entitlements and
\* what the market owes for its orders and events, net of the loans of events.
CoveredInv ==
  Total(tickets) + Deposited(deposits) + Total(EntitledOf(users)) + Owed(book, queue)
    <= vault + Total(Balances(loans))

FixedTermInv == MarketInv /\ FundsInv /\ LedgerInv /\ AccountedInv /\ CoveredInv

\* The sums that CoveredInv is about are numbers.
LEMMA TotalsTyped ==
  ASSUME FixedTermInv
  PROVE  /\ Total(tickets) \in Nat /\ Deposited(deposits) \in Nat
         /\ Total(EntitledOf(users)) \in Nat /\ Owed(book, queue) \in Int
         /\ Total(Balances(loans)) \in Nat /\ vault \in Nat /\ clock \in Nat
<1>1. Total(tickets) \in Nat
  <2>1. tickets \in [Holders -> Nat] /\ DOMAIN tickets = Holders /\ IsFiniteSet(Holders)
    BY FixedTermAssumption DEF FixedTermInv, FundsInv, Holders
  <2>2. SumOver(tickets, Holders) \in Nat
    BY <2>1, SumNat
  <2> QED BY <2>1, <2>2 DEF Total
<1>2. Deposited(deposits) \in Nat /\ vault \in Nat /\ clock \in Nat
  BY DepositSums DEF FixedTermInv, FundsInv
<1>3. Total(EntitledOf(users)) \in Nat
  BY EntitledSums DEF FixedTermInv, LedgerInv, Ledger
<1>4. Owed(book, queue) \in Int
  <2>1. Market(book, queue, MarginUsers)
    BY MoreMarket DEF FixedTermInv, MarketInv, LedgerInv, Ledger, Users
  <2> QED BY <2>1, MarketSums
<1>5. Total(Balances(loans)) \in Nat
  BY LoanSums DEF FixedTermInv, LedgerInv, Ledger
<1> QED BY <1>1, <1>2, <1>3, <1>4, <1>5

\* Somebody's tickets change.
LEMMA TicketsChanged ==
  ASSUME NEW t \in [Holders -> Nat], NEW h \in Holders, NEW x \in Nat
  PROVE  /\ [t EXCEPT ![h] = x] \in [Holders -> Nat] /\ t[h] \in Nat
         /\ Total([t EXCEPT ![h] = x]) = Total(t) + (x - t[h])
<1> DEFINE g == [t EXCEPT ![h] = x]
<1>1. g \in [Holders -> Nat] /\ g[h] = x /\ \A v \in Holders \ {h} : g[v] = t[v]
  OBVIOUS
<1>2. IsFiniteSet(Holders)
  BY FixedTermAssumption DEF Holders
<1> HIDE DEF g
<1>3. SumOver(g, Holders) = SumOver(t, Holders) + (g[h] - t[h])
  BY <1>1, <1>2, SumExcept
<1>4. DOMAIN g = Holders /\ DOMAIN t = Holders
  BY <1>1
<1> QED BY <1>1, <1>3, <1>4 DEF Total, g

\* What changes for user u: its record becomes r.
UserStep(u, r) ==
  /\ users' = [users EXCEPT ![u] = r] /\ r \in MarginUser /\ clock' = clock
  /\ notes' \in [DOMAIN users -> Notes] /\ LoanMap(loans', DOMAIN users)
  /\ OwnLoans(r, loans', u, clock) /\ Others(loans, loans', DOMAIN users \ {u})
  /\ \A v \in DOMAIN users \ {u} :
       notes'[v].claims = notes[v].claims /\ Debt(v, book', queue') = Debt(v, book, queue)
  /\ r.pending = Debt(u, book', queue') /\ notes'[u].claims >= total(r)

\* The others' records stay in order.
LEMMA UserSteps ==
  ASSUME FixedTermInv, NEW u \in DOMAIN users, NEW r, UserStep(u, r)
  PROVE  /\ LedgerInv' /\ AccountedInv' /\ DOMAIN users' = DOMAIN users
         /\ Total(EntitledOf(users')) = Total(EntitledOf(users)) + (Entitled(r) - Entitled(users[u]))
         /\ Entitled(r) \in Nat /\ Entitled(users[u]) \in Nat
<1> DEFINE ut == [users EXCEPT ![u] = r]
<1>1. /\ Users(users) /\ LoanMap(loans, DOMAIN users) /\ clock \in Nat
      /\ \A v \in DOMAIN users : OwnLoans(users[v], loans, v, clock) /\ users[v] \in MarginUser
  BY DEF FixedTermInv, FundsInv, LedgerInv, Ledger, Users
<1>2. users' = ut /\ r \in MarginUser /\ clock' = clock
  BY DEF UserStep
<1>3. DOMAIN ut = DOMAIN users /\ ut[u] = r /\ \A v \in DOMAIN users \ {u} : ut[v] = users[v]
  OBVIOUS
<1>4. /\ Users(ut)
      /\ Total(EntitledOf(ut)) = Total(EntitledOf(users)) + (Entitled(r) - Entitled(users[u]))
  BY <1>1, <1>2, EntitledChanged
<1> HIDE DEF ut
<1>5. ASSUME NEW v \in DOMAIN users
      PROVE  OwnLoans(ut[v], loans', v, clock)
  <2>1. CASE v = u
    BY <1>3, <2>1 DEF UserStep
  <2>2. CASE v # u
    <3>1. LoansOf(loans', v) = LoansOf(loans, v)
      BY <2>2 DEF UserStep, Others
    <3>2. \A j \in LoansOf(loans, v) :
            loans'[j].maturity = loans[j].maturity /\ loans'[j].balance = loans[j].balance
      BY <2>2 DEF UserStep, Others
    <3>3. SameDebt(users[v], users[v]) /\ clock <= clock
      BY <1>1 DEF SameDebt
    <3>4. OwnLoans(users[v], loans', v, clock)
      BY <1>1, <3>1, <3>2, <3>3, SameLoans
    <3> QED BY <1>3, <2>2, <3>4
  <2> QED BY <2>1, <2>2
<1>6. LedgerInv'
  <2>1. Ledger(ut, notes', loans', clock)
    BY <1>3, <1>4, <1>5 DEF Ledger, UserStep
  <2> QED BY <1>2, <2>1 DEF LedgerInv
<1>7. AccountedInv'
  <2>1. ASSUME NEW v \in DOMAIN users
        PROVE  ut[v].pending = Debt(v, book', queue') /\ notes'[v].claims >= total(ut[v])
    <3>1. CASE v = u
      BY <1>3, <3>1 DEF UserStep
    <3>2. CASE v # u
      <4>1. users[v].pending = Debt(v, book, queue) /\ notes[v].claims >= total(users[v])
        BY DEF FixedTermInv, AccountedInv, Accounted
      <4> QED BY <1>3, <3>2, <4>1 DEF UserStep
    <3> QED BY <3>1, <3>2
  <2> QED BY <1>2, <1>3, <2>1 DEF AccountedInv, Accounted
<1>8. /\ Entitled(users[u]) \in Nat /\ Entitled(ut[u]) \in Nat
  BY <1>1, <1>3, <1>4, EntitledSums
<1> QED BY <1>2, <1>3, <1>4, <1>6, <1>7, <1>8

\* The loans and every other thing about the debt stay: r may have other assets, and
\* the claims stay or are brought up to date.
KeptStep(u, r) ==
  /\ users' = [users EXCEPT ![u] = r] /\ r \in MarginUser /\ SameDebt(users[u], r)
  /\ notes' \in [DOMAIN users -> Notes]
  /\ \A v \in DOMAIN users \ {u} : notes'[v].claims = notes[v].claims
  /\ notes'[u].claims \in {notes[u].claims, total(users[u])}
  /\ UNCHANGED <<loans, clock>>

\* Such a step, with less debt in the market or the same.
LEMMA KeptSteps ==
  ASSUME FixedTermInv, NEW u \in DOMAIN users, NEW r, KeptStep(u, r), NEW x \in Nat,
         r.pending = users[u].pending - x,
         \A v \in DOMAIN users : Debt(v, book', queue') = Debt(v, book, queue) - (IF v = u THEN x ELSE 0)
  PROVE  /\ LedgerInv' /\ AccountedInv' /\ DOMAIN users' = DOMAIN users
         /\ Total(EntitledOf(users')) = Total(EntitledOf(users)) + (Entitled(r) - Entitled(users[u]))
         /\ Entitled(r) \in Nat /\ Entitled(users[u]) \in Nat
<1>1. /\ LoanMap(loans, DOMAIN users) /\ clock \in Nat /\ users[u] \in MarginUser
      /\ OwnLoans(users[u], loans, u, clock) /\ users[u].pending = Debt(u, book, queue)
      /\ notes[u].claims >= total(users[u]) /\ notes[u].claims \in Nat
  BY DEF FixedTermInv, FundsInv, LedgerInv, Ledger, Users, AccountedInv, Accounted, Notes
<1>2. OwnLoans(r, loans, u, clock)
  BY <1>1, SameLoans, SMTT(40) DEF KeptStep
<1>3. users[u].pending \in Nat /\ users[u].committed \in Nat
  BY <1>1, UserNumbers DEF MarginUser
<1>4. total(r) = total(users[u]) - x /\ total(users[u]) \in Nat
  BY <1>3 DEF KeptStep, SameDebt, total
<1>5. notes'[u].claims >= total(r)
  BY <1>1, <1>4 DEF KeptStep
<1>6. r.pending = Debt(u, book', queue')
  BY <1>1
<1>7. ASSUME NEW v \in DOMAIN users \ {u} PROVE Debt(v, book', queue') = Debt(v, book, queue)
  <2>1. Debt(v, book, queue) \in Nat
    <3>1. users[v] \in MarginUser /\ users[v].pending = Debt(v, book, queue)
      BY DEF FixedTermInv, LedgerInv, Ledger, Users, AccountedInv, Accounted
    <3> QED BY <3>1, UserNumbers DEF MarginUser
  <2> QED BY <2>1
<1>8. UserStep(u, r)
  BY <1>1, <1>2, <1>5, <1>6, <1>7 DEF UserStep, KeptStep, Others
<1> QED BY <1>8, UserSteps

\* Nothing changes for the users but the time and orders that are not debt.
LEMMA NoUserStep ==
  ASSUME FixedTermInv, UNCHANGED <<users, notes, loans>>, clock' \in Nat, clock <= clock',
         \A v \in DOMAIN users : Debt(v, book', queue') = Debt(v, book, queue)
  PROVE  LedgerInv' /\ AccountedInv'
<1>1. /\ LoanMap(loans, DOMAIN users) /\ clock \in Nat
      /\ \A v \in DOMAIN users : OwnLoans(users[v], loans, v, clock) /\ users[v] \in MarginUser
  BY DEF FixedTermInv, FundsInv, LedgerInv, Ledger, Users
<1>2. ASSUME NEW v \in DOMAIN users PROVE OwnLoans(users[v], loans, v, clock')
  <2>1. SameDebt(users[v], users[v])
    BY DEF SameDebt
  <2> QED BY <1>1, <2>1, SameLoans
<1>3. LedgerInv'
  BY <1>2 DEF FixedTermInv, LedgerInv, Ledger
<1>4. AccountedInv'
  BY DEF FixedTermInv, AccountedInv, Accounted
<1> QED BY <1>3, <1>4


-----------------------------------------------------------------------------
(* Orders keep the invariant *)

\* Infos of the orders of a margin user and of a wallet.
LEMMA OrderInfos ==
  ASSUME NEW D, D \subseteq MarginUsers, NEW u, NEW fl \in SUBSET Flags
  PROVE  /\ u \in D /\ "MARGIN" \in fl /\ "AUTO_STAKE" \notin fl => CallbackInfo(u, fl) \in Infos(D)["Ask"]
         /\ u \in D /\ "NEW_DEBT" \notin fl => CallbackInfo(u, fl) \in Infos(D)["Bid"]
         /\ u \in Holders /\ fl \subseteq {"AUTO_STAKE"} => CallbackInfo(u, fl) \in Infos(D)["Bid"]
         /\ u \in Holders => CallbackInfo(u, {}) \in Infos(D)["Ask"]
<1>1. "Ask" \in Sides /\ "Bid" \in Sides /\ D \subseteq Holders
  BY DEF Sides, Holders
<1> QED BY <1>1 DEF Infos, CallbackInfo, Flags

\* What is in the market after an order is placed
MarketStep(s, p) ==
  /\ Market(book', queue', DOMAIN users) /\ Len(queue') <= QueueCapacity /\ nonce' \in Nat
  /\ Summary(s, p) /\ Owed(book', queue') \in Int

\* An order is placed.
LEMMA Committed ==
  ASSUME FixedTermInv, NEW side \in Sides, NEW p \in ValidOrders, NEW u, NEW fl,
         CallbackInfo(u, fl) \in Infos(DOMAIN users)[side],
         NEW s, s = Placed(side, p, u, fl), OrderAccepted(s), Commit(s)
  PROVE  /\ MarketStep(s, p)
         /\ s = new_order(book, side, p, CallbackInfo(u, fl), nonce) /\ nonce \in Nat
         /\ book' = s.book /\ queue' = queue \o s.events
         /\ Market(book, queue, DOMAIN users) /\ DOMAIN users \subseteq MarginUsers
<1> DEFINE info == CallbackInfo(u, fl)
<1>1. /\ Market(book, queue, DOMAIN users) /\ nonce \in Nat /\ DOMAIN users \subseteq MarginUsers
  BY DEF FixedTermInv, MarketInv, LedgerInv, Ledger, Users
<1>2. s = new_order(book, side, p, info, nonce)
  BY DEF Placed, OrderTag
<1> HIDE DEF info
<1>3. book' = s.book /\ queue' = queue \o s.events /\ nonce' = nonce + 1
  BY DEF Commit
<1>4. /\ Market(s.book, queue \o s.events, DOMAIN users) /\ Summary(s, p)
      /\ Leaves(s, book, Anyone, side, p, info, nonce)
  BY <1>1, <1>2, OrderPlaced DEF info
<1>5. Len(queue') <= QueueCapacity
  <2>1. queue \in Seq(Events(DOMAIN users))
    BY <1>1 DEF Market
  <2>2. s.events \in Seq(Event(Anyone[Opposite(side)], Opposite(side)))
    BY <1>4 DEF Leaves
  <2>3. Len(queue \o s.events) = Len(queue) + Len(s.events)
    BY <2>1, <2>2
  <2> QED BY <1>3, <2>3 DEF OrderAccepted
<1>6. Owed(book', queue') \in Int
  <2>1. Market(book', queue', MarginUsers)
    BY <1>1, <1>3, <1>4, MoreMarket
  <2> QED BY <2>1, MarketSums
<1> QED BY <1>1, <1>2, <1>3, <1>4, <1>5, <1>6 DEF MarketStep, info

\* An ask is placed.
LEMMA AskCommitted ==
  ASSUME FixedTermInv, NEW p \in ValidOrders, NEW u, NEW fl,
         CallbackInfo(u, fl) \in Infos(DOMAIN users)["Ask"],
         NEW s, s = Placed("Ask", p, u, fl), OrderAccepted(s), Commit(s)
  PROVE  /\ MarketStep(s, p)
         /\ Owed(book', queue') <= Owed(book, queue) + base_filled(s) - quote_filled(s)
                                     + (IF "NEW_DEBT" \in fl THEN 0 ELSE s.base_posted)
         /\ \A v : Debt(v, book', queue')
                     = Debt(v, book, queue) + (IF u = v /\ "NEW_DEBT" \in fl THEN s.base_posted ELSE 0)
<1> DEFINE info == CallbackInfo(u, fl)
<1>1. /\ MarketStep(s, p) /\ s = new_order(book, "Ask", p, info, nonce) /\ nonce \in Nat
      /\ book' = s.book /\ queue' = queue \o s.events
      /\ Market(book, queue, DOMAIN users) /\ DOMAIN users \subseteq MarginUsers
  BY Committed DEF Sides
<1>2. info.owner = u /\ (IsDebt(info) <=> "NEW_DEBT" \in fl)
  BY DEF CallbackInfo, IsDebt
<1>3. info \in Infos(DOMAIN users)["Ask"]
  OBVIOUS
<1> HIDE DEF info
<1>4. /\ Owed(s.book, queue \o s.events)
           <= Owed(book, queue) + base_filled(s) - quote_filled(s)
                + (IF IsDebt(info) THEN 0 ELSE s.base_posted)
      /\ \A v : Debt(v, s.book, queue \o s.events)
                  = Debt(v, book, queue) + (IF info.owner = v /\ IsDebt(info) THEN s.base_posted ELSE 0)
  BY <1>1, <1>3, AskPlaced
<1> QED BY <1>1, <1>2, <1>4

\* A bid is placed.
LEMMA BidCommitted ==
  ASSUME FixedTermInv, NEW p \in ValidOrders, NEW u, NEW fl,
         CallbackInfo(u, fl) \in Infos(DOMAIN users)["Bid"],
         NEW s, s = Placed("Bid", p, u, fl), OrderAccepted(s), Commit(s)
  PROVE  /\ MarketStep(s, p)
         /\ Owed(book', queue') <= Owed(book, queue) + s.total_quote - base_filled(s)
         /\ \A v : Debt(v, book', queue') = Debt(v, book, queue)
<1> DEFINE info == CallbackInfo(u, fl)
<1>1. /\ MarketStep(s, p) /\ s = new_order(book, "Bid", p, info, nonce) /\ nonce \in Nat
      /\ book' = s.book /\ queue' = queue \o s.events
      /\ Market(book, queue, DOMAIN users) /\ DOMAIN users \subseteq MarginUsers
  BY Committed DEF Sides
<1>3. info \in Infos(DOMAIN users)["Bid"]
  OBVIOUS
<1> HIDE DEF info
<1>4. /\ Owed(s.book, queue \o s.events) <= Owed(book, queue) + s.total_quote - base_filled(s)
      /\ \A v : Debt(v, s.book, queue \o s.events) = Debt(v, book, queue)
  BY <1>1, <1>3, BidPlaced
<1> QED BY <1>1, <1>4

\* The quantities are numbers.
LEMMA StepNumbers ==
  ASSUME NEW s, NEW p, MarketStep(s, p), DOMAIN users' = DOMAIN users
  PROVE  /\ MarketInv' /\ Owed(book', queue') \in Int
         /\ base_filled(s) \in Nat /\ quote_filled(s) \in Nat /\ s.base_posted \in Nat
         /\ quote_posted(s) \in Nat
         /\ s.total_base = base_filled(s) + s.base_posted
         /\ s.total_quote = quote_filled(s) + quote_posted(s)
         /\ s.total_base \in Nat /\ s.total_quote \in Nat
         /\ s.total_quote <= p.max_underlying_token_qty
BY DEF MarketStep, Summary, MarketInv

\* The record of a borrower after its order
LEMMA BorrowedUser ==
  ASSUME NEW m \in MarginUser, NEW s, base_filled(s) \in Nat, s.base_posted \in Nat,
         quote_posted(s) \in Nat, clock \in Nat
  PROVE  LET r == Borrowed(m, s)
         IN  /\ r \in MarginUser /\ r.pending = m.pending + s.base_posted
             /\ Entitled(r) = Entitled(m)
             /\ total(r) = total(m) + base_filled(s) + s.base_posted
             /\ base_filled(s) > 0 => Borrows(m, r, base_filled(s), clock + BorrowTenor)
             /\ base_filled(s) = 0 => SameDebt(m, r)
<1> DEFINE a == post_borrow_order(m, quote_posted(s), s.base_posted)
           r == new_term_loan(a, base_filled(s), clock + BorrowTenor)
<1>1. /\ a \in MarginUser /\ a.pending = m.pending + s.base_posted
      /\ SameDebt(m, a) /\ Entitled(a) = Entitled(m)
  BY PostBorrow
<1>2. clock + BorrowTenor \in Nat
  BY FixedTermAssumption
<1> HIDE DEF a
<1>3. /\ r \in MarginUser /\ r.pending = a.pending /\ Entitled(r) = Entitled(a)
      /\ Borrows(a, r, base_filled(s), clock + BorrowTenor)
  BY <1>1, <1>2, NewTermLoan DEF MarginUser
<1>4. m.pending \in Nat /\ m.committed \in Nat
  BY UserNumbers DEF MarginUser
<1> HIDE DEF r
<1>5. CASE base_filled(s) > 0
  <2>1. Borrowed(m, s) = r
    BY <1>5 DEF Borrowed, a, r
  <2>2. Borrows(m, r, base_filled(s), clock + BorrowTenor)
    BY <1>1, <1>3 DEF Borrows, SameDebt
  <2>3. total(r) = total(m) + base_filled(s) + s.base_posted
    BY <1>1, <1>3, <1>4, <2>2 DEF total, Borrows
  <2> QED BY <1>1, <1>3, <1>5, <2>1, <2>2, <2>3
<1>6. CASE base_filled(s) = 0
  <2>1. Borrowed(m, s) = a
    BY <1>6 DEF Borrowed, a
  <2>2. total(a) = total(m) + base_filled(s) + s.base_posted
    BY <1>1, <1>4, <1>6 DEF total, SameDebt
  <2> QED BY <1>1, <1>6, <2>1, <2>2
<1> QED BY <1>5, <1>6

\* The loans after it
LEMMA LoansTaken ==
  ASSUME FixedTermInv, NEW u \in DOMAIN users, NEW s, base_filled(s) \in Nat, s.base_posted \in Nat,
         quote_posted(s) \in Nat, NEW roll \in BOOLEAN
  PROVE  LET lt == LoanTaken(u, s, roll)
         IN  /\ LoanStep(loans, lt, DOMAIN users, u, Borrowed(users[u], s), clock, base_filled(s))
             /\ \A k \in LoansOf(loans, u) : k \in DOMAIN lt /\ lt[k] = loans[k]
<1> DEFINE m == users[u]
           r == Borrowed(m, s)
           k == <<u, m.next_new_term_loan_seqno>>
           l == TermLoan(base_filled(s), roll)
           lt == LoanTaken(u, s, roll)
           D == DOMAIN users
<1>1. /\ LoanMap(loans, D) /\ clock \in Nat /\ m \in MarginUser /\ OwnLoans(m, loans, u, clock)
  BY DEF FixedTermInv, FundsInv, LedgerInv, Ledger, Users
<1>2. /\ base_filled(s) > 0 => Borrows(m, r, base_filled(s), clock + BorrowTenor)
      /\ base_filled(s) = 0 => SameDebt(m, r)
  BY <1>1, BorrowedUser
<1>3. Total(Balances(loans)) \in Nat /\ LoansOf(loans, u) \subseteq DOMAIN loans
  BY <1>1, LoanSums
<1>4. CASE base_filled(s) > 0
  <2>1. l \in TermLoans /\ l.maturity = clock + BorrowTenor /\ l.balance = base_filled(s)
    BY <1>1, <1>4, FixedTermAssumption DEF TermLoan, TermLoans
  <2>2. lt = Put(loans, k, l)
    BY <1>4 DEF LoanTaken
  <2> HIDE DEF l, lt, r, m
  <2>3. LoanStep(loans, Put(loans, k, l), D, u, r, clock, l.balance)
    <3>1. Borrows(m, r, l.balance, clock + BorrowTenor)
      BY <1>2, <1>4, <2>1
    <3> HIDE DEF D
    <3>2. u \in D
      BY DEF D
    <3> QED BY <1>1, <2>1, <3>1, <3>2, LoanAdded
  <2>4. \A j \in LoansOf(loans, u) : j \in DOMAIN lt /\ lt[j] = loans[j]
    <3>1. k \notin LoansOf(loans, u)
      <4>1. m.next_new_term_loan_seqno \in Nat /\ m.next_unpaid_term_loan_seqno \in Nat
        BY <1>1, UserNumbers DEF MarginUser
      <4> QED BY <1>1, <4>1 DEF OwnLoans, Numbers
    <3> QED BY <1>3, <2>2, <3>1 DEF Put
  <2> QED BY <2>1, <2>2, <2>3, <2>4 DEF lt, r, m
<1>5. CASE base_filled(s) = 0
  <2>1. lt = loans
    BY <1>5 DEF LoanTaken
  <2> HIDE DEF lt, r, m
  <2>2. OwnLoans(r, loans, u, clock)
    BY <1>1, <1>2, <1>5, SameLoans
  <2>3. Others(loans, lt, D \ {u})
    BY <2>1 DEF Others
  <2>4. LoanStep(loans, lt, D, u, r, clock, base_filled(s))
    BY <1>1, <1>3, <1>5, <2>1, <2>2, <2>3 DEF LoanStep
  <2> QED BY <1>3, <2>1, <2>4 DEF lt, r, m
<1> QED BY <1>4, <1>5

\* The note of the claim
LEMMA ClaimsNoted ==
  ASSUME FixedTermInv, NEW u \in DOMAIN users, NEW s, s.total_base \in Nat, quote_posted(s) \in Nat
  PROVE  /\ ClaimNoted(u, s) \in [DOMAIN users -> Notes]
         /\ ClaimNoted(u, s)[u].claims = notes[u].claims + s.total_base
         /\ notes[u].claims \in Nat
         /\ \A v \in DOMAIN users \ {u} : ClaimNoted(u, s)[v] = notes[v]
<1>1. notes \in [DOMAIN users -> Notes]
  BY DEF FixedTermInv, LedgerInv, Ledger
<1> DEFINE n == notes[u]
           x == s.total_base
           y == quote_posted(s)
           t == [n EXCEPT !.claims = @ + x, !.underlying_collateral = @ + y]
<1>2. n \in Notes
  BY <1>1
<1>3. ClaimNoted(u, s) = [notes EXCEPT ![u] = t]
  BY DEF ClaimNoted
<1> HIDE DEF n, x, y
<1>4. t \in Notes /\ t.claims = n.claims + x /\ n.claims \in Nat
  <2>1. x \in Nat /\ y \in Nat
    BY DEF x, y
  <2>2. n.claims \in Nat /\ n.ticket_collateral \in Nat /\ n.underlying_collateral \in Nat
    BY <1>2 DEF Notes
  <2>3. n.claims + x \in Nat /\ n.underlying_collateral + y \in Nat
    BY <2>1, <2>2
  <2> QED BY <1>2, <2>2, <2>3 DEF Notes
<1> HIDE DEF t
<1> QED BY <1>1, <1>3, <1>4 DEF n, x

\* margin_borrow_order
LEMMA BorrowStep ==
  ASSUME FixedTermInv, NEW u \in DOMAIN users, NEW p \in BorrowOrders[u], margin_borrow_order(u, p)
  PROVE  FixedTermInv'
<1> DEFINE fl == {"NEW_DEBT", "MARGIN"} \cup Flag("AUTO_ROLL", p.auto_roll)
           pf == add_origination_fee(p)
           s == Placed("Ask", pf, u, fl)
           r == Borrowed(users[u], s)
           lt == LoanTaken(u, s, p.auto_roll)
<1>1. /\ OrderAccepted(s) /\ vault >= quote_filled(s) /\ Commit(s)
      /\ users' = [users EXCEPT ![u] = r] /\ loans' = lt
      /\ notes' = ClaimNoted(u, s) /\ vault' = vault - quote_filled(s)
      /\ UNCHANGED <<deposits, tickets, clock>>
  BY DEF margin_borrow_order
<1>2. p \in ValidOrders /\ p.auto_roll \in BOOLEAN
  <2>1. u \in MarginUsers
    BY DEF FixedTermInv, LedgerInv, Ledger, Users
  <2>2. p \in ValidOrders
    BY <2>1, FixedTermAssumption
  <2> QED BY <2>2 DEF ValidOrders
<1>3. pf \in ValidOrders
  BY <1>2, FeeAdded
<1>4. CallbackInfo(u, fl) \in Infos(DOMAIN users)["Ask"]
  <2>1. fl \in SUBSET Flags /\ "MARGIN" \in fl /\ "AUTO_STAKE" \notin fl
    BY DEF Flags, Flag
  <2>2. DOMAIN users \subseteq MarginUsers
    BY DEF FixedTermInv, LedgerInv, Ledger, Users
  <2> QED BY <2>1, <2>2, OrderInfos
<1>5. "NEW_DEBT" \in fl
  OBVIOUS
<1> HIDE DEF fl, pf, s, r, lt
<1>6. /\ MarketStep(s, pf)
      /\ Owed(book', queue') <= Owed(book, queue) + base_filled(s) - quote_filled(s)
      /\ \A v : Debt(v, book', queue') = Debt(v, book, queue) + (IF u = v THEN s.base_posted ELSE 0)
  <2>1. s = Placed("Ask", pf, u, fl)
    BY DEF s
  <2>2. /\ MarketStep(s, pf)
        /\ Owed(book', queue') <= Owed(book, queue) + base_filled(s) - quote_filled(s)
                                    + (IF "NEW_DEBT" \in fl THEN 0 ELSE s.base_posted)
        /\ \A v : Debt(v, book', queue')
                    = Debt(v, book, queue) + (IF u = v /\ "NEW_DEBT" \in fl THEN s.base_posted ELSE 0)
    BY <1>1, <1>3, <1>4, <2>1, AskCommitted
  <2>3. base_filled(s) \in Nat /\ quote_filled(s) \in Nat
    BY <2>2 DEF MarketStep, Summary
  <2>4. Owed(book, queue) \in Int
    BY TotalsTyped
  <2> QED BY <1>5, <2>2, <2>3, <2>4
<1>7. DOMAIN users' = DOMAIN users
  BY <1>1
<1>8. /\ MarketInv' /\ Owed(book', queue') \in Int
      /\ base_filled(s) \in Nat /\ quote_filled(s) \in Nat /\ s.base_posted \in Nat
      /\ quote_posted(s) \in Nat /\ s.total_base = base_filled(s) + s.base_posted /\ s.total_base \in Nat
  BY <1>6, <1>7, StepNumbers
<1>9. /\ users[u] \in MarginUser /\ clock \in Nat /\ users[u].pending = Debt(u, book, queue)
      /\ notes[u].claims >= total(users[u])
  BY DEF FixedTermInv, FundsInv, LedgerInv, Ledger, Users, AccountedInv, Accounted
<1>10. /\ r \in MarginUser /\ r.pending = users[u].pending + s.base_posted
       /\ Entitled(r) = Entitled(users[u])
       /\ total(r) = total(users[u]) + base_filled(s) + s.base_posted
  BY <1>8, <1>9, BorrowedUser DEF r
<1>11. LoanStep(loans, lt, DOMAIN users, u, r, clock, base_filled(s))
  BY <1>2, <1>8, LoansTaken DEF lt, r
<1>12. /\ ClaimNoted(u, s) \in [DOMAIN users -> Notes]
       /\ ClaimNoted(u, s)[u].claims = notes[u].claims + s.total_base
       /\ notes[u].claims \in Nat
       /\ \A v \in DOMAIN users \ {u} : ClaimNoted(u, s)[v] = notes[v]
  BY <1>8, ClaimsNoted
<1>13. total(users[u]) \in Nat
  BY <1>9, UserNumbers DEF MarginUser, total
<1>14. UserStep(u, r)
  <2>1. \A v \in DOMAIN users \ {u} :
          notes'[v].claims = notes[v].claims /\ Debt(v, book', queue') = Debt(v, book, queue)
    <3>1. ASSUME NEW v \in DOMAIN users PROVE Debt(v, book, queue) \in Int
      <4>1. users[v] \in MarginUser /\ users[v].pending = Debt(v, book, queue)
        BY DEF FixedTermInv, LedgerInv, Ledger, Users, AccountedInv, Accounted
      <4> QED BY <4>1, UserNumbers DEF MarginUser
    <3> QED BY <1>1, <1>6, <1>12, <3>1
  <2>2. notes'[u].claims >= total(r)
    BY <1>1, <1>8, <1>9, <1>10, <1>12, <1>13
  <2>3. r.pending = Debt(u, book', queue')
    BY <1>6, <1>9, <1>10
  <2> QED BY <1>1, <1>10, <1>11, <1>12, <2>1, <2>2, <2>3 DEF UserStep, LoanStep
<1>15. /\ LedgerInv' /\ AccountedInv'
       /\ Total(EntitledOf(users')) = Total(EntitledOf(users)) + (Entitled(r) - Entitled(users[u]))
       /\ Entitled(r) \in Nat
  BY <1>14, UserSteps
<1>16. FundsInv'
  BY <1>1, <1>8 DEF FixedTermInv, FundsInv
<1>17. CoveredInv'
  <2>1. /\ Total(tickets') = Total(tickets) /\ Deposited(deposits') = Deposited(deposits)
        /\ Total(EntitledOf(users')) = Total(EntitledOf(users))
        /\ Total(Balances(loans')) = Total(Balances(loans)) + base_filled(s)
        /\ vault' = vault - quote_filled(s)
    BY <1>1, <1>10, <1>11, <1>15, TotalsTyped DEF LoanStep
  <2>2. CoveredInv
    BY DEF FixedTermInv
  <2> QED BY <1>6, <1>8, <2>1, <2>2, TotalsTyped DEF CoveredInv
<1> QED BY <1>8, <1>15, <1>16, <1>17 DEF FixedTermInv


\* A new deposit
LEMMA NewTermDeposit ==
  ASSUME clock \in Nat, NEW h \in Holders, NEW seqno \in Nat, NEW x \in Nat \ {0}, NEW fl
  PROVE  TermDeposit(h, seqno, x, fl) \in TermDeposits /\ TermDeposit(h, seqno, x, fl).amount = x
<1>1. clock + LendTenor \in Nat
  BY FixedTermAssumption
<1>2. fl \cap {"AUTO_ROLL", "MARGIN"} \in SUBSET Flags
  BY DEF Flags
<1> QED BY <1>1, <1>2 DEF TermDeposit, TermDeposits

\* LendOrderAccounts::issue
LEMMA IssuedStep ==
  ASSUME FixedTermInv, NEW h \in Holders, NEW s, base_filled(s) \in Nat, NEW p, NEW seed,
         NEW seqno \in Nat, NEW fl, Issued(h, s, p, seed, seqno, fl)
  PROVE  /\ tickets' \in [Holders -> Nat] /\ DepositMap(deposits')
         /\ Total(tickets') \in Nat /\ Deposited(deposits') \in Nat
         /\ Total(tickets') + Deposited(deposits')
              <= Total(tickets) + Deposited(deposits) + base_filled(s)
<1>1. /\ tickets \in [Holders -> Nat] /\ DepositMap(deposits) /\ clock \in Nat
  BY DEF FixedTermInv, FundsInv
<1>2. Total(tickets) \in Nat /\ Deposited(deposits) \in Nat
  BY TotalsTyped
<1>3. CASE p.auto_stake /\ base_filled(s) > 0
  <2> DEFINE d == TermDeposit(h, seqno, base_filled(s), fl)
             k == <<h, seed>>
  <2>1. deposits' = Put(deposits, k, d) /\ tickets' = tickets
    BY <1>3 DEF Issued
  <2>2. d \in TermDeposits /\ d.amount = base_filled(s)
    BY <1>1, <1>3, NewTermDeposit
  <2> HIDE DEF d, k
  <2>3. DepositMap(deposits') /\ Deposited(deposits') <= Deposited(deposits) + d.amount
    BY <1>1, <2>1, <2>2, DepositPut
  <2>4. Deposited(deposits') \in Nat
    BY <2>3, DepositSums
  <2> QED BY <1>1, <1>2, <2>1, <2>2, <2>3, <2>4
<1>4. CASE p.auto_stake /\ base_filled(s) = 0
  BY <1>1, <1>2, <1>4 DEF Issued
<1>5. CASE ~p.auto_stake
  <2> DEFINE x == tickets[h] + base_filled(s)
  <2>1. deposits' = deposits /\ tickets' = [tickets EXCEPT ![h] = x]
    BY <1>5 DEF Issued
  <2>2. x \in Nat /\ x - tickets[h] = base_filled(s)
    BY <1>1
  <2> HIDE DEF x
  <2>3. tickets' \in [Holders -> Nat] /\ Total(tickets') = Total(tickets) + (x - tickets[h])
    BY <1>1, <2>1, <2>2, TicketsChanged
  <2> QED BY <1>1, <1>2, <2>1, <2>2, <2>3
<1> QED BY <1>3, <1>4, <1>5

\* A note of collateral
LEMMA CollateralNoted ==
  ASSUME NEW D, NEW ns \in [D -> Notes], NEW u \in D, NEW x \in Nat
  PROVE  /\ [ns EXCEPT ![u].ticket_collateral = x] \in [D -> Notes]
         /\ \A v \in D : [ns EXCEPT ![u].ticket_collateral = x][v].claims = ns[v].claims
<1> DEFINE n == ns[u]
           t == [n EXCEPT !.ticket_collateral = x]
<1>1. n \in Notes
  OBVIOUS
<1>2. [ns EXCEPT ![u].ticket_collateral = x] = [ns EXCEPT ![u] = t]
  OBVIOUS
<1>3. t \in Notes /\ t.claims = n.claims
  BY <1>1 DEF Notes
<1> HIDE DEF t
<1> QED BY <1>2, <1>3

\* Flags of a margin user's bid
LEMMA LendInfo ==
  ASSUME FixedTermInv, NEW u \in DOMAIN users, NEW p
  PROVE  CallbackInfo(u, LendFlags(p)) \in Infos(DOMAIN users)["Bid"]
<1>1. LendFlags(p) \in SUBSET Flags /\ "NEW_DEBT" \notin LendFlags(p)
  BY DEF LendFlags, Flag, Flags
<1>2. DOMAIN users \subseteq MarginUsers
  BY DEF FixedTermInv, LedgerInv, Ledger, Users
<1> QED BY <1>1, <1>2, OrderInfos

\* margin_lend_order
LEMMA LendStep ==
  ASSUME FixedTermInv, NEW u \in DOMAIN users, NEW p \in LendOrders[u], margin_lend_order(u, p)
  PROVE  FixedTermInv'
<1> DEFINE fl == LendFlags(p)
           s == Placed("Bid", p, u, fl)
           r == lend_order(users[u], Staked(s, p), s.base_posted)
           x == notes[u].ticket_collateral + s.base_posted + Staked(s, p)
           seqno == users[u].next_deposit_seqno
<1>1. /\ OrderAccepted(s) /\ Commit(s) /\ Issued(u, s, p, seqno, seqno, fl)
      /\ users' = [users EXCEPT ![u] = r]
      /\ notes' = [notes EXCEPT ![u].ticket_collateral = x]
      /\ vault' = vault + s.total_quote
      /\ UNCHANGED <<loans, clock>>
  BY DEF margin_lend_order
<1>2. u \in MarginUsers /\ u \in Holders
  BY DEF FixedTermInv, LedgerInv, Ledger, Users, Holders
<1>3. p \in ValidOrders
  BY <1>2, FixedTermAssumption
<1>4. CallbackInfo(u, fl) \in Infos(DOMAIN users)["Bid"]
  BY LendInfo
<1> HIDE DEF fl, r, x, seqno
<1>5. s = Placed("Bid", p, u, fl)
  OBVIOUS
<1> HIDE DEF s
<1>6. /\ MarketStep(s, p)
      /\ Owed(book', queue') <= Owed(book, queue) + s.total_quote - base_filled(s)
      /\ \A v : Debt(v, book', queue') = Debt(v, book, queue)
  BY <1>1, <1>3, <1>4, <1>5, BidCommitted
<1>7. DOMAIN users' = DOMAIN users
  BY <1>1
<1>8. /\ MarketInv' /\ Owed(book', queue') \in Int
      /\ base_filled(s) \in Nat /\ s.base_posted \in Nat /\ s.total_quote \in Nat
  BY <1>6, <1>7, StepNumbers
<1>9. /\ users[u] \in MarginUser /\ clock \in Nat /\ vault \in Nat
      /\ notes \in [DOMAIN users -> Notes]
  BY DEF FixedTermInv, FundsInv, LedgerInv, Ledger, Users
<1>10. seqno \in Nat
  BY <1>9, UserNumbers DEF MarginUser, seqno
<1>11. Staked(s, p) \in Nat
  BY <1>8 DEF Staked
<1>12. r \in MarginUser /\ Keeps(users[u], r)
  BY <1>8, <1>9, <1>11, LendOrder DEF r
<1>13. x \in Nat
  BY <1>8, <1>9, <1>11 DEF x, Notes
<1>14. notes' \in [DOMAIN users -> Notes] /\ \A v \in DOMAIN users : notes'[v].claims = notes[v].claims
  BY <1>1, <1>9, <1>13, CollateralNoted
<1>15. KeptStep(u, r)
  BY <1>1, <1>12, <1>14 DEF KeptStep, Keeps
<1>16. /\ LedgerInv' /\ AccountedInv'
       /\ Total(EntitledOf(users')) = Total(EntitledOf(users)) + (Entitled(r) - Entitled(users[u]))
       /\ Entitled(r) \in Nat
  <2>1. r.pending = users[u].pending - 0
    BY <1>9, <1>12, UserNumbers DEF Keeps, MarginUser
  <2>2. \A v \in DOMAIN users : Debt(v, book', queue') = Debt(v, book, queue) - (IF v = u THEN 0 ELSE 0)
    <3>1. ASSUME NEW v \in DOMAIN users PROVE Debt(v, book, queue) \in Int
      <4>1. users[v] \in MarginUser /\ users[v].pending = Debt(v, book, queue)
        BY DEF FixedTermInv, LedgerInv, Ledger, Users, AccountedInv, Accounted
      <4> QED BY <4>1, UserNumbers DEF MarginUser
    <3> QED BY <1>6, <3>1
  <2> QED BY <1>15, <2>1, <2>2, KeptSteps
<1>17. /\ tickets' \in [Holders -> Nat] /\ DepositMap(deposits')
       /\ Total(tickets') \in Nat /\ Deposited(deposits') \in Nat
       /\ Total(tickets') + Deposited(deposits')
            <= Total(tickets) + Deposited(deposits) + base_filled(s)
  BY <1>1, <1>2, <1>8, <1>10, IssuedStep
<1>18. FundsInv'
  BY <1>1, <1>8, <1>9, <1>17 DEF FundsInv
<1>19. CoveredInv'
  <2>1. /\ Total(EntitledOf(users')) = Total(EntitledOf(users))
        /\ Total(Balances(loans')) = Total(Balances(loans))
        /\ vault' = vault + s.total_quote
    BY <1>1, <1>12, <1>16, TotalsTyped DEF Keeps
  <2>2. CoveredInv
    BY DEF FixedTermInv
  <2> QED BY <1>6, <1>8, <1>17, <2>1, <2>2, TotalsTyped DEF CoveredInv
<1> QED BY <1>8, <1>16, <1>18, <1>19 DEF FixedTermInv

\* a wallet's lend_order
LEMMA LendSignedStep ==
  ASSUME FixedTermInv, NEW w \in Wallets, NEW p \in LendOrders[w], lend_order_signed(w, p)
  PROVE  FixedTermInv'
<1> DEFINE fl == Flag("AUTO_STAKE", p.auto_stake)
           s == Placed("Bid", p, w, fl)
           seed == FreshSeed(w)
<1>1. /\ OrderAccepted(s) /\ Commit(s) /\ Issued(w, s, p, seed, 0, {})
      /\ vault' = vault + s.total_quote
      /\ UNCHANGED <<users, notes, loans, clock>>
  BY DEF lend_order_signed
<1>2. w \in Holders /\ p \in ValidOrders
  BY FixedTermAssumption DEF Holders
<1>3. DOMAIN users \subseteq MarginUsers /\ vault \in Nat /\ clock \in Nat
  BY DEF FixedTermInv, FundsInv, LedgerInv, Ledger, Users
<1>4. CallbackInfo(w, fl) \in Infos(DOMAIN users)["Bid"]
  <2>1. fl \in SUBSET Flags /\ fl \subseteq {"AUTO_STAKE"}
    BY DEF Flag, Flags
  <2> QED BY <1>2, <1>3, <2>1, OrderInfos
<1>5. s = Placed("Bid", p, w, fl)
  OBVIOUS
<1> HIDE DEF fl, seed, s
<1>6. /\ MarketStep(s, p)
      /\ Owed(book', queue') <= Owed(book, queue) + s.total_quote - base_filled(s)
      /\ \A v : Debt(v, book', queue') = Debt(v, book, queue)
  BY <1>1, <1>2, <1>4, <1>5, BidCommitted
<1>7. DOMAIN users' = DOMAIN users
  BY <1>1
<1>8. /\ MarketInv' /\ Owed(book', queue') \in Int /\ base_filled(s) \in Nat /\ s.total_quote \in Nat
  BY <1>6, <1>7, StepNumbers
<1>9. /\ tickets' \in [Holders -> Nat] /\ DepositMap(deposits')
      /\ Total(tickets') \in Nat /\ Deposited(deposits') \in Nat
      /\ Total(tickets') + Deposited(deposits')
           <= Total(tickets) + Deposited(deposits) + base_filled(s)
  BY <1>1, <1>2, <1>8, IssuedStep
<1>10. LedgerInv' /\ AccountedInv'
  BY <1>1, <1>3, <1>6, NoUserStep
<1>11. FundsInv'
  BY <1>1, <1>3, <1>8, <1>9 DEF FundsInv
<1>12. CoveredInv'
  <2>1. /\ Total(EntitledOf(users')) = Total(EntitledOf(users))
        /\ Total(Balances(loans')) = Total(Balances(loans))
        /\ vault' = vault + s.total_quote
    BY <1>1
  <2>2. CoveredInv
    BY DEF FixedTermInv
  <2> QED BY <1>6, <1>8, <1>9, <2>1, <2>2, TotalsTyped DEF CoveredInv
<1> QED BY <1>8, <1>10, <1>11, <1>12 DEF FixedTermInv

\* SellTicketsAccounts::sell_tickets
LEMMA SoldStep ==
  ASSUME FixedTermInv, NEW h \in Holders, NEW s, quote_filled(s) \in Nat, s.total_base \in Nat,
         TicketsSold(h, s)
  PROVE  /\ tickets' \in [Holders -> Nat] /\ Total(tickets') = Total(tickets) - s.total_base
         /\ vault' \in Nat /\ vault' = vault - quote_filled(s)
<1> DEFINE x == tickets[h] - s.total_base
<1>1. /\ tickets \in [Holders -> Nat] /\ vault \in Nat
  BY DEF FixedTermInv, FundsInv
<1>2. /\ vault >= quote_filled(s) /\ vault' = vault - quote_filled(s)
      /\ tickets[h] >= s.total_base /\ tickets' = [tickets EXCEPT ![h] = x]
  BY DEF TicketsSold
<1>3. x \in Nat /\ x - tickets[h] = 0 - s.total_base
  BY <1>1, <1>2
<1> HIDE DEF x
<1>4. tickets' \in [Holders -> Nat] /\ Total(tickets') = Total(tickets) + (x - tickets[h])
  BY <1>1, <1>2, <1>3, TicketsChanged
<1> QED BY <1>1, <1>2, <1>3, <1>4, TotalsTyped

\* a wallet's sell_tickets_order
LEMMA SellStep ==
  ASSUME FixedTermInv, NEW w \in Wallets, NEW p \in SellOrders[w], sell_tickets_order(w, p)
  PROVE  FixedTermInv'
<1> DEFINE s == Placed("Ask", p, w, {})
<1>1. /\ OrderAccepted(s) /\ Commit(s) /\ TicketsSold(w, s)
      /\ UNCHANGED <<users, notes, loans, deposits, clock>>
  BY DEF sell_tickets_order
<1>2. w \in Holders /\ p \in ValidOrders
  BY FixedTermAssumption DEF Holders
<1>3. DOMAIN users \subseteq MarginUsers /\ clock \in Nat /\ DepositMap(deposits)
  BY DEF FixedTermInv, FundsInv, LedgerInv, Ledger, Users
<1>4. CallbackInfo(w, {}) \in Infos(DOMAIN users)["Ask"]
  BY <1>2, <1>3, OrderInfos
<1>5. s = Placed("Ask", p, w, {})
  OBVIOUS
<1> HIDE DEF s
<1>6. /\ MarketStep(s, p)
      /\ Owed(book', queue') <= Owed(book, queue) + base_filled(s) - quote_filled(s)
                                  + (IF "NEW_DEBT" \in {} THEN 0 ELSE s.base_posted)
      /\ \A v : Debt(v, book', queue')
                  = Debt(v, book, queue) + (IF w = v /\ "NEW_DEBT" \in {} THEN s.base_posted ELSE 0)
  BY <1>1, <1>2, <1>4, <1>5, AskCommitted
<1>7. DOMAIN users' = DOMAIN users
  BY <1>1
<1>8. /\ MarketInv' /\ Owed(book', queue') \in Int /\ base_filled(s) \in Nat /\ quote_filled(s) \in Nat
      /\ s.base_posted \in Nat /\ s.total_base = base_filled(s) + s.base_posted /\ s.total_base \in Nat
  BY <1>6, <1>7, StepNumbers
<1>9. /\ tickets' \in [Holders -> Nat] /\ Total(tickets') = Total(tickets) - s.total_base
      /\ vault' \in Nat /\ vault' = vault - quote_filled(s)
  BY <1>1, <1>2, <1>8, SoldStep
<1>10. LedgerInv' /\ AccountedInv'
  <2>1. ASSUME NEW v \in DOMAIN users PROVE Debt(v, book', queue') = Debt(v, book, queue)
    <3>1. users[v] \in MarginUser /\ users[v].pending = Debt(v, book, queue)
      BY DEF FixedTermInv, LedgerInv, Ledger, Users, AccountedInv, Accounted
    <3>2. Debt(v, book, queue) \in Nat
      BY <3>1, UserNumbers DEF MarginUser
    <3> QED BY <1>6, <3>2
  <2> QED BY <1>1, <1>3, <2>1, NoUserStep
<1>11. FundsInv'
  BY <1>1, <1>3, <1>9 DEF FundsInv
<1>12. CoveredInv'
  <2>1. /\ Total(EntitledOf(users')) = Total(EntitledOf(users))
        /\ Total(Balances(loans')) = Total(Balances(loans))
        /\ Deposited(deposits') = Deposited(deposits)
    BY <1>1
  <2>2. CoveredInv
    BY DEF FixedTermInv
  <2> QED BY <1>6, <1>8, <1>9, <2>1, <2>2, TotalsTyped DEF CoveredInv
<1> QED BY <1>8, <1>10, <1>11, <1>12 DEF FixedTermInv

\* margin_sell_tickets_order
LEMMA MarginSellStep ==
  ASSUME FixedTermInv, NEW u \in DOMAIN users, NEW p \in SellOrders[u], margin_sell_tickets_order(u, p)
  PROVE  FixedTermInv'
<1> DEFINE s == Placed("Ask", p, u, {"MARGIN"})
           r == sell_tickets(users[u], quote_posted(s))
           x == notes[u].ticket_collateral + quote_posted(s)
<1>1. /\ OrderAccepted(s) /\ Commit(s) /\ TicketsSold(u, s)
      /\ users' = [users EXCEPT ![u] = r]
      /\ notes' = [notes EXCEPT ![u].ticket_collateral = x]
      /\ UNCHANGED <<loans, deposits, clock>>
  BY DEF margin_sell_tickets_order
<1>2. DOMAIN users \subseteq MarginUsers /\ u \in MarginUsers /\ u \in Holders
  BY DEF FixedTermInv, LedgerInv, Ledger, Users, Holders
<1>3. p \in ValidOrders
  BY <1>2, FixedTermAssumption
<1>4. CallbackInfo(u, {"MARGIN"}) \in Infos(DOMAIN users)["Ask"]
  <2>1. {"MARGIN"} \in SUBSET Flags
    BY DEF Flags
  <2> QED BY <1>2, <2>1, OrderInfos
<1>5. s = Placed("Ask", p, u, {"MARGIN"})
  OBVIOUS
<1> HIDE DEF s, r, x
<1>6. /\ MarketStep(s, p)
      /\ Owed(book', queue') <= Owed(book, queue) + base_filled(s) - quote_filled(s)
                                  + (IF "NEW_DEBT" \in {"MARGIN"} THEN 0 ELSE s.base_posted)
      /\ \A v : Debt(v, book', queue')
                  = Debt(v, book, queue) + (IF u = v /\ "NEW_DEBT" \in {"MARGIN"} THEN s.base_posted ELSE 0)
  BY <1>1, <1>3, <1>4, <1>5, AskCommitted
<1>7. DOMAIN users' = DOMAIN users
  BY <1>1
<1>8. /\ MarketInv' /\ Owed(book', queue') \in Int /\ base_filled(s) \in Nat /\ quote_filled(s) \in Nat
      /\ s.base_posted \in Nat /\ s.total_base = base_filled(s) + s.base_posted /\ s.total_base \in Nat
      /\ quote_posted(s) \in Nat
  BY <1>6, <1>7, StepNumbers
<1>9. /\ tickets' \in [Holders -> Nat] /\ Total(tickets') = Total(tickets) - s.total_base
      /\ vault' \in Nat /\ vault' = vault - quote_filled(s)
  BY <1>1, <1>2, <1>8, SoldStep
<1>10. /\ users[u] \in MarginUser /\ clock \in Nat /\ DepositMap(deposits)
       /\ notes \in [DOMAIN users -> Notes]
  BY DEF FixedTermInv, FundsInv, LedgerInv, Ledger, Users
<1>11. r \in MarginUser /\ Keeps(users[u], r)
  BY <1>8, <1>10, LendOrder DEF r
<1>12. x \in Nat
  BY <1>8, <1>10 DEF x, Notes
<1>13. notes' \in [DOMAIN users -> Notes] /\ \A v \in DOMAIN users : notes'[v].claims = notes[v].claims
  BY <1>1, <1>10, <1>12, CollateralNoted
<1>14. KeptStep(u, r)
  BY <1>1, <1>11, <1>13 DEF KeptStep, Keeps
<1>15. /\ LedgerInv' /\ AccountedInv'
       /\ Total(EntitledOf(users')) = Total(EntitledOf(users)) + (Entitled(r) - Entitled(users[u]))
       /\ Entitled(r) \in Nat
  <2>1. r.pending = users[u].pending - 0
    BY <1>10, <1>11, UserNumbers DEF Keeps, MarginUser
  <2>2. \A v \in DOMAIN users : Debt(v, book', queue') = Debt(v, book, queue) - (IF v = u THEN 0 ELSE 0)
    <3>1. ASSUME NEW v \in DOMAIN users PROVE Debt(v, book, queue) \in Int
      <4>1. users[v] \in MarginUser /\ users[v].pending = Debt(v, book, queue)
        BY DEF FixedTermInv, LedgerInv, Ledger, Users, AccountedInv, Accounted
      <4> QED BY <4>1, UserNumbers DEF MarginUser
    <3> QED BY <1>6, <3>1
  <2> QED BY <1>14, <2>1, <2>2, KeptSteps
<1>16. FundsInv'
  BY <1>1, <1>9, <1>10 DEF FundsInv
<1>17. CoveredInv'
  <2>1. /\ Total(EntitledOf(users')) = Total(EntitledOf(users))
        /\ Total(Balances(loans')) = Total(Balances(loans))
        /\ Deposited(deposits') = Deposited(deposits)
    BY <1>1, <1>11, <1>15, TotalsTyped DEF Keeps
  <2>2. CoveredInv
    BY DEF FixedTermInv
  <2> QED BY <1>6, <1>8, <1>9, <2>1, <2>2, TotalsTyped DEF CoveredInv
<1> QED BY <1>8, <1>15, <1>16, <1>17 DEF FixedTermInv

\* cancel_order
LEMMA CancelStep ==
  ASSUME FixedTermInv, NEW side \in Sides, NEW i \in DOMAIN book[side], cancel_order(side, i)
  PROVE  FixedTermInv'
<1>1. /\ Market(book, queue, DOMAIN users) /\ DOMAIN users \subseteq MarginUsers /\ clock \in Nat
      /\ Len(queue) <= QueueCapacity /\ nonce \in Nat
  BY DEF FixedTermInv, MarketInv, FundsInv, LedgerInv, Ledger, Users
<1>2. Len(queue) < QueueCapacity /\ UNCHANGED <<nonce, users, notes, loans, deposits, tickets, vault, clock>>
  BY DEF cancel_order
<1>3. /\ Market(book', queue', DOMAIN users) /\ Len(queue') = Len(queue) + 1
      /\ Owed(book', queue') = Owed(book, queue)
      /\ \A v : Debt(v, book', queue') = Debt(v, book, queue)
  <2>1. book' = BookWithout(book, side, i) /\ queue' = WithOut(book, queue, side, i)
    BY DEF cancel_order, BookWithout, WithOut
  <2>2. IsOrder(book, side, i)
    BY DEF IsOrder
  <2>3. Cancels(book, queue, BookWithout(book, side, i), WithOut(book, queue, side, i), DOMAIN users)
    BY <1>1, <2>2, OrderCancelled
  <2>4. Cancels(book, queue, book', queue', DOMAIN users)
    BY <2>1, <2>3
  <2> QED BY <2>4 DEF Cancels
<1>4. MarketInv'
  <2>1. Len(queue) \in Nat /\ QueueCapacity \in Nat
    BY <1>1, FixedTermAssumption DEF Market
  <2> QED BY <1>1, <1>2, <1>3, <2>1 DEF MarketInv
<1>5. LedgerInv' /\ AccountedInv'
  BY <1>1, <1>2, <1>3, NoUserStep
<1>6. FundsInv' /\ CoveredInv'
  BY <1>2, <1>3 DEF FixedTermInv, FundsInv, CoveredInv
<1> QED BY <1>4, <1>5, <1>6 DEF FixedTermInv


-----------------------------------------------------------------------------
(* Events keep the invariant *)

\* what the parts of an event are when D have accounts
EventFacts(e, D) ==
  /\ e.tag \in {"Fill", "Out"} /\ e.side \in Sides /\ e.base \in Nat /\ EventQuote(e) \in Nat
  /\ e.tag = "Fill" => e.base \in Nat \ {0}
  /\ e.info.owner \in Holders /\ e.info.flags \in SUBSET Flags
  /\ IsMargin(e.info) => e.info.owner \in D
  /\ IsDebt(e.info) => e.side = "Ask" /\ IsMargin(e.info)
  /\ "AUTO_STAKE" \in e.info.flags => e.side = "Bid"

\* An event of the queue is of an order that was in the book.
LEMMA EventIs ==
  ASSUME NEW D, NEW e \in Events(D)
  PROVE  EventFacts(e, D)
<1>1. PICK side \in Sides : e \in Event(Infos(D)[side], side)
  BY DEF Events, Sides
<1>2. /\ e.tag \in {"Fill", "Out"} /\ e.side = side /\ e.info \in Infos(D)[side]
      /\ e.base \in Nat /\ e.price \in Nat \ {0} /\ (e.tag = "Fill" => e.base \in Nat \ {0})
      /\ EventQuote(e) \in Nat
  BY <1>1, EventParts
<1>3. /\ e.info.owner \in Holders /\ e.info.flags \in SUBSET Flags
      /\ "MARGIN" \in e.info.flags => e.info.owner \in D
      /\ "NEW_DEBT" \in e.info.flags => side = "Ask" /\ "MARGIN" \in e.info.flags
      /\ "AUTO_STAKE" \in e.info.flags => side = "Bid"
  BY <1>2 DEF Infos
<1> QED BY <1>2, <1>3 DEF EventFacts, IsMargin, IsDebt

\* The first event is taken from the queue.
EventStep(e) ==
  /\ queue # <<>> /\ e = next_event(queue) /\ queue' = pop_events(queue)
  /\ UNCHANGED <<book, nonce, notes, clock>>

\* The market without it
PoppedMarket(e) ==
  /\ EventFacts(e, DOMAIN users)
  /\ Market(book', queue', DOMAIN users) /\ Len(queue') <= QueueCapacity /\ nonce' \in Nat
  /\ Owed(book', queue') = Owed(book, queue) - (OwedForEvent(e) - DueForEvent(e))
  /\ OwedForEvent(e) - DueForEvent(e) \in Int
  /\ \A v : Debt(v, book', queue') = Debt(v, book, queue) - DebtIf(v, e)

\* What is left of the market.
LEMMA Popped ==
  ASSUME FixedTermInv, NEW e, EventStep(e)
  PROVE  PoppedMarket(e)
<1>1. /\ Market(book, queue, DOMAIN users) /\ DOMAIN users \subseteq MarginUsers
      /\ Len(queue) <= QueueCapacity /\ nonce \in Nat
  BY DEF FixedTermInv, MarketInv, LedgerInv, Ledger, Users
<1>2. /\ e \in Events(DOMAIN users) /\ Market(book, queue', DOMAIN users) /\ Len(queue') = Len(queue) - 1
      /\ Owed(book, queue') = Owed(book, queue) - (OwedForEvent(e) - DueForEvent(e))
      /\ OwedForEvent(e) - DueForEvent(e) \in Int
      /\ \A v : Debt(v, book, queue') = Debt(v, book, queue) - DebtIf(v, e)
  <2>1. queue # <<>> /\ e = next_event(queue) /\ queue' = pop_events(queue)
    BY DEF EventStep
  <2>2. Pops(book, queue, next_event(queue), pop_events(queue), DOMAIN users)
    BY <1>1, <2>1, EventPopped
  <2>3. Pops(book, queue, e, queue', DOMAIN users)
    BY <2>1, <2>2
  <2> QED BY <2>3 DEF Pops
<1>3. EventFacts(e, DOMAIN users)
  BY <1>2, EventIs
<1>4. Len(queue') <= QueueCapacity
  <2>1. Len(queue) \in Nat /\ QueueCapacity \in Nat
    BY <1>1, FixedTermAssumption DEF Market
  <2> QED BY <1>1, <1>2, <2>1
<1>5. book' = book /\ nonce' = nonce
  BY DEF EventStep
<1> QED BY <1>1, <1>2, <1>3, <1>4, <1>5 DEF PoppedMarket

\* A user's debt is a number.
LEMMA DebtNat ==
  ASSUME FixedTermInv, NEW v \in DOMAIN users
  PROVE  Debt(v, book, queue) \in Nat /\ users[v].pending = Debt(v, book, queue)
<1>1. users[v] \in MarginUser /\ users[v].pending = Debt(v, book, queue)
  BY DEF FixedTermInv, LedgerInv, Ledger, Users, AccountedInv, Accounted
<1> QED BY <1>1, UserNumbers DEF MarginUser

\* The record of the event's owner changes and its loans do not.
LEMMA OwnerKept ==
  ASSUME FixedTermInv, NEW e, EventStep(e), NEW r \in MarginUser, IsMargin(e.info),
         users' = [users EXCEPT ![e.info.owner] = r], loans' = loans,
         SameDebt(users[e.info.owner], r),
         r.pending = users[e.info.owner].pending - (IF IsDebt(e.info) THEN e.base ELSE 0)
  PROVE  /\ MarketInv' /\ LedgerInv' /\ AccountedInv'
         /\ Total(EntitledOf(users')) = Total(EntitledOf(users)) + (Entitled(r) - Entitled(users[e.info.owner]))
         /\ Entitled(r) \in Nat /\ Entitled(users[e.info.owner]) \in Nat
<1> DEFINE u == e.info.owner
           x == IF IsDebt(e.info) THEN e.base ELSE 0
<1>1. PoppedMarket(e)
  BY Popped
<1>2. u \in DOMAIN users /\ x \in Nat
  BY <1>1 DEF PoppedMarket, EventFacts
<1>3. notes \in [DOMAIN users -> Notes] /\ notes' = notes /\ clock' = clock
  BY DEF FixedTermInv, LedgerInv, Ledger, EventStep
<1>4. KeptStep(u, r)
  BY <1>2, <1>3 DEF KeptStep
<1>5. \A v \in DOMAIN users : Debt(v, book', queue') = Debt(v, book, queue) - (IF v = u THEN x ELSE 0)
  <2>1. \A v : DebtIf(v, e) = IF v = u THEN x ELSE 0
    BY DEF DebtIf
  <2> QED BY <1>1, <2>1 DEF PoppedMarket
<1>6. r.pending = users[u].pending - x
  OBVIOUS
<1> HIDE DEF u, x
<1>7. /\ LedgerInv' /\ AccountedInv' /\ DOMAIN users' = DOMAIN users
      /\ Total(EntitledOf(users')) = Total(EntitledOf(users)) + (Entitled(r) - Entitled(users[u]))
      /\ Entitled(r) \in Nat /\ Entitled(users[u]) \in Nat
  BY <1>2, <1>4, <1>5, <1>6, KeptSteps
<1>8. MarketInv'
  BY <1>1, <1>7 DEF PoppedMarket, MarketInv
<1> QED BY <1>7, <1>8 DEF u

\* handle_margin_out
LEMMA MarginOutStep ==
  ASSUME FixedTermInv, NEW e, EventStep(e), e.tag = "Out", IsMargin(e.info), handle_margin_out(e)
  PROVE  FixedTermInv'
<1> DEFINE u == e.info.owner
           debt == IsDebt(e.info)
           r == IF e.side = "Ask" THEN cancel_borrow_order(users[u], EventQuote(e), e.base, debt)
                                  ELSE cancel_lend_order(users[u], EventQuote(e), e.base)
           owed == IF e.side = "Bid" THEN EventQuote(e) ELSE IF debt THEN 0 ELSE e.base
<1>1. PoppedMarket(e)
  BY Popped
<1>2. /\ e.side \in Sides /\ e.base \in Nat /\ EventQuote(e) \in Nat /\ u \in DOMAIN users
      /\ debt => e.side = "Ask"
  BY <1>1 DEF PoppedMarket, EventFacts
<1>3. users[u] \in MarginUser
  BY <1>2 DEF FixedTermInv, LedgerInv, Ledger, Users
<1>4. /\ Checked(r) /\ users' = [users EXCEPT ![u] = r]
      /\ UNCHANGED <<loans, deposits, tickets, vault>>
  BY DEF handle_margin_out, IsDebt
<1>5. debt \in BOOLEAN
  BY DEF IsDebt
<1>6. /\ r \in UserOf(Int) /\ SameDebt(users[u], r)
      /\ r.pending = users[u].pending - (IF debt THEN e.base ELSE 0)
      /\ Entitled(r) = Entitled(users[u]) + owed
  <2>0. users[u].pending \in Nat /\ Entitled(users[u]) \in Nat
    BY <1>3, UserNumbers DEF MarginUser, Entitled
  <2>1. CASE e.side = "Ask"
    <3> DEFINE a == cancel_borrow_order(users[u], EventQuote(e), e.base, debt)
    <3>1. /\ a \in UserOf(Int) /\ SameDebt(users[u], a)
          /\ IF debt THEN a.pending = users[u].pending - e.base /\ Entitled(a) = Entitled(users[u])
                     ELSE a.pending = users[u].pending /\ Entitled(a) = Entitled(users[u]) + e.base
      BY <1>2, <1>3, <1>5, CancelBorrow
    <3>2. r = a
      BY <2>1
    <3> HIDE DEF a, r
    <3> QED BY <1>5, <2>0, <2>1, <3>1, <3>2
  <2>2. CASE e.side = "Bid"
    <3> DEFINE a == cancel_lend_order(users[u], EventQuote(e), e.base)
    <3>1. /\ a \in UserOf(Int) /\ a.pending = users[u].pending /\ SameDebt(users[u], a)
          /\ Entitled(a) = Entitled(users[u]) + EventQuote(e)
      BY <1>2, <1>3, CancelLend
    <3>2. r = a
      BY <2>2
    <3> HIDE DEF a, r
    <3> QED BY <1>2, <1>5, <2>0, <2>2, <3>1, <3>2
  <2> QED BY <1>2, <2>1, <2>2 DEF Sides
<1>7. OwedForEvent(e) = owed /\ DueForEvent(e) = 0 /\ owed \in Nat
  BY <1>2 DEF OwedForEvent, DueForEvent, OwedForOrder, EventQuote, Sides
<1> HIDE DEF r, owed
<1>8. r \in MarginUser
  BY <1>4, <1>6, CheckedUser
<1>9. /\ MarketInv' /\ LedgerInv' /\ AccountedInv'
      /\ Total(EntitledOf(users')) = Total(EntitledOf(users)) + (Entitled(r) - Entitled(users[u]))
      /\ Entitled(r) \in Nat /\ Entitled(users[u]) \in Nat
  BY <1>4, <1>6, <1>8, OwnerKept
<1>10. FundsInv'
  BY <1>4 DEF FixedTermInv, FundsInv, EventStep
<1>11. CoveredInv'
  <2>1. Owed(book', queue') = Owed(book, queue) - owed
    BY <1>1, <1>7 DEF PoppedMarket
  <2>2. CoveredInv
    BY DEF FixedTermInv
  <2> QED BY <1>4, <1>6, <1>7, <1>9, <2>1, <2>2, TotalsTyped DEF CoveredInv
<1> QED BY <1>9, <1>10, <1>11 DEF FixedTermInv

\* A wallet's event: nothing changes for margin users.
LEMMA WalletEvent ==
  ASSUME FixedTermInv, NEW e, EventStep(e), ~IsMargin(e.info), UNCHANGED <<users, loans>>
  PROVE  MarketInv' /\ LedgerInv' /\ AccountedInv' /\ PoppedMarket(e) /\ ~IsDebt(e.info)
<1>1. PoppedMarket(e)
  BY Popped
<1>2. ~IsDebt(e.info)
  BY <1>1 DEF PoppedMarket, EventFacts
<1>3. MarketInv'
  BY <1>1 DEF PoppedMarket, MarketInv
<1>4. \A v \in DOMAIN users : Debt(v, book', queue') = Debt(v, book, queue)
  <2>1. \A v : DebtIf(v, e) = 0
    BY <1>2 DEF DebtIf
  <2> QED BY <1>1, <2>1, DebtNat DEF PoppedMarket
<1>5. LedgerInv' /\ AccountedInv'
  <2>1. clock \in Nat /\ clock' = clock /\ UNCHANGED <<users, notes, loans>>
    BY DEF FixedTermInv, FundsInv, EventStep
  <2> QED BY <1>4, <2>1, NoUserStep
<1> QED BY <1>1, <1>2, <1>3, <1>5

\* handle_signer_out
LEMMA SignerOutStep ==
  ASSUME FixedTermInv, NEW e, EventStep(e), e.tag = "Out", ~IsMargin(e.info), handle_signer_out(e)
  PROVE  FixedTermInv'
<1> DEFINE w == e.info.owner
           x == tickets[w] + e.base
<1>1. UNCHANGED <<users, loans, deposits>>
  BY DEF handle_signer_out
<1>2. MarketInv' /\ LedgerInv' /\ AccountedInv' /\ PoppedMarket(e) /\ ~IsDebt(e.info)
  BY <1>1, WalletEvent
<1>3. e.side \in Sides /\ e.base \in Nat /\ EventQuote(e) \in Nat /\ w \in Holders
  BY <1>2 DEF PoppedMarket, EventFacts
<1>4. /\ tickets \in [Holders -> Nat] /\ vault \in Nat /\ DepositMap(deposits) /\ clock \in Nat
      /\ clock' = clock
  BY DEF FixedTermInv, FundsInv, EventStep
<1>5. /\ OwedForEvent(e) = (IF e.side = "Bid" THEN EventQuote(e) ELSE e.base) /\ DueForEvent(e) = 0
  BY <1>2, <1>3 DEF OwedForEvent, DueForEvent, OwedForOrder, EventQuote, Sides
<1>6. CoveredInv
  BY DEF FixedTermInv
<1>7. CASE e.side = "Bid"
  <2>1. vault' \in Nat /\ vault' = vault - EventQuote(e) /\ tickets' = tickets
    BY <1>3, <1>4, <1>7 DEF handle_signer_out
  <2>2. FundsInv'
    BY <1>1, <1>4, <2>1 DEF FundsInv
  <2>3. Owed(book', queue') = Owed(book, queue) - EventQuote(e)
    BY <1>2, <1>3, <1>5, <1>7 DEF PoppedMarket
  <2>4. CoveredInv'
    BY <1>1, <1>3, <1>6, <2>1, <2>3, TotalsTyped DEF CoveredInv
  <2> QED BY <1>2, <2>2, <2>4 DEF FixedTermInv
<1>8. CASE e.side = "Ask"
  <2>1. vault' = vault /\ tickets' = [tickets EXCEPT ![w] = x]
    BY <1>3, <1>4, <1>8 DEF handle_signer_out
  <2>2. x \in Nat /\ x - tickets[w] = e.base
    BY <1>3, <1>4
  <2> HIDE DEF x
  <2>3. tickets' \in [Holders -> Nat] /\ Total(tickets') = Total(tickets) + (x - tickets[w])
    BY <1>3, <1>4, <2>1, <2>2, TicketsChanged
  <2>4. FundsInv'
    BY <1>1, <1>4, <2>1, <2>3 DEF FundsInv
  <2>5. Owed(book', queue') = Owed(book, queue) - e.base
    BY <1>2, <1>3, <1>5, <1>8 DEF PoppedMarket
  <2>6. CoveredInv'
    BY <1>1, <1>3, <1>6, <2>1, <2>2, <2>3, <2>5, TotalsTyped DEF CoveredInv
  <2> QED BY <1>2, <2>4, <2>6 DEF FixedTermInv
<1> QED BY <1>3, <1>7, <1>8 DEF Sides

\* handle_signer_fill
LEMMA SignerFillStep ==
  ASSUME FixedTermInv, NEW e, EventStep(e), e.tag = "Fill", ~IsMargin(e.info), handle_signer_fill(e)
  PROVE  FixedTermInv'
<1> DEFINE w == e.info.owner
           stake == "AUTO_STAKE" \in e.info.flags
           x == tickets[w] + e.base
           d == TermDeposit(w, 0, e.base, e.info.flags)
           k == <<w, FreshSeed(w)>>
<1>1. UNCHANGED <<users, loans>>
  BY DEF handle_signer_fill
<1>2. MarketInv' /\ LedgerInv' /\ AccountedInv' /\ PoppedMarket(e) /\ ~IsDebt(e.info)
  BY <1>1, WalletEvent
<1>3. /\ e.side \in Sides /\ e.base \in Nat \ {0} /\ EventQuote(e) \in Nat /\ w \in Holders
      /\ stake => e.side = "Bid"
  BY <1>2 DEF PoppedMarket, EventFacts
<1>4. /\ tickets \in [Holders -> Nat] /\ vault \in Nat /\ DepositMap(deposits) /\ clock \in Nat
      /\ clock' = clock
  BY DEF FixedTermInv, FundsInv, EventStep
<1>5. /\ OwedForEvent(e) = (IF e.side = "Bid" THEN e.base ELSE EventQuote(e)) /\ DueForEvent(e) = 0
  BY <1>2, <1>3 DEF OwedForEvent, DueForEvent, Sides
<1>6. CoveredInv
  BY DEF FixedTermInv
<1>7. CASE e.side = "Ask"
  <2>1. vault' \in Nat /\ vault' = vault - EventQuote(e) /\ tickets' = tickets /\ deposits' = deposits
    BY <1>3, <1>4, <1>7 DEF handle_signer_fill
  <2>2. FundsInv'
    BY <1>4, <2>1 DEF FundsInv
  <2>3. Owed(book', queue') = Owed(book, queue) - EventQuote(e)
    BY <1>2, <1>3, <1>5, <1>7 DEF PoppedMarket
  <2>4. CoveredInv'
    BY <1>1, <1>3, <1>6, <2>1, <2>3, TotalsTyped DEF CoveredInv
  <2> QED BY <1>2, <2>2, <2>4 DEF FixedTermInv
<1>8. CASE e.side = "Bid"
  <2>1. vault' = vault
    BY <1>4, <1>8 DEF handle_signer_fill
  <2>2. Owed(book', queue') = Owed(book, queue) - e.base
    BY <1>2, <1>3, <1>5, <1>8 DEF PoppedMarket
  <2>3. CASE ~stake
    <3>1. tickets' = [tickets EXCEPT ![w] = x] /\ deposits' = deposits
      BY <1>8, <2>3 DEF handle_signer_fill
    <3>2. x \in Nat /\ x - tickets[w] = e.base
      BY <1>3, <1>4
    <3> HIDE DEF x
    <3>3. tickets' \in [Holders -> Nat] /\ Total(tickets') = Total(tickets) + (x - tickets[w])
      BY <1>3, <1>4, <3>1, <3>2, TicketsChanged
    <3>4. FundsInv'
      BY <1>4, <2>1, <3>1, <3>3 DEF FundsInv
    <3>5. CoveredInv'
      BY <1>1, <1>3, <1>6, <2>1, <2>2, <3>1, <3>2, <3>3, TotalsTyped DEF CoveredInv
    <3> QED BY <1>2, <3>4, <3>5 DEF FixedTermInv
  <2>4. CASE stake
    <3>1. tickets' = tickets /\ deposits' = Put(deposits, k, d)
      BY <1>8, <2>4 DEF handle_signer_fill
    <3>2. d \in TermDeposits /\ d.amount = e.base
      BY <1>3, <1>4, NewTermDeposit
    <3> HIDE DEF d, k
    <3>3. DepositMap(deposits') /\ Deposited(deposits') <= Deposited(deposits) + d.amount
      BY <1>4, <3>1, <3>2, DepositPut
    <3>4. Deposited(deposits') \in Nat
      BY <3>3, DepositSums
    <3>5. FundsInv'
      BY <1>4, <2>1, <3>1, <3>3 DEF FundsInv
    <3>6. CoveredInv'
      BY <1>1, <1>3, <1>6, <2>1, <2>2, <3>1, <3>2, <3>3, <3>4, TotalsTyped DEF CoveredInv
    <3> QED BY <1>2, <3>5, <3>6 DEF FixedTermInv
  <2> QED BY <2>3, <2>4
<1> QED BY <1>3, <1>7, <1>8 DEF Sides


\* handle_margin_fill of a bid
LEMMA LendFillStep ==
  ASSUME FixedTermInv, NEW e, EventStep(e), e.tag = "Fill", IsMargin(e.info), handle_margin_fill(e),
         e.side = "Bid"
  PROVE  FixedTermInv'
<1> DEFINE u == e.info.owner
           stake == "AUTO_STAKE" \in e.info.flags
           seqno == users[u].next_deposit_seqno
           r == maker_fill_lend_order(users[u], stake, e.base)
           d == TermDeposit(u, seqno, e.base, e.info.flags)
           k == <<u, seqno>>
<1>1. PoppedMarket(e)
  BY Popped
<1>2. /\ e.base \in Nat \ {0} /\ u \in DOMAIN users /\ u \in Holders /\ ~IsDebt(e.info)
  BY <1>1 DEF PoppedMarket, EventFacts
<1>3. /\ users[u] \in MarginUser /\ vault \in Nat /\ clock \in Nat /\ clock' = clock
      /\ tickets \in [Holders -> Nat] /\ DepositMap(deposits) /\ CoveredInv
  BY <1>2 DEF FixedTermInv, FundsInv, LedgerInv, Ledger, Users, EventStep
<1>4. /\ Checked(r) /\ users' = [users EXCEPT ![u] = r]
      /\ deposits' = (IF stake THEN Put(deposits, k, d) ELSE deposits)
      /\ loans' = loans /\ vault' = vault - 0 /\ tickets' = tickets
  BY <1>2 DEF handle_margin_fill, Maker, IsDebt
<1>5. /\ r \in UserOf(Int) /\ r.pending = users[u].pending /\ SameDebt(users[u], r)
      /\ Entitled(r) = Entitled(users[u]) + (IF stake THEN 0 ELSE e.base)
  <2>1. stake \in BOOLEAN /\ e.base \in Nat
    BY <1>2
  <2> DEFINE m == users[u]
             x == e.base
  <2> HIDE DEF stake, m, x
  <2>2. LET f == maker_fill_lend_order(m, stake, x)
        IN  /\ f \in UserOf(Int) /\ f.pending = m.pending /\ SameDebt(m, f)
            /\ Entitled(f) = Entitled(m) + (IF stake THEN 0 ELSE x)
    BY <1>3, <2>1, MakerFillLend DEF m, x
  <2> QED BY <2>2 DEF m, x
<1>6. seqno \in Nat /\ users[u].pending \in Nat
  BY <1>3, UserNumbers DEF MarginUser
<1>7. d \in TermDeposits /\ d.amount = e.base
  BY <1>2, <1>3, <1>6, NewTermDeposit
<1> HIDE DEF r, d, k
<1>8. r \in MarginUser
  BY <1>4, <1>5, CheckedUser
<1>9. /\ MarketInv' /\ LedgerInv' /\ AccountedInv'
      /\ Total(EntitledOf(users')) = Total(EntitledOf(users)) + (Entitled(r) - Entitled(users[u]))
      /\ Entitled(r) \in Nat /\ Entitled(users[u]) \in Nat
  <2>1. r.pending = users[u].pending - (IF IsDebt(e.info) THEN e.base ELSE 0)
    BY <1>2, <1>5, <1>6
  <2> QED BY <1>4, <1>5, <1>8, <2>1, OwnerKept
<1>10. Owed(book', queue') = Owed(book, queue) - e.base
  <2>1. OwedForEvent(e) = e.base /\ DueForEvent(e) = 0
    BY <1>2 DEF OwedForEvent, DueForEvent
  <2> QED BY <1>1, <1>2, <2>1 DEF PoppedMarket
<1>11. /\ DepositMap(deposits') /\ Deposited(deposits') \in Nat
       /\ Deposited(deposits') <= Deposited(deposits) + (IF stake THEN e.base ELSE 0)
  <2>1. CASE stake
    <3>1. DepositMap(deposits') /\ Deposited(deposits') <= Deposited(deposits) + d.amount
      BY <1>3, <1>4, <1>7, <2>1, DepositPut
    <3> QED BY <1>7, <2>1, <3>1, DepositSums
  <2>2. CASE ~stake
    BY <1>3, <1>4, <2>2, TotalsTyped
  <2> QED BY <2>1, <2>2
<1>12. FundsInv'
  BY <1>3, <1>4, <1>11 DEF FundsInv
<1>13. CoveredInv'
  BY <1>2, <1>3, <1>4, <1>5, <1>9, <1>10, <1>11, TotalsTyped DEF CoveredInv
<1> QED BY <1>9, <1>12, <1>13 DEF FixedTermInv

\* handle_margin_fill of a ticket sale
LEMMA SaleFillStep ==
  ASSUME FixedTermInv, NEW e, EventStep(e), e.tag = "Fill", IsMargin(e.info), handle_margin_fill(e),
         e.side = "Ask", ~IsDebt(e.info)
  PROVE  FixedTermInv'
<1> DEFINE u == e.info.owner
           q == EventQuote(e)
           r == maker_fill_borrow_order(users[u], FALSE, loan_to_disburse(q), q, e.base, clock + BorrowTenor)
<1>1. PoppedMarket(e)
  BY Popped
<1>2. /\ e.base \in Nat \ {0} /\ q \in Nat /\ u \in DOMAIN users
      /\ "AUTO_STAKE" \notin e.info.flags /\ "NEW_DEBT" \notin e.info.flags
  BY <1>1 DEF PoppedMarket, EventFacts, IsDebt
<1>3. /\ users[u] \in MarginUser /\ vault \in Nat /\ clock \in Nat /\ clock' = clock
      /\ tickets \in [Holders -> Nat] /\ DepositMap(deposits) /\ CoveredInv
  BY <1>2 DEF FixedTermInv, FundsInv, LedgerInv, Ledger, Users, EventStep
<1>4. /\ Checked(r) /\ users' = [users EXCEPT ![u] = r]
      /\ deposits' = deposits /\ loans' = loans /\ vault' = vault - 0 /\ tickets' = tickets
  <2>1. ("NEW_DEBT" \in e.info.flags) = FALSE
    BY <1>2
  <2> QED BY <1>2, <2>1 DEF handle_margin_fill, Maker
<1>5. clock + BorrowTenor \in Nat /\ loan_to_disburse(q) \in Nat /\ loan_to_disburse(q) <= q
  BY <1>2, <1>3, FixedTermAssumption, Disbursed
<1>6. /\ r \in UserOf(Int) /\ Entitled(r) = Entitled(users[u]) + loan_to_disburse(q)
      /\ r.pending = users[u].pending /\ SameDebt(users[u], r)
  <2> DEFINE m == users[u]
             x == e.base
             disb == loan_to_disburse(q)
             t == clock + BorrowTenor
             new == FALSE
  <2>1. m \in MarginUser /\ x \in Nat /\ disb \in Nat /\ t \in Nat /\ q \in Nat /\ new \in BOOLEAN /\ ~new
    BY <1>2, <1>3, <1>5
  <2> HIDE DEF m, x, q, disb, t, new
  <2>2. LET f == maker_fill_borrow_order(m, new, disb, q, x, t)
        IN  SaleFilled(m, f, disb)
    BY <2>1, MakerFillBorrow
  <2> QED BY <2>2 DEF m, x, disb, t, new, SaleFilled
<1>7. users[u].pending \in Nat
  BY <1>3, UserNumbers DEF MarginUser
<1> HIDE DEF r, q
<1>8. r \in MarginUser
  BY <1>4, <1>6, CheckedUser
<1>9. /\ MarketInv' /\ LedgerInv' /\ AccountedInv'
      /\ Total(EntitledOf(users')) = Total(EntitledOf(users)) + (Entitled(r) - Entitled(users[u]))
      /\ Entitled(r) \in Nat /\ Entitled(users[u]) \in Nat
  <2>1. r.pending = users[u].pending - (IF IsDebt(e.info) THEN e.base ELSE 0)
    BY <1>6, <1>7
  <2> QED BY <1>4, <1>6, <1>8, <2>1, OwnerKept
<1>10. Owed(book', queue') = Owed(book, queue) - q
  <2>1. OwedForEvent(e) = q /\ DueForEvent(e) = 0
    BY DEF OwedForEvent, DueForEvent, q
  <2> QED BY <1>1, <1>2, <2>1 DEF PoppedMarket
<1>11. FundsInv'
  BY <1>3, <1>4 DEF FundsInv
<1>12. CoveredInv'
  BY <1>2, <1>3, <1>4, <1>5, <1>6, <1>9, <1>10, TotalsTyped DEF CoveredInv
<1> QED BY <1>9, <1>11, <1>12 DEF FixedTermInv

\* handle_margin_fill of a borrow order
LEMMA BorrowFillStep ==
  ASSUME FixedTermInv, NEW e, EventStep(e), e.tag = "Fill", IsMargin(e.info), handle_margin_fill(e),
         IsDebt(e.info)
  PROVE  FixedTermInv'
<1> DEFINE u == e.info.owner
           q == EventQuote(e)
           disb == loan_to_disburse(q)
           m == users[u]
           r == maker_fill_borrow_order(m, TRUE, disb, q, e.base, clock + BorrowTenor)
           l == TermLoan(e.base, "AUTO_ROLL" \in e.info.flags)
           lt == Put(loans, <<u, m.next_new_term_loan_seqno>>, l)
<1>1. PoppedMarket(e)
  BY Popped
<1>2. /\ e.base \in Nat \ {0} /\ q \in Nat /\ u \in DOMAIN users /\ e.side = "Ask"
      /\ "AUTO_STAKE" \notin e.info.flags /\ "NEW_DEBT" \in e.info.flags
  BY <1>1 DEF PoppedMarket, EventFacts, IsDebt
<1>3. /\ m \in MarginUser /\ vault \in Nat /\ clock \in Nat /\ clock' = clock /\ notes' = notes
      /\ tickets \in [Holders -> Nat] /\ DepositMap(deposits) /\ CoveredInv
      /\ LoanMap(loans, DOMAIN users) /\ OwnLoans(m, loans, u, clock)
      /\ notes \in [DOMAIN users -> Notes] /\ notes[u].claims >= total(m)
  BY <1>2 DEF FixedTermInv, FundsInv, LedgerInv, Ledger, Users, EventStep, AccountedInv, Accounted
<1>4. /\ Checked(r) /\ users' = [users EXCEPT ![u] = r] /\ vault >= q - disb
      /\ deposits' = deposits /\ loans' = lt /\ vault' = vault - (q - disb) /\ tickets' = tickets
  <2>1. ("NEW_DEBT" \in e.info.flags) = TRUE
    BY <1>2
  <2> QED BY <1>2, <2>1 DEF handle_margin_fill, Maker
<1>5. clock + BorrowTenor \in Nat /\ disb \in Nat /\ disb <= q
  BY <1>2, <1>3, FixedTermAssumption, Disbursed
<1>6. /\ r \in UserOf(Int) /\ Entitled(r) = Entitled(m) + disb
      /\ r.pending = m.pending - e.base /\ Borrows(m, r, e.base, clock + BorrowTenor)
  <2> DEFINE x == e.base
             t == clock + BorrowTenor
             new == TRUE
  <2>1. m \in MarginUser /\ x \in Nat /\ disb \in Nat /\ t \in Nat /\ q \in Nat /\ new \in BOOLEAN /\ new
    BY <1>2, <1>3, <1>5
  <2> HIDE DEF m, x, q, disb, t, new
  <2>2. LET f == maker_fill_borrow_order(m, new, disb, q, x, t)
        IN  LoanFilled(m, f, disb, x, t)
    BY <2>1, MakerFillBorrow
  <2> QED BY <2>2 DEF x, t, new, LoanFilled
<1>7. m.pending \in Nat /\ m.committed \in Nat
  BY <1>3, UserNumbers DEF MarginUser
<1>8. l \in TermLoans /\ l.maturity = clock + BorrowTenor /\ l.balance = e.base
  BY <1>2, <1>3, <1>5 DEF TermLoan, TermLoans
<1> HIDE DEF r, q, disb, m, l
<1>9. r \in MarginUser
  BY <1>4, <1>6, CheckedUser
<1>10. LoanStep(loans, lt, DOMAIN users, u, r, clock, l.balance)
  <2>1. Borrows(m, r, l.balance, clock + BorrowTenor)
    BY <1>6, <1>8
  <2> QED BY <1>2, <1>3, <1>8, <2>1, LoanAdded
<1> HIDE DEF lt
<1>11. UserStep(u, r)
  <2>1. \A v : DebtIf(v, e) = IF v = u THEN e.base ELSE 0
    BY DEF DebtIf
  <2>2. \A v \in DOMAIN users \ {u} : Debt(v, book', queue') = Debt(v, book, queue)
    BY <1>1, <2>1, DebtNat DEF PoppedMarket
  <2>3. r.pending = Debt(u, book', queue')
    BY <1>1, <1>2, <1>6, <2>1, DebtNat DEF PoppedMarket, m
  <2>4. total(r) = total(m)
    BY <1>2, <1>6, <1>7 DEF total, Borrows
  <2> QED BY <1>3, <1>4, <1>9, <1>10, <2>2, <2>3, <2>4 DEF UserStep, LoanStep
<1>12. /\ LedgerInv' /\ AccountedInv' /\ DOMAIN users' = DOMAIN users
       /\ Total(EntitledOf(users')) = Total(EntitledOf(users)) + (Entitled(r) - Entitled(m))
       /\ Entitled(r) \in Nat /\ Entitled(m) \in Nat
  BY <1>2, <1>11, UserSteps DEF m
<1>13. MarketInv'
  BY <1>1, <1>12 DEF PoppedMarket, MarketInv
<1>14. Owed(book', queue') = Owed(book, queue) - (q - e.base)
  <2>1. OwedForEvent(e) = q /\ DueForEvent(e) = e.base
    BY <1>2 DEF OwedForEvent, DueForEvent, q
  <2> QED BY <1>1, <2>1 DEF PoppedMarket
<1>15. FundsInv'
  BY <1>2, <1>3, <1>4, <1>5 DEF FundsInv
<1>16. CoveredInv'
  <2>1. Total(Balances(loans')) = Total(Balances(loans)) + e.base
    BY <1>4, <1>8, <1>10 DEF LoanStep
  <2> QED BY <1>2, <1>3, <1>4, <1>5, <1>6, <1>12, <1>14, <2>1, TotalsTyped DEF CoveredInv
<1> QED BY <1>12, <1>13, <1>15, <1>16 DEF FixedTermInv

\* consume_events
LEMMA ConsumeStep ==
  ASSUME FixedTermInv, consume_events
  PROVE  FixedTermInv'
<1> DEFINE e == next_event(queue)
<1>1. EventStep(e)
  BY DEF consume_events, EventStep
<1>2. \/ e.tag = "Fill" /\ IsMargin(e.info) /\ handle_margin_fill(e)
      \/ e.tag = "Fill" /\ ~IsMargin(e.info) /\ handle_signer_fill(e)
      \/ e.tag = "Out" /\ IsMargin(e.info) /\ handle_margin_out(e)
      \/ e.tag = "Out" /\ ~IsMargin(e.info) /\ handle_signer_out(e)
  BY DEF consume_events
<1> HIDE DEF e
<1>3. CASE e.tag = "Fill" /\ IsMargin(e.info) /\ handle_margin_fill(e)
  <2>1. e.side \in {"Bid", "Ask"}
    BY <1>1, Popped DEF PoppedMarket, EventFacts, Sides
  <2> QED BY <1>1, <1>3, <2>1, LendFillStep, SaleFillStep, BorrowFillStep
<1>4. CASE e.tag = "Fill" /\ ~IsMargin(e.info) /\ handle_signer_fill(e)
  BY <1>1, <1>4, SignerFillStep
<1>5. CASE e.tag = "Out" /\ IsMargin(e.info) /\ handle_margin_out(e)
  BY <1>1, <1>5, MarginOutStep
<1>6. CASE e.tag = "Out" /\ ~IsMargin(e.info) /\ handle_signer_out(e)
  BY <1>1, <1>6, SignerOutStep
<1> QED BY <1>2, <1>3, <1>4, <1>5, <1>6


-----------------------------------------------------------------------------
(* Accounts keep the invariant *)

\* No order is placed, matched, cancelled or consumed.
LEMMA MarketStays ==
  ASSUME FixedTermInv, UNCHANGED <<book, queue, nonce>>, DOMAIN users' = DOMAIN users
  PROVE  /\ MarketInv' /\ Owed(book', queue') = Owed(book, queue)
         /\ \A v : Debt(v, book', queue') = Debt(v, book, queue)
<1>1. MarketInv'
  BY DEF FixedTermInv, MarketInv
<1>2. Owed(book', queue') = Owed(book, queue) /\ \A v : Debt(v, book', queue') = Debt(v, book, queue)
  OBVIOUS
<1> QED BY <1>1, <1>2

\* Tickets, deposits and tokens change, and no user's record.
LEMMA FundsStep ==
  ASSUME FixedTermInv, UNCHANGED <<book, queue, nonce, users, notes, loans, clock>>,
         tickets' \in [Holders -> Nat], vault' \in Nat, DepositMap(deposits'), Total(tickets') \in Nat,
         Total(tickets') + Deposited(deposits') + vault <= Total(tickets) + Deposited(deposits) + vault'
  PROVE  FixedTermInv'
<1>1. /\ MarketInv' /\ Owed(book', queue') = Owed(book, queue)
      /\ \A v : Debt(v, book', queue') = Debt(v, book, queue)
  BY MarketStays
<1>2. clock \in Nat /\ clock' \in Nat /\ clock <= clock'
  BY DEF FixedTermInv, FundsInv
<1>3. LedgerInv' /\ AccountedInv'
  BY <1>1, <1>2, NoUserStep
<1>4. FundsInv'
  BY <1>2 DEF FundsInv
<1>5. CoveredInv'
  <2>1. Total(EntitledOf(users')) = Total(EntitledOf(users)) /\ Total(Balances(loans')) = Total(Balances(loans))
    OBVIOUS
  <2>2. CoveredInv /\ Deposited(deposits') \in Nat
    BY DepositSums DEF FixedTermInv
  <2> QED BY <1>1, <2>1, <2>2, TotalsTyped DEF CoveredInv
<1> QED BY <1>1, <1>3, <1>4, <1>5 DEF FixedTermInv

\* redeem_deposit
LEMMA RedeemStep ==
  ASSUME FixedTermInv, NEW w, NEW k \in DOMAIN deposits, redeem_deposit(w, k)
  PROVE  FixedTermInv'
<1> DEFINE x == deposits[k].amount
           dt == Drop(deposits, k)
<1>1. /\ vault >= x /\ vault' = vault - x /\ deposits' = dt
      /\ UNCHANGED <<book, queue, nonce, users, notes, loans, tickets, clock>>
  BY DEF redeem_deposit
<1>2. DepositMap(deposits) /\ vault \in Nat /\ tickets \in [Holders -> Nat]
  BY DEF FixedTermInv, FundsInv
<1>3. x \in Nat
  BY <1>2, DepositSums
<1>4. DepositMap(dt) /\ Deposited(dt) = Deposited(deposits) - x
  BY <1>2, DepositDrop
<1> HIDE DEF x, dt
<1>5. vault' \in Nat
  BY <1>1, <1>2, <1>3
<1>6. Total(tickets') = Total(tickets)
  BY <1>1
<1> QED BY <1>1, <1>2, <1>3, <1>4, <1>5, <1>6, TotalsTyped, FundsStep

\* stake_tickets
LEMMA StakeStep ==
  ASSUME FixedTermInv, NEW w \in Holders, NEW a \in Amounts, stake_tickets(w, a)
  PROVE  FixedTermInv'
<1> DEFINE d == TermDeposit(w, 0, a, {})
           k == <<w, FreshSeed(w)>>
           x == tickets[w] - a
<1>1. /\ tickets[w] >= a /\ tickets' = [tickets EXCEPT ![w] = x] /\ deposits' = Put(deposits, k, d)
      /\ UNCHANGED <<book, queue, nonce, users, notes, loans, vault, clock>>
  BY DEF stake_tickets
<1>2. DepositMap(deposits) /\ vault \in Nat /\ clock \in Nat /\ tickets \in [Holders -> Nat] /\ a \in Nat \ {0}
  BY FixedTermAssumption DEF FixedTermInv, FundsInv
<1>3. d \in TermDeposits /\ d.amount = a
  BY <1>2, NewTermDeposit
<1>4. x \in Nat
  BY <1>1, <1>2
<1> HIDE DEF d, k
<1>5. DepositMap(deposits') /\ Deposited(deposits') <= Deposited(deposits) + a
  BY <1>1, <1>2, <1>3, DepositPut
<1>6. /\ tickets' \in [Holders -> Nat] /\ tickets[w] \in Nat
      /\ Total(tickets') = Total(tickets) + (x - tickets[w])
  BY <1>1, <1>2, <1>4, TicketsChanged
<1>7. Total(tickets') = Total(tickets) - a
  BY <1>2, <1>6, TotalsTyped
<1>8. Total(tickets') \in Nat
  <2>1. IsFiniteSet(Holders)
    BY FixedTermAssumption DEF Holders
  <2> QED BY <1>6, <2>1, SumNat DEF Total
<1>9. Deposited(deposits') \in Nat
  BY <1>5, DepositSums
<1>10. /\ vault' \in Nat
       /\ Total(tickets') + Deposited(deposits') + vault <= Total(tickets) + Deposited(deposits) + vault'
  BY <1>1, <1>2, <1>5, <1>7, <1>9, TotalsTyped
<1> QED BY <1>1, <1>5, <1>6, <1>8, <1>10, FundsStep

\* exchange_tokens
LEMMA ExchangeStep ==
  ASSUME FixedTermInv, NEW h \in Holders, NEW a \in Amounts, exchange_tokens(h, a)
  PROVE  FixedTermInv'
<1> DEFINE x == tickets[h] + a
<1>1. /\ tickets' = [tickets EXCEPT ![h] = x] /\ vault' = vault + a
      /\ UNCHANGED <<book, queue, nonce, users, notes, loans, deposits, clock>>
  BY DEF exchange_tokens
<1>2. DepositMap(deposits) /\ vault \in Nat /\ tickets \in [Holders -> Nat] /\ a \in Nat
  BY FixedTermAssumption DEF FixedTermInv, FundsInv
<1>3. x \in Nat
  BY <1>2
<1>4. /\ tickets' \in [Holders -> Nat] /\ tickets[h] \in Nat
      /\ Total(tickets') = Total(tickets) + (x - tickets[h])
  BY <1>1, <1>2, <1>3, TicketsChanged
<1>5. Total(tickets') = Total(tickets) + a
  BY <1>2, <1>4, TotalsTyped
<1>6. /\ vault' \in Nat /\ Total(tickets') \in Nat /\ DepositMap(deposits')
      /\ Total(tickets') + Deposited(deposits') + vault <= Total(tickets) + Deposited(deposits) + vault'
  BY <1>1, <1>2, <1>5, TotalsTyped
<1> QED BY <1>1, <1>4, <1>6, FundsStep

\* Something of a deposit changes and its amount does not.
LEMMA DepositStep ==
  ASSUME FixedTermInv, UNCHANGED <<book, queue, nonce, users, notes, loans, tickets, vault, clock>>,
         NEW k \in DOMAIN deposits, NEW d \in TermDeposits, d.amount = deposits[k].amount,
         deposits' = [deposits EXCEPT ![k] = d]
  PROVE  FixedTermInv'
<1>1. DepositMap(deposits) /\ vault \in Nat /\ tickets \in [Holders -> Nat]
  BY DEF FixedTermInv, FundsInv
<1>2. DepositMap(deposits') /\ Deposited(deposits') = Deposited(deposits)
  BY <1>1, DepositChanged
<1>3. Total(tickets') = Total(tickets)
  OBVIOUS
<1> QED BY <1>1, <1>2, <1>3, TotalsTyped, FundsStep

\* transfer_deposit and toggle_auto_roll_deposit
LEMMA DepositSteps ==
  ASSUME FixedTermInv, NEW k \in DOMAIN deposits
  PROVE  /\ \A h \in Recipients : transfer_deposit(k, h) => FixedTermInv'
         /\ toggle_auto_roll_deposit(k) => FixedTermInv'
<1> DEFINE d == deposits[k]
<1>1. d \in TermDeposits
  BY DEF FixedTermInv, FundsInv, DepositMap
<1>2. ASSUME NEW h \in Recipients, transfer_deposit(k, h) PROVE FixedTermInv'
  <2> DEFINE t == [d EXCEPT !.owner = h]
  <2>1. /\ deposits' = [deposits EXCEPT ![k] = t]
        /\ UNCHANGED <<book, queue, nonce, users, notes, loans, tickets, vault, clock>>
    BY <1>2 DEF transfer_deposit
  <2>2. h \in Holders
    BY FixedTermAssumption DEF Holders
  <2>3. t \in TermDeposits /\ t.amount = d.amount
    BY <1>1, <2>2 DEF TermDeposits
  <2> HIDE DEF t
  <2> QED BY <2>1, <2>3, DepositStep
<1>3. ASSUME toggle_auto_roll_deposit(k) PROVE FixedTermInv'
  <2> DEFINE fl == IF "AUTO_ROLL" \in d.flags THEN d.flags \ {"AUTO_ROLL"} ELSE d.flags \cup {"AUTO_ROLL"}
             t == [d EXCEPT !.flags = fl]
  <2>1. /\ deposits' = [deposits EXCEPT ![k] = t]
        /\ UNCHANGED <<book, queue, nonce, users, notes, loans, tickets, vault, clock>>
    BY <1>3 DEF toggle_auto_roll_deposit
  <2>2. fl \in SUBSET Flags
    BY <1>1 DEF TermDeposits, Flags
  <2> HIDE DEF fl
  <2>3. t \in TermDeposits /\ t.amount = d.amount
    BY <1>1, <2>2 DEF TermDeposits
  <2> HIDE DEF t
  <2> QED BY <2>1, <2>3, DepositStep
<1> QED BY <1>2, <1>3


\* The claims are noted.
LEMMA ClaimsSet ==
  ASSUME NEW D, NEW ns \in [D -> Notes], NEW u \in D, NEW x \in Nat
  PROVE  /\ [ns EXCEPT ![u].claims = x] \in [D -> Notes]
         /\ [ns EXCEPT ![u].claims = x][u].claims = x
         /\ \A v \in D \ {u} : [ns EXCEPT ![u].claims = x][v] = ns[v]
<1> DEFINE n == ns[u]
           t == [n EXCEPT !.claims = x]
<1>1. n \in Notes
  OBVIOUS
<1>2. [ns EXCEPT ![u].claims = x] = [ns EXCEPT ![u] = t]
  OBVIOUS
<1>3. t \in Notes /\ t.claims = x
  BY <1>1 DEF Notes
<1> HIDE DEF t
<1> QED BY <1>2, <1>3

\* repay
LEMMA RepayStep ==
  ASSUME FixedTermInv, NEW u \in DOMAIN users, NEW n, <<u, n>> \in DOMAIN loans, NEW a \in Amounts,
         repay(u, n, a)
  PROVE  FixedTermInv'
<1> DEFINE m == users[u]
           b == loans[<<u, n>>].balance
           amount == Min({a, b})
           r == LoanRepaid(m, loans, u, n, amount)
           lt == LoansAfter(loans, u, n, amount)
           x == notes[u].claims - amount
<1>1. /\ Unpaid(m, n) /\ notes[u].claims >= amount
      /\ users' = [users EXCEPT ![u] = r] /\ loans' = lt
      /\ notes' = [notes EXCEPT ![u].claims = x] /\ vault' = vault + amount
      /\ UNCHANGED <<book, queue, nonce, deposits, tickets, clock>>
  BY DEF repay
<1>2. /\ m \in MarginUser /\ vault \in Nat /\ clock \in Nat /\ CoveredInv /\ notes \in [DOMAIN users -> Notes]
      /\ LoanMap(loans, DOMAIN users) /\ OwnLoans(m, loans, u, clock) /\ FundsInv
      /\ m.pending = Debt(u, book, queue) /\ notes[u].claims >= total(m)
  BY DEF FixedTermInv, FundsInv, LedgerInv, Ledger, Users, AccountedInv, Accounted
<1>3. a \in Nat /\ b \in Nat
  BY <1>2, LoanSums, FixedTermAssumption
<1> HIDE DEF b
<1>4. amount \in Nat /\ amount <= b
  BY <1>3, MinTwo
<1> HIDE DEF amount
<1>5. /\ r \in MarginUser /\ r.pending = m.pending /\ Entitled(r) = Entitled(m)
      /\ r.committed = m.committed - amount
      /\ LoanStep(loans, lt, DOMAIN users, u, r, clock, 0 - amount)
  BY <1>1, <1>2, <1>4, LoanPaid DEF b
<1>6. m.pending \in Nat /\ m.committed \in Nat /\ notes[u].claims \in Nat
  BY <1>2, UserNumbers DEF MarginUser, Notes
<1> HIDE DEF r, lt, m
<1>7. x \in Nat
  BY <1>1, <1>4, <1>6
<1> HIDE DEF x
<1>8. notes' \in [DOMAIN users -> Notes] /\ notes'[u].claims = x /\ \A v \in DOMAIN users \ {u} : notes'[v] = notes[v]
  BY <1>1, <1>2, <1>7, ClaimsSet
<1>9. DOMAIN users' = DOMAIN users
  BY <1>1
<1>10. /\ MarketInv' /\ Owed(book', queue') = Owed(book, queue)
       /\ \A v : Debt(v, book', queue') = Debt(v, book, queue)
  BY <1>1, <1>9, MarketStays
<1>11. UserStep(u, r)
  <2>1. notes'[u].claims >= total(r)
    BY <1>2, <1>4, <1>5, <1>6, <1>8 DEF total, x
  <2> QED BY <1>1, <1>2, <1>5, <1>8, <1>10, <2>1 DEF UserStep, LoanStep
<1>12. /\ LedgerInv' /\ AccountedInv'
       /\ Total(EntitledOf(users')) = Total(EntitledOf(users)) + (Entitled(r) - Entitled(m))
       /\ Entitled(r) \in Nat /\ Entitled(m) \in Nat
  BY <1>11, UserSteps DEF m
<1>13. FundsInv'
  BY <1>1, <1>2, <1>4 DEF FundsInv
<1>14. CoveredInv'
  <2>1. Total(Balances(loans')) = Total(Balances(loans)) - amount
    BY <1>1, <1>4, <1>5, TotalsTyped DEF LoanStep
  <2>2. Total(tickets') = Total(tickets) /\ Deposited(deposits') = Deposited(deposits)
    BY <1>1
  <2> QED BY <1>1, <1>2, <1>4, <1>5, <1>10, <1>12, <2>1, <2>2, TotalsTyped DEF CoveredInv
<1> QED BY <1>10, <1>12, <1>13, <1>14 DEF FixedTermInv

\* A user's assets change, and no order.
LEMMA AssetStep ==
  ASSUME FixedTermInv, NEW u \in DOMAIN users, NEW r, KeptStep(u, r), r.pending = users[u].pending,
         UNCHANGED <<book, queue, nonce>>
  PROVE  /\ MarketInv' /\ LedgerInv' /\ AccountedInv' /\ Owed(book', queue') = Owed(book, queue)
         /\ Total(EntitledOf(users')) = Total(EntitledOf(users)) + (Entitled(r) - Entitled(users[u]))
         /\ Entitled(r) \in Nat /\ Entitled(users[u]) \in Nat
<1>1. DOMAIN users' = DOMAIN users
  BY DEF KeptStep
<1>2. /\ MarketInv' /\ Owed(book', queue') = Owed(book, queue)
      /\ \A v : Debt(v, book', queue') = Debt(v, book, queue)
  BY <1>1, MarketStays
<1>3. r.pending = users[u].pending - 0
  BY DebtNat
<1>4. \A v \in DOMAIN users : Debt(v, book', queue') = Debt(v, book, queue) - (IF v = u THEN 0 ELSE 0)
  BY <1>2, DebtNat
<1> QED BY <1>2, <1>3, <1>4, KeptSteps

\* margin_redeem_deposit
LEMMA MarginRedeemStep ==
  ASSUME FixedTermInv, NEW u \in DOMAIN users, NEW k \in DOMAIN deposits, margin_redeem_deposit(u, k)
  PROVE  FixedTermInv'
<1> DEFINE a == deposits[k].amount
           dt == Drop(deposits, k)
           r == redeem_deposit_of(users[u], a)
           x == notes[u].ticket_collateral - a
<1>1. /\ vault >= a /\ notes[u].ticket_collateral >= a /\ vault' = vault - a
      /\ users' = [users EXCEPT ![u] = r]
      /\ notes' = [notes EXCEPT ![u].ticket_collateral = x] /\ deposits' = dt
      /\ UNCHANGED <<book, queue, nonce, loans, tickets, clock>>
  BY DEF margin_redeem_deposit
<1>2. /\ users[u] \in MarginUser /\ FundsInv /\ CoveredInv /\ DepositMap(deposits) /\ vault \in Nat
      /\ notes \in [DOMAIN users -> Notes]
  BY DEF FixedTermInv, FundsInv, LedgerInv, Ledger, Users
<1>3. a \in Nat
  BY <1>2, DepositSums
<1>4. DepositMap(dt) /\ Deposited(dt) = Deposited(deposits) - a
  BY <1>2, DepositDrop
<1> HIDE DEF a, dt
<1>5. r \in MarginUser /\ Keeps(users[u], r)
  BY <1>2, <1>3, RedeemDepositOf
<1>6. x \in Nat
  BY <1>1, <1>2, <1>3 DEF Notes
<1> HIDE DEF r, x
<1>7. notes' \in [DOMAIN users -> Notes] /\ \A v \in DOMAIN users : notes'[v].claims = notes[v].claims
  BY <1>1, <1>2, <1>6, CollateralNoted
<1>8. KeptStep(u, r)
  BY <1>1, <1>5, <1>7 DEF KeptStep, Keeps
<1>9. /\ MarketInv' /\ LedgerInv' /\ AccountedInv' /\ Owed(book', queue') = Owed(book, queue)
      /\ Total(EntitledOf(users')) = Total(EntitledOf(users)) + (Entitled(r) - Entitled(users[u]))
      /\ Entitled(r) \in Nat /\ Entitled(users[u]) \in Nat
  BY <1>1, <1>5, <1>8, AssetStep DEF Keeps
<1>10. FundsInv'
  BY <1>1, <1>2, <1>3, <1>4 DEF FundsInv
<1>11. CoveredInv'
  <2>1. Total(tickets') = Total(tickets) /\ Total(Balances(loans')) = Total(Balances(loans))
    BY <1>1
  <2>2. Entitled(r) = Entitled(users[u])
    BY <1>5 DEF Keeps
  <2> QED BY <1>1, <1>2, <1>3, <1>4, <1>9, <2>1, <2>2, TotalsTyped DEF CoveredInv
<1> QED BY <1>9, <1>10, <1>11 DEF FixedTermInv

\* settle
LEMMA SettleStep ==
  ASSUME FixedTermInv, NEW u \in DOMAIN users, settle(u)
  PROVE  FixedTermInv'
<1> DEFINE m == users[u]
           n == [claims |-> total(m), ticket_collateral |-> ticket_collateral(m),
                 underlying_collateral |-> m.tokens_posted]
           r == settlement_complete(m)
           x == tickets[u] + m.entitled_tickets
<1>1. /\ vault >= m.entitled_tokens /\ notes' = [notes EXCEPT ![u] = n]
      /\ tickets' = [tickets EXCEPT ![u] = x] /\ vault' = vault - m.entitled_tokens
      /\ users' = [users EXCEPT ![u] = r] /\ UNCHANGED <<book, queue, nonce, loans, deposits, clock>>
  BY DEF settle
<1>2. /\ m \in MarginUser /\ FundsInv /\ CoveredInv /\ vault \in Nat /\ tickets \in [Holders -> Nat]
      /\ notes \in [DOMAIN users -> Notes] /\ u \in Holders
  BY DEF FixedTermInv, FundsInv, LedgerInv, Ledger, Users, Holders
<1>3. /\ m.pending \in Nat /\ m.committed \in Nat /\ m.tickets_staked \in Nat /\ m.tickets_posted \in Nat
      /\ m.tokens_posted \in Nat /\ m.entitled_tickets \in Nat /\ m.entitled_tokens \in Nat
  BY <1>2, UserNumbers DEF MarginUser
<1>4. n \in Notes /\ n.claims = total(m)
  BY <1>3 DEF Notes, total, ticket_collateral
<1>5. r \in MarginUser /\ r.pending = m.pending /\ SameDebt(m, r) /\ Entitled(r) = 0
  BY <1>2, SettlementComplete
<1>6. x \in Nat
  BY <1>2, <1>3
<1> HIDE DEF n, r, x
<1>7. KeptStep(u, r)
  <2>1. notes' \in [DOMAIN users -> Notes] /\ notes'[u] = n /\ \A v \in DOMAIN users \ {u} : notes'[v] = notes[v]
    BY <1>1, <1>2, <1>4
  <2> QED BY <1>1, <1>4, <1>5, <2>1 DEF KeptStep
<1>8. /\ MarketInv' /\ LedgerInv' /\ AccountedInv' /\ Owed(book', queue') = Owed(book, queue)
      /\ Total(EntitledOf(users')) = Total(EntitledOf(users)) + (Entitled(r) - Entitled(users[u]))
  BY <1>1, <1>5, <1>7, AssetStep
<1>9. /\ tickets' \in [Holders -> Nat] /\ tickets[u] \in Nat
      /\ Total(tickets') = Total(tickets) + (x - tickets[u])
  BY <1>1, <1>2, <1>6, TicketsChanged
<1>10. Total(tickets') = Total(tickets) + m.entitled_tickets
  BY <1>3, <1>9, TotalsTyped DEF x
<1>11. FundsInv'
  BY <1>1, <1>2, <1>3, <1>9 DEF FundsInv
<1>12. CoveredInv'
  <2>1. Deposited(deposits') = Deposited(deposits) /\ Total(Balances(loans')) = Total(Balances(loans))
    BY <1>1
  <2>2. Total(EntitledOf(users')) = Total(EntitledOf(users)) - (m.entitled_tickets + m.entitled_tokens)
    BY <1>3, <1>5, <1>8, TotalsTyped DEF Entitled
  <2> QED BY <1>1, <1>2, <1>3, <1>8, <1>10, <2>1, <2>2, TotalsTyped DEF CoveredInv
<1> QED BY <1>8, <1>11, <1>12 DEF FixedTermInv

\* configure_auto_roll
LEMMA ConfigureStep ==
  ASSUME FixedTermInv, NEW c \in RollConfigs, c[1] \in DOMAIN users,
         configure_auto_roll(c[1], c[2], c[3], c[4])
  PROVE  FixedTermInv'
<1> DEFINE u == c[1]
           m == users[u]
           b == [m EXCEPT !.borrow_roll_price = c[3], !.borrow_roll_tenor = c[4]]
           l == [m EXCEPT !.lend_roll_price = c[3]]
<1>1. /\ users' = [users EXCEPT ![u] = b] \/ users' = [users EXCEPT ![u] = l]
      /\ UNCHANGED <<book, queue, nonce, notes, loans, deposits, tickets, vault, clock>>
  BY DEF configure_auto_roll
<1>2. m \in MarginUser /\ FundsInv /\ CoveredInv /\ notes \in [DOMAIN users -> Notes]
  BY DEF FixedTermInv, FundsInv, LedgerInv, Ledger, Users
<1>3. c[3] \in Nat /\ c[4] \in Nat
  BY FixedTermAssumption
<1>4. b \in MarginUser /\ Keeps(m, b) /\ l \in MarginUser /\ Keeps(m, l)
  <2> DEFINE y == c[3]
             z == c[4]
  <2> HIDE DEF y, z, m
  <2>1. y \in Nat /\ z \in Nat
    BY <1>3 DEF y, z
  <2> QED BY <1>2, <2>1, RollSettings DEF y, z
<1> HIDE DEF b, l
<1>5. PICK r : users' = [users EXCEPT ![u] = r] /\ r \in MarginUser /\ Keeps(m, r)
  BY <1>1, <1>4
<1>6. KeptStep(u, r)
  BY <1>1, <1>2, <1>5 DEF KeptStep, Keeps
<1>7. /\ MarketInv' /\ LedgerInv' /\ AccountedInv' /\ Owed(book', queue') = Owed(book, queue)
      /\ Total(EntitledOf(users')) = Total(EntitledOf(users)) + (Entitled(r) - Entitled(users[u]))
      /\ Entitled(r) \in Nat /\ Entitled(users[u]) \in Nat
  BY <1>1, <1>5, <1>6, AssetStep DEF Keeps
<1>8. FundsInv'
  BY <1>1, <1>2 DEF FundsInv
<1>9. CoveredInv'
  <2>1. /\ Total(tickets') = Total(tickets) /\ Total(Balances(loans')) = Total(Balances(loans))
        /\ Deposited(deposits') = Deposited(deposits) /\ vault' = vault
    BY <1>1
  <2>2. Entitled(r) = Entitled(users[u])
    BY <1>5 DEF Keeps
  <2> QED BY <1>2, <1>7, <2>1, <2>2, TotalsTyped DEF CoveredInv
<1> QED BY <1>7, <1>8, <1>9 DEF FixedTermInv


\* A loan is to be rolled, or no longer.
LEMMA ToggleLoanStep ==
  ASSUME FixedTermInv, NEW k \in DOMAIN loans, toggle_auto_roll_loan(k)
  PROVE  FixedTermInv'
<1> DEFINE l == [loans[k] EXCEPT !.auto_roll = ~@]
<1>1. /\ loans' = [loans EXCEPT ![k] = l]
      /\ UNCHANGED <<book, queue, nonce, users, notes, deposits, tickets, vault, clock>>
  BY DEF toggle_auto_roll_loan
<1>2. /\ LoanMap(loans, DOMAIN users) /\ clock \in Nat /\ FundsInv /\ CoveredInv
      /\ \A v \in DOMAIN users : OwnLoans(users[v], loans, v, clock) /\ users[v] \in MarginUser
  BY DEF FixedTermInv, FundsInv, LedgerInv, Ledger, Users
<1>3. loans[k] \in TermLoans
  BY <1>2 DEF LoanMap
<1>4. l \in TermLoans /\ l.balance = loans[k].balance /\ l.maturity = loans[k].maturity
  BY <1>3 DEF TermLoans
<1> HIDE DEF l
<1>5. /\ DOMAIN loans' = DOMAIN loans
      /\ \A j \in DOMAIN loans : loans'[j].balance = loans[j].balance /\ loans'[j].maturity = loans[j].maturity
  BY <1>1, <1>4
<1>6. LoanMap(loans', DOMAIN users)
  BY <1>1, <1>2, <1>4, <1>5 DEF LoanMap
<1>7. ASSUME NEW v \in DOMAIN users PROVE OwnLoans(users[v], loans', v, clock)
  <2>1. LoansOf(loans', v) = LoansOf(loans, v) /\ LoansOf(loans, v) \subseteq DOMAIN loans
    BY <1>5 DEF LoansOf
  <2>2. SameDebt(users[v], users[v])
    BY DEF SameDebt
  <2>3. \A j \in LoansOf(loans, v) :
          loans'[j].maturity = loans[j].maturity /\ loans'[j].balance = loans[j].balance
    BY <1>5, <2>1
  <2> QED BY <1>2, <2>1, <2>2, <2>3, SameLoans
<1>8. LedgerInv'
  BY <1>1, <1>6, <1>7 DEF FixedTermInv, LedgerInv, Ledger
<1>9. /\ MarketInv' /\ Owed(book', queue') = Owed(book, queue)
      /\ \A v : Debt(v, book', queue') = Debt(v, book, queue)
  BY <1>1, MarketStays
<1>10. AccountedInv'
  BY <1>1, <1>9 DEF FixedTermInv, AccountedInv, Accounted
<1>11. FundsInv'
  BY <1>1, <1>2 DEF FundsInv
<1>12. CoveredInv'
  <2>1. Balances(loans') = Balances(loans)
    BY <1>5 DEF Balances
  <2> QED BY <1>1, <1>2, <1>9, <2>1 DEF CoveredInv
<1> QED BY <1>8, <1>9, <1>10, <1>11, <1>12 DEF FixedTermInv

\* Tick
LEMMA TickStep ==
  ASSUME FixedTermInv, Tick
  PROVE  FixedTermInv'
<1>1. /\ clock' = clock + 1
      /\ UNCHANGED <<book, queue, nonce, users, notes, loans, deposits, tickets, vault>>
  BY DEF Tick
<1>2. clock \in Nat /\ FundsInv /\ CoveredInv
  BY DEF FixedTermInv, FundsInv
<1>3. clock' \in Nat /\ clock <= clock'
  BY <1>1, <1>2
<1>4. /\ MarketInv' /\ Owed(book', queue') = Owed(book, queue)
      /\ \A v : Debt(v, book', queue') = Debt(v, book, queue)
  BY <1>1, MarketStays
<1>5. LedgerInv' /\ AccountedInv'
  BY <1>1, <1>3, <1>4, NoUserStep
<1>6. FundsInv' /\ CoveredInv'
  BY <1>1, <1>2, <1>3 DEF FundsInv, CoveredInv
<1> QED BY <1>4, <1>5, <1>6 DEF FixedTermInv

\* Who has no account has no debt in the market.
LEMMA NoDebt ==
  ASSUME NEW D, D \subseteq MarginUsers, NEW b, NEW q, Market(b, q, D), NEW u, u \notin D
  PROVE  Debt(u, b, q) = 0
<1>1. \A side \in Sides : \A i \in Infos(D)[side] : IsDebt(i) => i.owner # u
  BY DEF Infos, IsDebt
<1>2. Weight(DebtOf(u, Order(Anyone["Ask"])), b["Ask"]) = 0
  <2> DEFINE s == b["Ask"]
             w == DebtOf(u, Order(Anyone["Ask"]))
             f == [i \in DOMAIN s |-> w[s[i]]]
  <2>1. s \in Seq(Order(Infos(D)["Ask"])) /\ Order(Infos(D)["Ask"]) \subseteq Order(Anyone["Ask"])
    BY MoreInfos DEF Market, IsBook, Sides, Anyone
  <2> HIDE DEF s
  <2>2. IsFiniteSet(DOMAIN s)
    BY <2>1, FS_Interval
  <2>3. ASSUME NEW i \in DOMAIN s PROVE f[i] = 0
    <3> DEFINE o == s[i]
    <3>1. o \in Order(Infos(D)["Ask"])
      BY <2>1
    <3> HIDE DEF o
    <3>2. o.info \in Infos(D)["Ask"] /\ o \in Order(Anyone["Ask"])
      BY <2>1, <3>1, OrderParts
    <3>3. DebtIf(u, o) = 0
      BY <1>1, <3>2 DEF DebtIf, Sides
    <3> QED BY <3>2, <3>3 DEF DebtOf, o
  <2> QED BY <2>2, <2>3, SumZero DEF Weight, s
<1>3. Weight(DebtOf(u, Events(MarginUsers)), q) = 0
  <2> DEFINE w == DebtOf(u, Events(MarginUsers))
             f == [i \in DOMAIN q |-> w[q[i]]]
  <2>1. q \in Seq(Events(D)) /\ Events(D) \subseteq Events(MarginUsers)
    BY MoreInfos DEF Market, Sides, Events
  <2>2. IsFiniteSet(DOMAIN q)
    BY <2>1, FS_Interval
  <2>3. ASSUME NEW i \in DOMAIN q PROVE f[i] = 0
    <3> DEFINE e == q[i]
    <3>1. e \in Events(D)
      BY <2>1
    <3> HIDE DEF e
    <3>2. e \in Events(MarginUsers)
      BY <2>1, <3>1
    <3>3. EventFacts(e, D)
      BY <3>1, EventIs
    <3>4. DebtIf(u, e) = 0
      BY <3>3 DEF EventFacts, DebtIf
    <3> QED BY <3>2, <3>4 DEF DebtOf, e
  <2> QED BY <2>2, <2>3, SumZero DEF Weight
<1> QED BY <1>2, <1>3 DEF Debt

\* A user more, who is owed nothing
LEMMA EntitledMore ==
  ASSUME NEW us, Users(us), NEW u \in MarginUsers \ DOMAIN us, NEW r \in MarginUser, Entitled(r) = 0
  PROVE  Users(Put(us, u, r)) /\ Total(EntitledOf(Put(us, u, r))) = Total(EntitledOf(us))
<1> DEFINE ut == Put(us, u, r)
           f == EntitledOf(us)
           g == EntitledOf(ut)
<1>1. DOMAIN ut = DOMAIN us \cup {u} /\ ut[u] = r /\ \A v \in DOMAIN us : ut[v] = us[v]
  BY DEF Put
<1>2. Users(ut)
  BY DEF Users, Put
<1> HIDE DEF ut
<1>3. /\ IsFiniteSet(DOMAIN us) /\ Total(f) = SumOver(f, DOMAIN us) /\ Total(f) \in Nat
      /\ \A v \in DOMAIN us : f[v] = Entitled(us[v]) /\ f[v] \in Int
  BY EntitledSums
<1>4. Total(g) = SumOver(g, DOMAIN ut) /\ \A v \in DOMAIN ut : g[v] = Entitled(ut[v]) /\ g[v] \in Int
  BY <1>2, EntitledSums
<1> HIDE DEF f, g
<1>5. SumOver(g, DOMAIN us \cup {u}) = SumOver(g, DOMAIN us) + g[u]
  BY <1>1, <1>3, <1>4, SumAdd
<1>6. SumOver(f, DOMAIN us) = SumOver(g, DOMAIN us)
  BY <1>1, <1>3, <1>4, SumSame
<1>7. g[u] = 0
  BY <1>1, <1>4
<1> QED BY <1>1, <1>2, <1>3, <1>4, <1>5, <1>6, <1>7 DEF f, g, ut

\* initialize_margin_user
LEMMA InitializeStep ==
  ASSUME FixedTermInv, NEW u \in MarginUsers, initialize_margin_user(u)
  PROVE  FixedTermInv'
<1> DEFINE D == DOMAIN users
           E == D \cup {u}
<1>1. /\ u \notin D /\ users' = Put(users, u, NewMarginUser) /\ notes' = Put(notes, u, NewNotes)
      /\ UNCHANGED <<book, queue, nonce, loans, deposits, tickets, vault, clock>>
  BY DEF initialize_margin_user
<1>2. /\ Users(users) /\ notes \in [D -> Notes] /\ LoanMap(loans, D) /\ clock \in Nat
      /\ Market(book, queue, D) /\ MarketInv /\ FundsInv /\ CoveredInv /\ AccountedInv
      /\ \A v \in D : OwnLoans(users[v], loans, v, clock)
  BY DEF FixedTermInv, FundsInv, MarketInv, LedgerInv, Ledger
<1>3. D \subseteq MarginUsers
  BY <1>2 DEF Users
<1>4. Users(users') /\ Total(EntitledOf(users')) = Total(EntitledOf(users))
  BY <1>1, <1>2, EntitledMore, NewUser
<1>5. DOMAIN users' = E /\ users'[u] = NewMarginUser /\ \A v \in D : users'[v] = users[v]
  BY <1>1 DEF Put
<1>6. notes' \in [E -> Notes] /\ notes'[u] = NewNotes /\ \A v \in D : notes'[v] = notes[v]
  <2>1. NewNotes \in Notes
    BY DEF NewNotes, Notes
  <2> QED BY <1>1, <1>2, <2>1 DEF Put
<1>7. LoansOf(loans, u) = {} /\ LoanMap(loans, E)
  BY <1>1, <1>2 DEF LoanMap, LoansOf
<1>8. OwnLoans(NewMarginUser, loans, u, clock)
  <2>1. Numbers(NewMarginUser) = {}
    BY NewUser DEF Numbers
  <2>2. SumOver(Balances(loans), LoansOf(loans, u)) = 0
    BY <1>7, SumEmpty
  <2> QED BY <1>7, <2>1, <2>2, NewUser DEF OwnLoans
<1>9. Debt(u, book, queue) = 0
  BY <1>1, <1>2, <1>3, NoDebt
<1> HIDE DEF E
<1>10. LedgerInv'
  <2>1. \A v \in E : OwnLoans(users'[v], loans, v, clock)
    BY <1>2, <1>5, <1>8 DEF E
  <2> QED BY <1>1, <1>4, <1>5, <1>6, <1>7, <2>1 DEF LedgerInv, Ledger
<1>11. AccountedInv'
  <2>1. \A v \in D : users'[v].pending = Debt(v, book, queue) /\ notes'[v].claims >= total(users'[v])
    BY <1>2, <1>5, <1>6 DEF AccountedInv, Accounted
  <2>2. users'[u].pending = Debt(u, book, queue) /\ notes'[u].claims >= total(users'[u])
    BY <1>5, <1>6, <1>9, NewUser DEF NewNotes, total
  <2> QED BY <1>1, <1>5, <2>1, <2>2 DEF E, AccountedInv, Accounted
<1>12. MarketInv'
  <2>1. D \subseteq E
    BY DEF E
  <2>2. Market(book, queue, E)
    BY <1>2, <2>1, MoreMarket
  <2> QED BY <1>1, <1>2, <1>5, <2>2 DEF MarketInv
<1>13. FundsInv' /\ CoveredInv'
  BY <1>1, <1>2, <1>4 DEF FundsInv, CoveredInv
<1> QED BY <1>10, <1>11, <1>12, <1>13 DEF FixedTermInv


\* auto_roll_borrow_order: the loan is taken and another is paid with it.
LEMMA RollBorrowStep ==
  ASSUME FixedTermInv, NEW u \in DOMAIN users, NEW n, <<u, n>> \in DOMAIN loans, auto_roll_borrow_order(u, n)
  PROVE  FixedTermInv'
<1> DEFINE m == users[u]
           l == loans[<<u, n>>]
           p == OrderParams(MaxQty, l.balance, m.borrow_roll_price, {"auto_roll"})
           pf == add_origination_fee(add_origination_fee(p))
           fl == {"NEW_DEBT", "MARGIN", "AUTO_ROLL"}
           s == Placed("Ask", pf, u, fl)
           disb == loan_to_disburse(quote_filled(s))
           amount == Min({disb, l.balance})
           m1 == Borrowed(m, s)
           l1 == LoanTaken(u, s, TRUE)
           n1 == ClaimNoted(u, s)
           r == LoanRepaid(m1, l1, u, n, amount)
           lt == LoansAfter(l1, u, n, amount)
           x == n1[u].claims - amount
<1>1. /\ m.borrow_roll_price # None /\ Unpaid(m, n) /\ OrderAccepted(s) /\ vault >= quote_filled(s)
      /\ n1[u].claims >= amount /\ Commit(s)
      /\ users' = [users EXCEPT ![u] = r] /\ loans' = lt
      /\ notes' = [n1 EXCEPT ![u].claims = x] /\ vault' = vault - (quote_filled(s) - disb)
      /\ UNCHANGED <<deposits, tickets, clock>>
  BY DEF auto_roll_borrow_order, Fees
<1>2. /\ m \in MarginUser /\ vault \in Nat /\ clock \in Nat /\ CoveredInv /\ FundsInv
      /\ LoanMap(loans, DOMAIN users) /\ DOMAIN users \subseteq MarginUsers
      /\ m.pending = Debt(u, book, queue) /\ notes[u].claims >= total(m)
  BY DEF FixedTermInv, FundsInv, LedgerInv, Ledger, Users, AccountedInv, Accounted
<1>3. pf \in ValidOrders
  <2>1. l.balance \in Nat
    BY <1>2, LoanSums
  <2>2. m.borrow_roll_price \in Nat \ {0}
    BY <1>1, <1>2, UserNumbers DEF MarginUser, None
  <2>3. p \in ValidOrders
    BY <2>1, <2>2, RollOrder
  <2> HIDE DEF p
  <2> QED BY <2>3, FeeAdded
<1>4. CallbackInfo(u, fl) \in Infos(DOMAIN users)["Ask"]
  <2>1. fl \in SUBSET Flags /\ "MARGIN" \in fl /\ "AUTO_STAKE" \notin fl
    BY DEF Flags
  <2> HIDE DEF fl
  <2> QED BY <1>2, <2>1, OrderInfos
<1>5. "NEW_DEBT" \in fl /\ s = Placed("Ask", pf, u, fl)
  OBVIOUS
<1> HIDE DEF p, pf, fl, s, amount, m1, l1, n1, x, r, lt
<1>6. /\ MarketStep(s, pf)
      /\ Owed(book', queue') <= Owed(book, queue) + base_filled(s) - quote_filled(s)
                                  + (IF "NEW_DEBT" \in fl THEN 0 ELSE s.base_posted)
      /\ \A v : Debt(v, book', queue')
                  = Debt(v, book, queue) + (IF u = v /\ "NEW_DEBT" \in fl THEN s.base_posted ELSE 0)
  BY <1>1, <1>3, <1>4, <1>5, AskCommitted
<1>7. DOMAIN users' = DOMAIN users
  BY <1>1
<1>8. /\ MarketInv' /\ Owed(book', queue') \in Int
      /\ base_filled(s) \in Nat /\ quote_filled(s) \in Nat /\ s.base_posted \in Nat
      /\ quote_posted(s) \in Nat /\ s.total_base = base_filled(s) + s.base_posted /\ s.total_base \in Nat
  BY <1>6, <1>7, StepNumbers
<1>9. disb \in Nat /\ disb <= quote_filled(s)
  BY <1>8, Disbursed
<1> HIDE DEF disb
<1>10. amount \in Nat /\ amount <= disb /\ amount <= l.balance
  <2>1. l.balance \in Nat
    BY <1>2, LoanSums
  <2> QED BY <1>9, <2>1, MinTwo DEF amount
<1>11. /\ m1 \in MarginUser /\ m1.pending = m.pending + s.base_posted
       /\ Entitled(m1) = Entitled(m)
       /\ total(m1) = total(m) + base_filled(s) + s.base_posted
       /\ m1.next_unpaid_term_loan_seqno = m.next_unpaid_term_loan_seqno
  <2> HIDE DEF m
  <2>1. /\ m1 \in MarginUser /\ m1.pending = m.pending + s.base_posted
        /\ Entitled(m1) = Entitled(m)
        /\ total(m1) = total(m) + base_filled(s) + s.base_posted
        /\ base_filled(s) > 0 => Borrows(m, m1, base_filled(s), clock + BorrowTenor)
        /\ base_filled(s) = 0 => SameDebt(m, m1)
    BY <1>2, <1>8, BorrowedUser DEF m1
  <2>2. m1.next_unpaid_term_loan_seqno = m.next_unpaid_term_loan_seqno
    BY <1>8, <2>1 DEF Borrows, SameDebt
  <2> QED BY <2>1, <2>2
<1>12. /\ LoanStep(loans, l1, DOMAIN users, u, m1, clock, base_filled(s))
       /\ \A k \in LoansOf(loans, u) : k \in DOMAIN l1 /\ l1[k] = loans[k]
  <2> DEFINE roll == TRUE
  <2>1. roll \in BOOLEAN
    OBVIOUS
  <2> HIDE DEF roll
  <2>2. LET t == LoanTaken(u, s, roll)
        IN  /\ LoanStep(loans, t, DOMAIN users, u, Borrowed(users[u], s), clock, base_filled(s))
            /\ \A k \in LoansOf(loans, u) : k \in DOMAIN t /\ t[k] = loans[k]
    BY <1>8, <2>1, LoansTaken
  <2> QED BY <2>2 DEF roll, l1, m1
<1>13. <<u, n>> \in DOMAIN l1 /\ l1[<<u, n>>] = l
  <2>1. <<u, n>> \in LoansOf(loans, u)
    BY DEF LoansOf
  <2> QED BY <1>12, <2>1
<1>14. /\ r \in MarginUser /\ r.pending = m1.pending /\ Entitled(r) = Entitled(m1)
       /\ r.committed = m1.committed - amount
       /\ LoanStep(l1, lt, DOMAIN users, u, r, clock, 0 - amount)
  <2>1. Unpaid(m1, n)
    BY <1>1, <1>11 DEF Unpaid
  <2>2. LoanMap(l1, DOMAIN users) /\ OwnLoans(m1, l1, u, clock) /\ amount <= l1[<<u, n>>].balance
    BY <1>10, <1>12, <1>13 DEF LoanStep
  <2> QED BY <1>2, <1>10, <1>11, <1>13, <2>1, <2>2, LoanPaid DEF r, lt
<1>15. /\ LoanMap(lt, DOMAIN users) /\ OwnLoans(r, lt, u, clock) /\ Others(loans, lt, DOMAIN users \ {u})
       /\ Total(Balances(lt)) = Total(Balances(loans)) + base_filled(s) - amount
  <2>1. Others(loans, lt, DOMAIN users \ {u})
    BY <1>12, <1>14 DEF LoanStep, Others
  <2>2. Total(Balances(lt)) = Total(Balances(loans)) + base_filled(s) - amount
    BY <1>8, <1>10, <1>12, <1>14, TotalsTyped DEF LoanStep
  <2> QED BY <1>14, <2>1, <2>2 DEF LoanStep
<1>16. /\ n1 \in [DOMAIN users -> Notes] /\ n1[u].claims = notes[u].claims + s.total_base
       /\ notes[u].claims \in Nat /\ \A v \in DOMAIN users \ {u} : n1[v] = notes[v]
  BY <1>8, ClaimsNoted DEF n1
<1>17. x \in Nat
  BY <1>1, <1>8, <1>10, <1>16 DEF x
<1>18. notes' \in [DOMAIN users -> Notes] /\ notes'[u].claims = x /\ \A v \in DOMAIN users \ {u} : notes'[v] = notes[v]
  BY <1>1, <1>16, <1>17, ClaimsSet
<1>19. UserStep(u, r)
  <2>1. \A v \in DOMAIN users \ {u} :
          notes'[v].claims = notes[v].claims /\ Debt(v, book', queue') = Debt(v, book, queue)
    BY <1>6, <1>18, DebtNat
  <2>2. notes'[u].claims >= total(r)
    <3>1. m1.pending \in Nat /\ m1.committed \in Nat /\ total(m) \in Nat
      BY <1>2, <1>11, UserNumbers DEF MarginUser, total
    <3>2. total(r) = total(m1) - amount
      BY <1>10, <1>14, <3>1 DEF total
    <3> QED BY <1>2, <1>8, <1>10, <1>11, <1>16, <1>18, <3>1, <3>2 DEF x
  <2>3. r.pending = Debt(u, book', queue')
    BY <1>2, <1>5, <1>6, <1>11, <1>14
  <2> QED BY <1>1, <1>14, <1>15, <1>18, <2>1, <2>2, <2>3 DEF UserStep
<1>20. /\ LedgerInv' /\ AccountedInv'
       /\ Total(EntitledOf(users')) = Total(EntitledOf(users)) + (Entitled(r) - Entitled(m))
       /\ Entitled(r) \in Nat /\ Entitled(m) \in Nat
  BY <1>19, UserSteps
<1>21. FundsInv'
  BY <1>1, <1>2, <1>8, <1>9 DEF FundsInv
<1>22. CoveredInv'
  <2>1. Total(tickets') = Total(tickets) /\ Deposited(deposits') = Deposited(deposits)
    BY <1>1
  <2>2. Total(EntitledOf(users')) = Total(EntitledOf(users))
    BY <1>11, <1>14, <1>20, TotalsTyped
  <2>3. Owed(book', queue') <= Owed(book, queue) + base_filled(s) - quote_filled(s)
    BY <1>5, <1>6, <1>8, TotalsTyped
  <2>4. Total(Balances(loans')) = Total(Balances(loans)) + base_filled(s) - amount
    BY <1>1, <1>15
  <2> QED BY <1>1, <1>2, <1>8, <1>9, <1>10, <2>1, <2>2, <2>3, <2>4, TotalsTyped DEF CoveredInv
<1> QED BY <1>8, <1>20, <1>21, <1>22 DEF FixedTermInv

\* auto_roll_lend_order: the deposit is closed and its tokens are lent.
LEMMA RollLendStep ==
  ASSUME FixedTermInv, NEW u \in DOMAIN users, NEW k \in DOMAIN deposits, auto_roll_lend_order(u, k)
  PROVE  FixedTermInv'
<1> DEFINE a == deposits[k].amount
           m == redeem_deposit_of(users[u], a)
           p == OrderParams(MaxQty, a, m.lend_roll_price, {"post_allowed", "auto_stake", "auto_roll"})
           fl == LendFlags(p)
           s == Placed("Bid", p, u, fl)
           r == lend_order(m, base_filled(s), s.base_posted)
           x == notes[u].ticket_collateral - a + s.total_base
           rest == Drop(deposits, k)
           seqno == m.next_deposit_seqno
           j == <<u, seqno>>
           d == TermDeposit(u, seqno, base_filled(s), fl)
<1>1. /\ notes[u].ticket_collateral >= a /\ m.lend_roll_price # None /\ OrderAccepted(s) /\ Commit(s)
      /\ users' = [users EXCEPT ![u] = r]
      /\ notes' = [notes EXCEPT ![u].ticket_collateral = x]
      /\ deposits' = (IF base_filled(s) > 0 THEN Put(rest, j, d) ELSE rest)
      /\ UNCHANGED <<loans, tickets, vault, clock>>
  BY DEF auto_roll_lend_order
<1>2. /\ users[u] \in MarginUser /\ FundsInv /\ CoveredInv /\ DepositMap(deposits) /\ vault \in Nat
      /\ clock \in Nat /\ tickets \in [Holders -> Nat] /\ notes \in [DOMAIN users -> Notes] /\ u \in Holders
  BY DEF FixedTermInv, FundsInv, LedgerInv, Ledger, Users, Holders
<1>3. a \in Nat
  BY <1>2, DepositSums
<1>4. DepositMap(rest) /\ Deposited(rest) = Deposited(deposits) - a
  BY <1>2, DepositDrop
<1> HIDE DEF a, rest
<1>5. m \in MarginUser /\ Keeps(users[u], m)
  BY <1>2, <1>3, RedeemDepositOf
<1> HIDE DEF m
<1>6. p \in ValidOrders /\ p.max_underlying_token_qty = a
  <2> DEFINE price == m.lend_roll_price
             opts == {"post_allowed", "auto_stake", "auto_roll"}
  <2>1. price \in Nat \ {0}
    BY <1>1, <1>5, UserNumbers DEF MarginUser, None
  <2> HIDE DEF price, opts
  <2>2. /\ OrderParams(MaxQty, a, price, opts) \in ValidOrders
        /\ OrderParams(MaxQty, a, price, opts).max_underlying_token_qty = a
    BY <1>3, <2>1, RollOrder
  <2> QED BY <2>2 DEF price, opts
<1> HIDE DEF p
<1>7. CallbackInfo(u, fl) \in Infos(DOMAIN users)["Bid"]
  BY LendInfo
<1>8. s = Placed("Bid", p, u, fl)
  OBVIOUS
<1> HIDE DEF fl, s, r, x
<1>9. /\ MarketStep(s, p)
      /\ Owed(book', queue') <= Owed(book, queue) + s.total_quote - base_filled(s)
      /\ \A v : Debt(v, book', queue') = Debt(v, book, queue)
  BY <1>1, <1>6, <1>7, <1>8, BidCommitted
<1>10. DOMAIN users' = DOMAIN users
  BY <1>1
<1>11. /\ MarketInv' /\ Owed(book', queue') \in Int
       /\ base_filled(s) \in Nat /\ s.base_posted \in Nat /\ s.total_quote \in Nat /\ s.total_base \in Nat
       /\ s.total_quote <= a
  BY <1>6, <1>9, <1>10, StepNumbers
<1>12. r \in MarginUser /\ Keeps(m, r)
  BY <1>5, <1>11, LendOrder DEF r
<1>13. x \in Nat
  BY <1>1, <1>2, <1>3, <1>11 DEF x, Notes
<1>14. notes' \in [DOMAIN users -> Notes] /\ \A v \in DOMAIN users : notes'[v].claims = notes[v].claims
  BY <1>1, <1>2, <1>13, CollateralNoted
<1>15. Keeps(users[u], r)
  BY <1>5, <1>12 DEF Keeps, SameDebt
<1>16. KeptStep(u, r)
  BY <1>1, <1>12, <1>14, <1>15 DEF KeptStep, Keeps
<1>17. /\ LedgerInv' /\ AccountedInv'
       /\ Total(EntitledOf(users')) = Total(EntitledOf(users)) + (Entitled(r) - Entitled(users[u]))
       /\ Entitled(r) \in Nat
  <2>1. r.pending = users[u].pending - 0
    BY <1>15, DebtNat DEF Keeps
  <2>2. \A v \in DOMAIN users : Debt(v, book', queue') = Debt(v, book, queue) - (IF v = u THEN 0 ELSE 0)
    BY <1>9, DebtNat
  <2> QED BY <1>16, <2>1, <2>2, KeptSteps
<1>18. /\ DepositMap(deposits') /\ Deposited(deposits') \in Nat
       /\ Deposited(deposits') <= Deposited(deposits) - a + base_filled(s)
  <2>1. CASE base_filled(s) > 0
    <3>1. seqno \in Nat
      BY <1>5, UserNumbers DEF MarginUser
    <3>2. d \in TermDeposits /\ d.amount = base_filled(s)
      BY <1>2, <1>11, <2>1, <3>1, NewTermDeposit
    <3> HIDE DEF d, j
    <3>3. DepositMap(deposits') /\ Deposited(deposits') <= Deposited(rest) + d.amount
      BY <1>1, <1>4, <2>1, <3>2, DepositPut
    <3> QED BY <1>3, <1>4, <3>2, <3>3, DepositSums
  <2>2. CASE ~(base_filled(s) > 0)
    <3>1. deposits' = rest
      BY <1>1, <2>2
    <3>2. Deposited(rest) \in Nat
      BY <1>4, DepositSums
    <3> QED BY <1>3, <1>4, <1>11, <2>2, <3>1, <3>2, TotalsTyped
  <2> QED BY <2>1, <2>2
<1>19. FundsInv'
  BY <1>1, <1>2, <1>18 DEF FundsInv
<1>20. CoveredInv'
  <2>1. /\ Total(tickets') = Total(tickets) /\ Total(Balances(loans')) = Total(Balances(loans))
        /\ vault' = vault
    BY <1>1
  <2>2. Total(EntitledOf(users')) = Total(EntitledOf(users))
    BY <1>15, <1>17, TotalsTyped DEF Keeps
  <2> QED BY <1>2, <1>3, <1>9, <1>11, <1>18, <2>1, <2>2, TotalsTyped DEF CoveredInv
<1> QED BY <1>11, <1>17, <1>19, <1>20 DEF FixedTermInv


-----------------------------------------------------------------------------
(* The invariant *)

\* Nothing is open at the start.
LEMMA InitInv ==
  ASSUME Init
  PROVE  FixedTermInv
<1>1. DOMAIN <<>> = {} /\ IsFiniteSet({})
  BY FS_EmptySet
<1>2. /\ book = [side \in Sides |-> <<>>] /\ queue = <<>> /\ nonce = 0
      /\ users = <<>> /\ notes = <<>> /\ loans = <<>> /\ deposits = <<>>
      /\ tickets = [h \in Holders |-> 0] /\ vault = 0 /\ clock = 0
  BY DEF Init, Sides
<1>3. MarketInv
  <2>1. IsBook(book, Infos(DOMAIN users))
    BY <1>2 DEF IsBook
  <2>2. queue \in Seq(Events(DOMAIN users)) /\ Len(queue) = 0
    BY <1>2
  <2>3. QueueCapacity \in Nat
    BY FixedTermAssumption
  <2> QED BY <1>2, <2>1, <2>2, <2>3 DEF MarketInv, Market
<1>4. FundsInv
  <2>1. DepositMap(deposits)
    BY <1>1, <1>2 DEF DepositMap
  <2> QED BY <1>2, <2>1 DEF FundsInv
<1>5. LedgerInv /\ AccountedInv
  <2>1. DOMAIN users = {} /\ Users(users) /\ notes \in [DOMAIN users -> Notes]
    BY <1>1, <1>2 DEF Users
  <2>2. LoanMap(loans, DOMAIN users)
    BY <1>1, <1>2 DEF LoanMap
  <2> QED BY <2>1, <2>2 DEF LedgerInv, Ledger, AccountedInv, Accounted
<1>6. CoveredInv
  <2>1. Total(tickets) = 0
    <3>1. IsFiniteSet(Holders) /\ DOMAIN tickets = Holders /\ \A h \in Holders : tickets[h] = 0
      BY <1>2, FixedTermAssumption DEF Holders
    <3> QED BY <3>1, SumZero DEF Total
  <2>2. Deposited(deposits) = 0 /\ Total(EntitledOf(users)) = 0 /\ Total(Balances(loans)) = 0
    <3>1. DOMAIN AmountsOf(deposits) = {} /\ DOMAIN EntitledOf(users) = {} /\ DOMAIN Balances(loans) = {}
      BY <1>1, <1>2 DEF AmountsOf, EntitledOf, Balances
    <3> QED BY <3>1, SumEmpty DEF Total, Deposited
  <2>3. Owed(book, queue) = 0
    <3>1. book["Bid"] = <<>> /\ book["Ask"] = <<>> /\ queue = <<>>
      BY <1>2 DEF Sides
    <3> QED BY <3>1, WeightEmpty DEF Owed
  <2> QED BY <1>2, <2>1, <2>2, <2>3 DEF CoveredInv
<1> QED BY <1>3, <1>4, <1>5, <1>6 DEF FixedTermInv

\* Every handler keeps the invariant.
LEMMA NextInv ==
  ASSUME FixedTermInv, [Next]_vars
  PROVE  FixedTermInv'
<1>0. /\ DOMAIN users \subseteq MarginUsers /\ LoanMap(loans, DOMAIN users)
      /\ \A h \in Wallets : h \in Holders
  BY DEF FixedTermInv, LedgerInv, Ledger, Users, Holders
<1>1. ASSUME OrderNext PROVE FixedTermInv'
  <2>1. ASSUME NEW u \in DOMAIN users, NEW p \in BorrowOrders[u], margin_borrow_order(u, p) PROVE FixedTermInv'
    BY <2>1, BorrowStep
  <2>2. ASSUME NEW u \in DOMAIN users, NEW p \in LendOrders[u], margin_lend_order(u, p) PROVE FixedTermInv'
    BY <2>2, LendStep
  <2>3. ASSUME NEW u \in DOMAIN users, NEW p \in SellOrders[u], margin_sell_tickets_order(u, p) PROVE FixedTermInv'
    BY <2>3, MarginSellStep
  <2>4. ASSUME NEW u \in DOMAIN users, NEW k \in DOMAIN loans, k[1] = u, auto_roll_borrow_order(u, k[2])
        PROVE  FixedTermInv'
    <3>1. k = <<u, k[2]>>
      BY <1>0, <2>4 DEF LoanMap
    <3> QED BY <2>4, <3>1, RollBorrowStep
  <2>5. ASSUME NEW u \in DOMAIN users, NEW k \in DOMAIN deposits, auto_roll_lend_order(u, k) PROVE FixedTermInv'
    BY <2>5, RollLendStep
  <2>6. ASSUME NEW w \in Wallets, NEW p \in LendOrders[w], lend_order_signed(w, p) PROVE FixedTermInv'
    BY <2>6, LendSignedStep
  <2>7. ASSUME NEW w \in Wallets, NEW p \in SellOrders[w], sell_tickets_order(w, p) PROVE FixedTermInv'
    BY <2>7, SellStep
  <2>8. ASSUME NEW side \in {"Bid", "Ask"}, NEW i \in DOMAIN book[side], cancel_order(side, i) PROVE FixedTermInv'
    BY <2>8, CancelStep DEF Sides
  <2> QED BY <1>1, <2>1, <2>2, <2>3, <2>4, <2>5, <2>6, <2>7, <2>8 DEF OrderNext
<1>2. ASSUME AccountNext PROVE FixedTermInv'
  <2>1. ASSUME NEW u \in MarginUsers, initialize_margin_user(u) PROVE FixedTermInv'
    BY <2>1, InitializeStep
  <2>2. ASSUME NEW u \in DOMAIN users, settle(u) PROVE FixedTermInv'
    BY <2>2, SettleStep
  <2>3. ASSUME NEW u \in DOMAIN users, NEW k \in DOMAIN loans, NEW a \in Amounts, k[1] = u, repay(u, k[2], a)
        PROVE  FixedTermInv'
    <3>1. k = <<u, k[2]>>
      BY <1>0, <2>3 DEF LoanMap
    <3> QED BY <2>3, <3>1, RepayStep
  <2>4. ASSUME NEW u \in DOMAIN users, NEW k \in DOMAIN deposits, margin_redeem_deposit(u, k) PROVE FixedTermInv'
    BY <2>4, MarginRedeemStep
  <2>5. ASSUME NEW c \in RollConfigs, c[1] \in DOMAIN users, configure_auto_roll(c[1], c[2], c[3], c[4])
        PROVE  FixedTermInv'
    BY <2>5, ConfigureStep
  <2>6. ASSUME NEW k \in DOMAIN loans, toggle_auto_roll_loan(k) PROVE FixedTermInv'
    BY <2>6, ToggleLoanStep
  <2>7. ASSUME NEW k \in DOMAIN deposits, toggle_auto_roll_deposit(k) PROVE FixedTermInv'
    BY <2>7, DepositSteps
  <2>8. ASSUME NEW k \in DOMAIN deposits, NEW w \in Wallets, redeem_deposit(w, k) PROVE FixedTermInv'
    BY <2>8, RedeemStep
  <2>9. ASSUME NEW k \in DOMAIN deposits, NEW h \in Recipients, transfer_deposit(k, h) PROVE FixedTermInv'
    BY <2>9, DepositSteps
  <2>10. ASSUME NEW h \in Holders, NEW a \in Amounts, exchange_tokens(h, a) PROVE FixedTermInv'
    BY <2>10, ExchangeStep
  <2>11. ASSUME NEW w \in Wallets, NEW a \in Amounts, stake_tickets(w, a) PROVE FixedTermInv'
    BY <1>0, <2>11, StakeStep
  <2> QED BY <1>2, <2>1, <2>2, <2>3, <2>4, <2>5, <2>6, <2>7, <2>8, <2>9, <2>10, <2>11 DEF AccountNext
<1>3. ASSUME consume_events PROVE FixedTermInv'
  BY <1>3, ConsumeStep
<1>4. ASSUME Tick PROVE FixedTermInv'
  BY <1>4, TickStep
<1>5. ASSUME UNCHANGED vars PROVE FixedTermInv'
  BY <1>5 DEF vars, FixedTermInv, MarketInv, FundsInv, LedgerInv, AccountedInv, CoveredInv
<1> QED BY <1>1, <1>2, <1>3, <1>4, <1>5 DEF Next

\* The market's book, queue, accounts and funds stay in order together.
THEOREM FixedTermInvAlways == Spec => []FixedTermInv
<1>1. Init => FixedTermInv
  BY InitInv
<1>2. FixedTermInv /\ [Next]_vars => FixedTermInv'
  BY NextInv
<1> QED BY <1>1, <1>2, PTL DEF Spec


-----------------------------------------------------------------------------
(* What the invariant says *)

\* A sum over a sequence is a weight.
LEMMA SumIsWeight ==
  ASSUME NEW S, NEW w \in [S -> Int], NEW s \in Seq(S), NEW f, DOMAIN f = DOMAIN s,
         \A i \in DOMAIN s : f[i] = w[s[i]]
  PROVE  Total(f) = Weight(w, s)
<1> DEFINE g == [i \in DOMAIN s |-> w[s[i]]]
<1>1. IsFiniteSet(DOMAIN s)
  BY FS_Interval
<1>2. \A i \in DOMAIN s : f[i] = g[i]
  OBVIOUS
<1>3. SumOver(f, DOMAIN s) = SumOver(g, DOMAIN s)
  BY <1>1, <1>2, SumSame
<1> QED BY <1>3 DEF Total, Weight

\* the market as anyone sees it
LEMMA MarketSeqs ==
  ASSUME FixedTermInv
  PROVE  /\ book["Bid"] \in Seq(Order(Anyone["Bid"])) /\ book["Ask"] \in Seq(Order(Anyone["Ask"]))
         /\ queue \in Seq(Events(MarginUsers))
<1>1. Market(book, queue, DOMAIN users) /\ DOMAIN users \subseteq MarginUsers
  BY DEF FixedTermInv, MarketInv, LedgerInv, Ledger, Users
<1>2. Market(book, queue, MarginUsers)
  BY <1>1, MoreMarket
<1> QED BY <1>2 DEF Market, IsBook, Anyone, Sides

\* What is owed for orders and events, as Solvent sums it up.
LEMMA OwedIs ==
  ASSUME FixedTermInv
  PROVE  LET due == Total([i \in DOMAIN queue |-> DueForEvent(queue[i])])
             owed == Total([i \in DOMAIN queue |-> OwedForEvent(queue[i])])
         IN  /\ due \in Int /\ owed \in Int
             /\ Total(OwedForOrders("Bid")) \in Int /\ Total(OwedForOrders("Ask")) \in Int
             /\ Owed(book, queue) = Total(OwedForOrders("Bid")) + Total(OwedForOrders("Ask")) + (owed - due)
<1> DEFINE f == [i \in DOMAIN queue |-> OwedForEvent(queue[i])]
           g == [i \in DOMAIN queue |-> DueForEvent(queue[i])]
           h == [i \in DOMAIN queue |-> OwedForEvent(queue[i]) - DueForEvent(queue[i])]
           N == NetOf(Events(MarginUsers))
<1>1. /\ book["Bid"] \in Seq(Order(Anyone["Bid"])) /\ book["Ask"] \in Seq(Order(Anyone["Ask"]))
      /\ queue \in Seq(Events(MarginUsers))
  BY MarketSeqs
<1>2. Total(OwedForOrders("Bid")) = Weight(OwedBid, book["Bid"]) /\ Weight(OwedBid, book["Bid"]) \in Int
  <2> DEFINE s == book["Bid"]
             S == Order(Anyone["Bid"])
             o == OwedForOrders("Bid")
  <2>1. DOMAIN o = DOMAIN s /\ \A i \in DOMAIN s : o[i] = OwedForOrder("Bid", s[i])
    BY DEF OwedForOrders
  <2> HIDE DEF s, o
  <2>2. s \in Seq(S) /\ OwedBid \in [S -> Int]
    BY <1>1, WeightsTyped DEF s
  <2>3. \A i \in DOMAIN s : s[i] \in S
    BY <2>2
  <2>4. \A i \in DOMAIN s : o[i] = OwedBid[s[i]]
    BY <2>1, <2>3 DEF OwedBid
  <2> HIDE DEF S
  <2> QED BY <2>1, <2>2, <2>4, SumIsWeight, WeightType DEF s, o
<1>3. Total(OwedForOrders("Ask")) = Weight(OwedAsk, book["Ask"]) /\ Weight(OwedAsk, book["Ask"]) \in Int
  <2> DEFINE s == book["Ask"]
             S == Order(Anyone["Ask"])
             o == OwedForOrders("Ask")
  <2>1. DOMAIN o = DOMAIN s /\ \A i \in DOMAIN s : o[i] = OwedForOrder("Ask", s[i])
    BY DEF OwedForOrders
  <2> HIDE DEF s, o
  <2>2. s \in Seq(S) /\ OwedAsk \in [S -> Int]
    BY <1>1, WeightsTyped DEF s
  <2>3. \A i \in DOMAIN s : s[i] \in S
    BY <2>2
  <2>4. \A i \in DOMAIN s : o[i] = OwedAsk[s[i]]
    BY <2>1, <2>3 DEF OwedAsk
  <2> HIDE DEF S
  <2> QED BY <2>1, <2>2, <2>4, SumIsWeight, WeightType DEF s, o
<1>4. IsFiniteSet(DOMAIN queue)
  BY <1>1, FS_Interval
<1>5. \A i \in DOMAIN queue : queue[i] \in Events(MarginUsers)
  BY <1>1
<1>6. \A i \in DOMAIN queue : f[i] \in Int /\ g[i] \in Int /\ h[i] = f[i] - g[i]
  <2> SUFFICES ASSUME NEW i \in DOMAIN queue PROVE f[i] \in Int /\ g[i] \in Int
    OBVIOUS
  <2> DEFINE e == queue[i]
  <2>1. EventFacts(e, MarginUsers)
    BY <1>5, EventIs
  <2> HIDE DEF e
  <2>2. OwedForEvent(e) \in Int /\ DueForEvent(e) \in Int
    BY <2>1 DEF EventFacts, OwedForEvent, DueForEvent, OwedForOrder, EventQuote, Sides
  <2> QED BY <2>2 DEF e
<1>7. Total(h) = Weight(N, queue) /\ Weight(N, queue) \in Int
  <2>1. N \in [Events(MarginUsers) -> Int]
    BY WeightsTyped
  <2>2. DOMAIN h = DOMAIN queue /\ \A i \in DOMAIN queue : h[i] = N[queue[i]]
    BY <1>5 DEF NetOf
  <2> HIDE DEF h, N
  <2> QED BY <1>1, <2>1, <2>2, SumIsWeight, WeightType
<1>8. DOMAIN f = DOMAIN queue /\ DOMAIN g = DOMAIN queue /\ DOMAIN h = DOMAIN queue
  OBVIOUS
<1> HIDE DEF f, g, h
<1>9. SumOver(h, DOMAIN queue) = SumOver(f, DOMAIN queue) - SumOver(g, DOMAIN queue)
  BY <1>4, <1>6, SumMinus
<1>10. Total(f) \in Int /\ Total(g) \in Int /\ Total(h) = Total(f) - Total(g)
  BY <1>4, <1>6, <1>8, <1>9, SumType DEF Total
<1> QED BY <1>2, <1>3, <1>7, <1>10 DEF Owed, f, g

\* A user's open debt, as DebtIsAccounted sums it up.
LEMMA OpenDebtIs ==
  ASSUME FixedTermInv, NEW u
  PROVE  OpenDebt(u) = Debt(u, book, queue)
<1>1. book["Ask"] \in Seq(Order(Anyone["Ask"])) /\ queue \in Seq(Events(MarginUsers))
  BY MarketSeqs
<1>2. ASSUME NEW S, NEW s \in Seq(S), DebtOf(u, S) \in [S -> Int]
      PROVE  Total(DebtIn(u, s)) = Weight(DebtOf(u, S), s)
  <2> DEFINE f == DebtIn(u, s)
             w == DebtOf(u, S)
  <2>1. \A i \in DOMAIN s : s[i] \in S
    OBVIOUS
  <2>2. DOMAIN f = DOMAIN s /\ \A i \in DOMAIN s : f[i] = w[s[i]]
    BY <2>1 DEF DebtIn, DebtOf, DebtIf
  <2>3. w \in [S -> Int]
    BY <1>2
  <2> HIDE DEF f, w
  <2> QED BY <2>2, <2>3, SumIsWeight DEF f, w
<1> QED BY <1>1, <1>2, WeightsTyped DEF OpenDebt, Debt

\* The state has its type, and no balance is negative.
THEOREM MarketTypeAlways == Spec => []TypeOK
<1>1. FixedTermInv => TypeOK
  <2> SUFFICES ASSUME FixedTermInv PROVE TypeOK
    OBVIOUS
  <2>1. /\ Users(users) /\ notes \in [DOMAIN users -> Notes] /\ LoanMap(loans, DOMAIN users)
        /\ tickets \in [Holders -> Nat] /\ vault \in Nat /\ DepositMap(deposits)
        /\ Len(queue) <= QueueCapacity
    BY DEF FixedTermInv, MarketInv, FundsInv, LedgerInv, Ledger
  <2>2. ASSUME NEW u \in DOMAIN users PROVE Checked(users[u]) /\ Checked(notes[u])
    <3>1. users[u] \in [UserFields -> Nat]
      BY <2>1 DEF Users, MarginUser, UserOf
    <3>2. notes[u] \in Notes
      BY <2>1
    <3> QED BY <3>1, <3>2 DEF Checked, Notes
  <2>3. ASSUME NEW k \in DOMAIN loans PROVE k[1] \in DOMAIN users /\ loans[k].balance > 0
    <3> DEFINE D == DOMAIN users
    <3>1. LoanMap(loans, D)
      BY <2>1
    <3> HIDE DEF D
    <3>2. k \in D \X Nat
      BY <3>1, Zenon DEF LoanMap
    <3>3. loans[k].balance \in Nat \ {0}
      BY <3>1, LoanSums
    <3>4. k[1] \in D
      BY <3>2
    <3>5. loans[k].balance > 0
      BY <3>3
    <3> QED BY <3>4, <3>5 DEF D
  <2>4. ASSUME NEW k \in DOMAIN deposits PROVE deposits[k].owner \in Holders /\ deposits[k].amount > 0
    BY <2>1 DEF DepositMap, TermDeposits
  <2>5. DOMAIN users \subseteq MarginUsers /\ DOMAIN notes = DOMAIN users /\ Checked(tickets) /\ vault >= 0
    BY <2>1 DEF Users, Checked
  <2> QED BY <2>1, <2>2, <2>3, <2>4, <2>5 DEF TypeOK
<1> QED BY <1>1, FixedTermInvAlways, PTL

\* The tokens in the vault and the loans cover everything that the market owes:
\* tickets, deposits, entitlements, open orders and queued events.
THEOREM MarketAlwaysSolvent == Spec => []Solvent
<1>1. FixedTermInv => Solvent
  <2> SUFFICES ASSUME FixedTermInv PROVE Solvent
    OBVIOUS
  <2> DEFINE due == Total([i \in DOMAIN queue |-> DueForEvent(queue[i])])
             owed == Total([i \in DOMAIN queue |-> OwedForEvent(queue[i])])
             bids == Total(OwedForOrders("Bid"))
             asks == Total(OwedForOrders("Ask"))
             V == vault
             L == Total(Balances(loans))
             T == Total(tickets)
             D == Total([k \in DOMAIN deposits |-> deposits[k].amount])
             E == Total([u \in DOMAIN users |-> users[u].entitled_tickets + users[u].entitled_tokens])
  <2>1. /\ due \in Int /\ owed \in Int /\ bids \in Int /\ asks \in Int
        /\ Owed(book, queue) = bids + asks + (owed - due)
    BY OwedIs
  <2>2. D = Deposited(deposits) /\ E = Total(EntitledOf(users))
    BY DEF Deposited, AmountsOf, EntitledOf
  <2>3. T \in Nat /\ L \in Nat /\ V \in Nat /\ D \in Nat /\ E \in Nat
    BY <2>2, TotalsTyped
  <2>4. T + D + E + Owed(book, queue) <= V + L
    BY <2>2 DEF FixedTermInv, CoveredInv
  <2>5. Solvent <=> V + L + due >= T + D + E + bids + asks + owed
    BY DEF Solvent
  <2> HIDE DEF due, owed, bids, asks, V, L, T, D, E
  <2>6. V + L + due >= T + D + E + bids + asks + owed
    BY <2>1, <2>3, <2>4
  <2> QED BY <2>5, <2>6
<1> QED BY <1>1, FixedTermInvAlways, PTL

\* Debt counts the open borrow orders and the loans, and the claims that the margin
\* program sees are never less.
THEOREM DebtAlwaysAccounted == Spec => []DebtIsAccounted
<1>1. FixedTermInv => DebtIsAccounted
  <2> SUFFICES ASSUME FixedTermInv, NEW u \in DOMAIN users
               PROVE  /\ users[u].pending = OpenDebt(u)
                      /\ users[u].committed = SumOver(Balances(loans), LoansOf(loans, u))
                      /\ notes[u].claims >= total(users[u])
    BY DEF DebtIsAccounted
  <2>1. OwnLoans(users[u], loans, u, clock)
    BY DEF FixedTermInv, LedgerInv, Ledger
  <2>2. users[u].pending = Debt(u, book, queue) /\ notes[u].claims >= total(users[u])
    BY DEF FixedTermInv, AccountedInv, Accounted
  <2> QED BY <2>1, <2>2, OpenDebtIs DEF OwnLoans
<1> QED BY <1>1, FixedTermInvAlways, PTL

\* The one maturity that Debt keeps tells whether any loan of the user is due.
THEOREM PastDueAlwaysExact == Spec => []PastDueIsExact
<1>1. FixedTermInv => PastDueIsExact
  <2> SUFFICES ASSUME FixedTermInv, NEW u \in DOMAIN users
               PROVE  /\ {k[2] : k \in LoansOf(loans, u)} = users[u].next_unpaid_term_loan_seqno
                                                        .. users[u].next_new_term_loan_seqno - 1
                      /\ is_past_due(users[u], clock)
                           <=> \E k \in LoansOf(loans, u) : loans[k].maturity <= clock
    BY DEF PastDueIsExact
  <2> DEFINE m == users[u]
             a == m.next_unpaid_term_loan_seqno
             b == m.next_new_term_loan_seqno
  <2>1. OwnLoans(m, loans, u, clock) /\ LoanMap(loans, DOMAIN users) /\ m \in MarginUser /\ clock \in Nat
    BY DEF FixedTermInv, FundsInv, LedgerInv, Ledger, Users
  <2>2. a \in Nat /\ b \in Nat
    BY <2>1, UserNumbers DEF MarginUser
  <2>3. LoansOf(loans, u) = {<<u, n>> : n \in a .. b - 1}
    BY <2>1 DEF OwnLoans, Numbers
  <2>4. {k[2] : k \in LoansOf(loans, u)} = a .. b - 1
    <3> DEFINE A == {k[2] : k \in LoansOf(loans, u)}
               I == a .. b - 1
               B == {<<u, n>> : n \in I}
    <3> HIDE DEF I
    <3>1. \A n \in I : <<u, n>> \in B /\ <<u, n>>[2] = n
      OBVIOUS
    <3>2. \A k \in B : k[2] \in I
      OBVIOUS
    <3>3. A = {k[2] : k \in B}
      BY <2>3 DEF I
    <3> HIDE DEF A, B
    <3>4. \A n \in I : \E k \in B : k[2] = n
      BY <3>1
    <3> QED BY <3>2, <3>3, <3>4 DEF A, I
  <2>5. /\ \A i, j \in a .. b - 1 : i <= j => loans[<<u, i>>].maturity <= loans[<<u, j>>].maturity
        /\ a < b => m.next_term_loan_maturity = loans[<<u, a>>].maturity
    BY <2>1 DEF OwnLoans, Numbers
  <2>6. \A i \in a .. b - 1 : loans[<<u, i>>].maturity \in Nat
    <3>1. \A i \in a .. b - 1 : <<u, i>> \in DOMAIN loans
      BY <2>3 DEF LoansOf
    <3> QED BY <2>1, <3>1, LoanSums
  <2>7. is_past_due(m, clock) <=> b > a /\ m.next_term_loan_maturity <= clock
    BY DEF is_past_due
  <2> HIDE DEF m, a, b
  <2>8. ASSUME b > a, m.next_term_loan_maturity <= clock
        PROVE  \E k \in LoansOf(loans, u) : loans[k].maturity <= clock
    <3>1. a \in a .. b - 1
      BY <2>2, <2>8
    <3>2. <<u, a>> \in LoansOf(loans, u) /\ loans[<<u, a>>].maturity <= clock
      BY <2>2, <2>3, <2>5, <2>8, <3>1
    <3> QED BY <3>2
  <2>9. ASSUME NEW k \in LoansOf(loans, u), loans[k].maturity <= clock
        PROVE  b > a /\ m.next_term_loan_maturity <= clock
    <3>1. PICK n \in a .. b - 1 : k = <<u, n>>
      BY <2>3
    <3>2. a \in a .. b - 1 /\ a <= n /\ a < b
      BY <2>2, <3>1
    <3>3. loans[<<u, a>>].maturity <= loans[<<u, n>>].maturity
      BY <2>5, <3>1, <3>2
    <3>4. loans[<<u, a>>].maturity \in Nat /\ loans[<<u, n>>].maturity \in Nat
      BY <2>6, <3>1, <3>2
    <3> QED BY <2>1, <2>2, <2>5, <2>9, <3>1, <3>2, <3>3, <3>4
  <2> QED BY <2>4, <2>7, <2>8, <2>9 DEF m, a, b
<1> QED BY <1>1, FixedTermInvAlways, PTL


=============================================================================
