--------------------------- MODULE MarketControl ---------------------------
(***************************************************************************)
(* The control instructions of the fixed-term program (programs/fixed-term *)
(* /src/control): the authority of an airspace creates markets in it, sets *)
(* up their order books, pauses and resumes matching and lets cranks       *)
(* consume their events.  The markets themselves are the FixedTerm module. *)
(***************************************************************************)
EXTENDS Airspace

CONSTANTS
  Markets, Cranks,
  MaxFees      \* bound: fees in the vault up to which orders collect more

VARIABLES
  markets,     \* airspace, order book and fee vault of the markets
  cranks       \* airspace of each CrankAuthorization, by market and crank

marketVars == <<markets, cranks>>

InitMarkets == markets = << >> /\ cranks = << >>

\* the market is in the airspace whose authority signs
MarketOf(m, a) == m \in DOMAIN markets /\ markets[m].airspace = a

-----------------------------------------------------------------------------
\* the market, its vaults and mints, before it has an order book
NewMarket(a) == [airspace |-> a, orderbook |-> FALSE, paused |-> FALSE, fees |-> 0]

initialize_market(s, a, m) ==
  /\ SignsFor(s, a)
  /\ m \notin DOMAIN markets
  /\ markets' = Put(markets, m, NewMarket(a))
  /\ UNCHANGED cranks

initialize_orderbook(s, a, m) ==
  /\ SignsFor(s, a) /\ MarketOf(m, a)
  /\ ~markets[m].orderbook
  /\ markets' = [markets EXCEPT ![m].orderbook = TRUE]
  /\ UNCHANGED cranks

pause_order_matching(s, a, m) ==
  /\ SignsFor(s, a) /\ MarketOf(m, a)
  /\ markets[m].orderbook
  /\ markets' = [markets EXCEPT ![m].paused = TRUE]
  /\ UNCHANGED cranks

\* the book clears the flag once it has matched its crossed orders
resume_order_matching(s, a, m) ==
  /\ SignsFor(s, a) /\ MarketOf(m, a)
  /\ markets[m].orderbook /\ markets[m].paused
  /\ \E done \in BOOLEAN : markets' = [markets EXCEPT ![m].paused = ~done]
  /\ UNCHANGED cranks

authorize_crank(s, a, m, c) ==
  /\ SignsFor(s, a) /\ MarketOf(m, a)
  /\ <<m, c>> \notin DOMAIN cranks
  /\ cranks' = Put(cranks, <<m, c>>, a)
  /\ UNCHANGED markets

\* the market is not among the accounts of this instruction
revoke_crank(s, a, m, c) ==
  /\ SignsFor(s, a)
  /\ <<m, c>> \in DOMAIN cranks /\ cranks[<<m, c>>] = a
  /\ cranks' = Drop(cranks, <<m, c>>)
  /\ UNCHANGED markets

\* anybody may send the fees on their way
withdraw_fees(m) ==
  /\ m \in DOMAIN markets
  /\ markets' = [markets EXCEPT ![m].fees = 0]
  /\ UNCHANGED cranks

\* an order or a consumed event pays an origination fee
FeePaid(m) ==
  /\ m \in DOMAIN markets /\ markets[m].orderbook /\ markets[m].fees < MaxFees
  /\ markets' = [markets EXCEPT ![m].fees = @ + 1]
  /\ UNCHANGED cranks

MarketNext ==
  \/ \E s \in Signers, a \in Airspaces, m \in Markets :
       \/ initialize_market(s, a, m) \/ initialize_orderbook(s, a, m)
       \/ pause_order_matching(s, a, m) \/ resume_order_matching(s, a, m)
       \/ \E c \in Cranks : authorize_crank(s, a, m, c) \/ revoke_crank(s, a, m, c)
  \/ \E m \in Markets : withdraw_fees(m) \/ FeePaid(m)

=============================================================================
