-------------------------------- MODULE Swap --------------------------------
(***************************************************************************)
(* The swap adapter (programs/margin-swap): instructions, invoked by a     *)
(* margin account through the margin program, that exchange its tokens at  *)
(* venues of other programs.  The tokens pass through the account's own    *)
(* token accounts ("transit"), which may hold tokens already.              *)
(*                                                                         *)
(* A transaction happens entirely or not at all, so an instruction is one  *)
(* step, and what it may lead to is a set: exec_swap_split, exec_swap and  *)
(* exec_routes map what has been done so far to the set of possible        *)
(* results, which is empty where the code returns an error or panics.      *)
(* The venues are external: one takes what Taken allows and gives any      *)
(* number of tokens.  Pools change notes and tokens one to one here, their *)
(* rounding is in MarginPool.                                              *)
(***************************************************************************)
EXTENDS Naturals, FiniteSets, Sequences

CONSTANTS
  SwapMints,
  SwapRoutes,        \* the swap_routes of the instructions: sequences of 3 details
  BaseMint,          \* base token of the OpenBook market
  BaseLotSize,       \* its coin_lot_size
  LIQUIDATION_FEE,   \* in 1/10000 of the output
  SwapAmounts,       \* amounts withdrawn or swapped
  MaxTokens          \* bound: tokens of one mint in the account's hands

Venues == {"Spl", "Whirlpool", "SaberStable", "OpenBook"}

RouteDetail == [route_a : Venues \cup {"Empty"}, route_b : Venues \cup {"Empty"},
                destination_mint : SwapMints, split : 0 .. 255]

ASSUME SwapAssumption ==
  /\ BaseMint \in SwapMints /\ BaseLotSize \in Nat \ {0} /\ MaxTokens \in Nat
  /\ SwapAmounts \subseteq Nat \ {0}
  /\ LIQUIDATION_FEE \in 0 .. 10000
  /\ \A routes \in SwapRoutes : DOMAIN routes = 1 .. 3 /\ \A n \in 1 .. 3 : routes[n] \in RouteDetail

VARIABLES
  deposited_in,   \* tokens the account has in the pool of each mint
  transit,        \* tokens in the account's token account of each mint
  collected,      \* liquidation fees in the control authority's accounts
  open_orders     \* the account's OpenOrders for the market exist

swapVars == <<deposited_in, transit, collected, open_orders>>

InitSwap ==
  /\ deposited_in = [m \in SwapMints |-> 0]
  /\ transit = [m \in SwapMints |-> 0]
  /\ collected = [m \in SwapMints |-> 0]
  /\ open_orders = FALSE

-----------------------------------------------------------------------------
(* Routes: validate says whether a detail is a swap, and rejects some.     *)

IsSwap(d) == d.route_a # "Empty" \/ d.route_b # "Empty"

IsRejected(d) ==
  /\ IsSwap(d)
  /\ ~(d.route_b = "Empty" /\ d.split = 0)
  /\ d.route_a = "Empty" \/ d.split \notin 10 .. 90

\* the number of swaps in the routes, or 0 if they are not accepted
valid_swaps(routes) ==
  IF (\E n \in 1 .. 3 : IsRejected(routes[n])) \/ ~IsSwap(routes[1]) THEN 0
  ELSE IF IsSwap(routes[2]) THEN IF IsSwap(routes[3]) THEN 3 ELSE 2
  ELSE IF IsSwap(routes[3]) THEN 0 ELSE 1

-----------------------------------------------------------------------------
(* Venues: what each takes of the amount it is offered.                    *)

\* the pools may need less than they were offered
spl_swap(amount) == 0 .. amount
whirlpool_swap(amount) == 0 .. amount
saber_swap(amount) == {amount}

\* an order on the book is for whole lots, at least one, when the base token is sold
openbook_swap(src, amount) ==
  IF src = BaseMint
    THEN IF amount \div BaseLotSize = 0 THEN {}
         ELSE {n * BaseLotSize : n \in 0 .. amount \div BaseLotSize}
    ELSE 0 .. amount

Taken(venue, src, amount) ==
  IF amount = 0 THEN {} ELSE
  CASE venue = "Spl" -> spl_swap(amount)
    [] venue = "Whirlpool" -> whirlpool_swap(amount)
    [] venue = "SaberStable" -> saber_swap(amount)
    [] venue = "OpenBook" -> IF open_orders THEN openbook_swap(src, amount) ELSE {}
    [] OTHER -> {}

-----------------------------------------------------------------------------
\* Slip: the whole balance counts as the result of the swap.
Gained_all(opening, closing) == closing

\* what an account received between two readings of its balance
Gained(opening, closing) == closing - opening

\* the balances after a venue has taken and given tokens
Exchanged(balances, src, used, dst, out) ==
  LET paid == [balances EXCEPT ![src] = @ - used] IN [paid EXCEPT ![dst] = @ + out]

\* One half of a leg.  s has the transit balances so far, the token and the amount to be
\* swapped next.  The next amount is left to exec_swap.
exec_swap_split(s, venue, dst, amount) ==
  {[s EXCEPT !.transit = Exchanged(@, s.src, used, dst, out)] :
     used \in Taken(venue, s.src, amount) \cap 0 .. s.transit[s.src],
     out \in 0 .. MaxTokens}

\* One leg.  Both halves of a split go to route_a: route_b only says that there is one.
exec_swap(s, d) ==
  LET dst == d.destination_mint
      first == IF d.split = 0 THEN s.amount ELSE (s.amount * d.split) \div 100
      done == {h \in exec_swap_split(s, d.route_a, dst, first) : h.transit[dst] <= MaxTokens}
      both == IF d.split = 0 THEN done
              ELSE IF s.amount - first = 0 THEN {}
              ELSE UNION {exec_swap_split(h, d.route_a, dst, s.amount - first) : h \in done}
  IN  {[h EXCEPT !.src = dst, !.amount = Gained(s.transit[dst], h.transit[dst])] :
         h \in {x \in both : s.transit[dst] <= x.transit[dst] /\ x.transit[dst] <= MaxTokens}}

\* all legs, one after the other
exec_routes(start, routes) ==
  LET after[n \in 0 .. 3] ==
        IF n = 0 THEN {start} ELSE UNION {exec_swap(s, routes[n]) : s \in after[n - 1]}
  IN  after[valid_swaps(routes)]

liquidation_fee(amount_out) == (amount_out * LIQUIDATION_FEE) \div 10000

\* What the account keeps of the output, and what the protocol gets.
Fee(out, is_liquidation) == IF is_liquidation THEN liquidation_fee(out) ELSE 0

\* The checks after the last leg: the fee must leave more than it takes, and the rest
\* must be the minimum asked for.
OutputAccepted(out, is_liquidation, minimum) ==
  /\ is_liquidation => out - Fee(out, TRUE) > Fee(out, TRUE)
  /\ out - Fee(out, is_liquidation) >= minimum

-----------------------------------------------------------------------------
(* Instructions.  The calls to the margin pool program and the fee's       *)
(* transfer: tokens leave one hand for the other.                          *)

CanWithdrawFrom(src, amount) == amount > 0 /\ amount <= deposited_in[src]

\* margin_swap: the pools of both tokens afterwards
SplPools(src, dst, amount, gain, leftover) ==
  [deposited_in EXCEPT ![dst] = @ + gain, ![src] = @ - amount + leftover]

\* route_swap_pool: the pools, and the fees, afterwards
RoutePools(src, dst, amount, kept) ==
  LET left == [deposited_in EXCEPT ![src] = @ - amount] IN [left EXCEPT ![dst] = @ + kept]
transfer_fee(dst, fee) == collected' = [collected EXCEPT ![dst] = @ + fee]

\* Withdraws from the pool, swaps, deposits the output, and leaves what the venue did not
\* take in the transit account.
route_swap_pool(src, amount, minimum, routes, is_liquidation) ==
  LET withdrawn == [transit EXCEPT ![src] = @ + amount]
  IN  /\ minimum > 0 /\ valid_swaps(routes) > 0
      /\ CanWithdrawFrom(src, amount)
      /\ \E s \in exec_routes([transit |-> withdrawn, src |-> src, amount |-> amount], routes) :
           /\ withdrawn[s.src] <= s.transit[s.src]
           /\ LET out == Gained(withdrawn[s.src], s.transit[s.src])
                  fee == Fee(out, is_liquidation)
              IN  /\ OutputAccepted(out, is_liquidation, minimum)
                  /\ transit' = [s.transit EXCEPT ![s.src] = @ - out]
                  /\ deposited_in' = RoutePools(src, s.src, amount, out - fee)
                  /\ transfer_fee(s.src, fee)
      /\ UNCHANGED open_orders

\* Swaps tokens of one transit account into another.
route_swap(src, amount, minimum, routes, is_liquidation) ==
  /\ amount > 0 /\ minimum > 0 /\ valid_swaps(routes) > 0
  /\ \E s \in exec_routes([transit |-> transit, src |-> src, amount |-> amount], routes) :
       /\ transit[s.src] <= s.transit[s.src]
       /\ LET out == Gained(transit[s.src], s.transit[s.src])
              fee == Fee(out, is_liquidation)
          IN  /\ OutputAccepted(out, is_liquidation, minimum)
              /\ transit' = [s.transit EXCEPT ![s.src] = @ - fee]
              /\ transfer_fee(s.src, fee)
  /\ UNCHANGED <<deposited_in, open_orders>>

\* One swap at an spl pool, between two pools; what the venue did not take goes back.
margin_swap(src, dst, amount, minimum) ==
  LET withdrawn == [transit EXCEPT ![src] = @ + amount]
  IN  /\ src # dst
      /\ CanWithdrawFrom(src, amount)
      /\ \E used \in spl_swap(amount), out \in 1 .. MaxTokens :
           LET swapped == Exchanged(withdrawn, src, used, dst, out)
               gain == Gained(withdrawn[dst], swapped[dst])
               leftover == Gained(transit[src], swapped[src])
           IN  /\ out >= minimum
               /\ transit' = [swapped EXCEPT ![dst] = @ - gain, ![src] = @ - leftover]
               /\ deposited_in' = SplPools(src, dst, amount, gain, leftover)
  /\ UNCHANGED <<collected, open_orders>>

init_openbook_open_orders == ~open_orders /\ open_orders' = TRUE /\ UNCHANGED <<deposited_in, transit, collected>>

close_openbook_open_orders == open_orders /\ open_orders' = FALSE /\ UNCHANGED <<deposited_in, transit, collected>>

\* Outside of this program the owner deposits, withdraws and spends tokens, and the
\* control program takes the fees away.
OwnerMoves(m) ==
  /\ deposited_in' \in {[deposited_in EXCEPT ![m] = n] : n \in {0, MaxTokens}}
  /\ transit' \in {[transit EXCEPT ![m] = n] : n \in 0 .. 1}
  /\ collected' = [collected EXCEPT ![m] = 0]
  /\ UNCHANGED open_orders

\* bound: swaps start from a pool that is empty or full and at most one token in transit
SwapBounded ==
  \A m \in SwapMints : deposited_in[m] \in {0, MaxTokens} /\ transit[m] <= 1 /\ collected[m] = 0

SwapNext ==
  \/ init_openbook_open_orders
  \/ close_openbook_open_orders
  \/ \E m \in SwapMints : OwnerMoves(m)
  \/ /\ SwapBounded
     /\ \E src \in SwapMints, amount \in SwapAmounts, minimum \in 0 .. 1 :
          \/ \E dst \in SwapMints : margin_swap(src, dst, amount, minimum)
          \/ \E routes \in SwapRoutes, is_liquidation \in BOOLEAN :
               \/ route_swap_pool(src, amount, minimum, routes, is_liquidation)
               \/ route_swap(src, amount, minimum, routes, is_liquidation)

SwapSpec == InitSwap /\ [][SwapNext]_swapVars

-----------------------------------------------------------------------------
\* "If either transit account has tokens before the instructions, it should still have
\* the same tokens after the swap" (margin_spl_swap.rs:225-226).  Venues take less than
\* they are offered, legs meet the same token account twice, and the result is told from
\* what was there only by two readings of a balance (route_swap.rs:224-282): a swap out of
\* a pool leaves every transit account with at least what it had, whoever paid for a swap
\* paid with one token only and got another or more of it, and the protocol takes its
\* share of what a liquidation yields from that alone.
SwapSpendsOnlyItsInput ==
  [][ LET own(m) == deposited_in[m] + transit[m]
          losers == {m \in SwapMints : own(m)' < own(m)}
          gainers == {m \in SwapMints : own(m)' > own(m)}
          paid == {m \in SwapMints : collected[m]' > collected[m]}
      IN  \/ UNCHANGED swapVars \/ \E m \in SwapMints : OwnerMoves(m)
          \/ /\ deposited_in' # deposited_in => \A m \in SwapMints : transit[m]' >= transit[m]
             /\ Cardinality(losers) <= 1 /\ (losers # {} => gainers # {})
             /\ \A m \in paid :
                  (collected[m]' - collected[m]) * 10000
                    <= LIQUIDATION_FEE * (own(m)' - own(m) + collected[m]' - collected[m]) ]_swapVars

=============================================================================
