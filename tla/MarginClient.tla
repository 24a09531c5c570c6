---------------------------- MODULE MarginClient ----------------------------
(***************************************************************************)
(* The client of a margin account (libraries/rust/margin/src/tx_builder,   *)
(* refresh, margin_integrator.rs).  The client reads the account, builds   *)
(* transactions for one operation - registering the positions it lacks,    *)
(* refreshing prices, wrapping calls of adapters - and sends them one by   *)
(* one or all at once, while other sessions and the clock go on changing   *)
(* the account it has read.                                                *)
(***************************************************************************)
EXTENDS Naturals, FiniteSets, SequencesExt, AccountMaps

CONSTANTS
  ClientPools,    \* tokens that have a pool
  ClientTokens,   \* tokens deposited as they are
  ClientMarkets,  \* fixed-term markets
  MaxHeld         \* MAX_USER_POSITIONS

ASSUME MarginClientAssumption ==
  /\ IsFiniteSet(ClientPools) /\ IsFiniteSet(ClientTokens) /\ IsFiniteSet(ClientMarkets)
  /\ MaxHeld \in Nat

VARIABLES
  held,     \* MarginAccount.positions: the registered ones; funded: the balance is not 0, fresh: the price is
  seized,   \* a liquidator is set (the client's, if the client is one)
  builder,  \* MarginTxBuilder.is_liquidator
  plan,     \* transactions built and not yet executed
  ordered,  \* they are sent one after another
  session,  \* what has been built
  outcome,  \* why it has failed, or "none"
  calm      \* nothing but the client has acted since it read the account

clientVars == <<held, seized, builder, plan, ordered, session, outcome, calm>>

note(p) == <<"note", p>>
loan(p) == <<"loan", p>>
token(t) == <<"token", t>>
claims(m) == <<"claims", m>>
collateral(m) == <<"collateral", m>>

Notes == {note(p) : p \in ClientPools}
PoolPositions == Notes \cup {loan(p) : p \in ClientPools}
TermPositions == {claims(m) : m \in ClientMarkets} \cup {collateral(m) : m \in ClientMarkets}
Deposits == {token(t) : t \in ClientTokens}
Claims == {loan(p) : p \in ClientPools} \cup {claims(m) : m \in ClientMarkets}

Registered == DOMAIN held
Unpriced == [funded |-> FALSE, fresh |-> FALSE]

InitClient ==
  /\ held = << >> /\ seized = FALSE
  /\ builder = FALSE /\ plan = << >> /\ ordered = TRUE
  /\ session = "none" /\ outcome = "none" /\ calm = TRUE

-----------------------------------------------------------------------------
(* Instructions: the positions one requires, and what it does to them.     *)

Instruction == [signed_by |-> "anyone", needs |-> {}, adds |-> {}, drops |-> {}, prices |-> {}, moves |-> {}]

register_ix(pos) == [Instruction EXCEPT !.signed_by = "authority", !.adds = {pos}]
close_ix(pos) == [Instruction EXCEPT !.signed_by = "authority", !.needs = {pos}, !.drops = {pos}]
transfer_ix(t) == [Instruction EXCEPT !.needs = {token(t)}, !.moves = {token(t)}]
liquidate_begin_ix == [Instruction EXCEPT !.signed_by = "liquidate_begin"]
liquidate_end_ix == [Instruction EXCEPT !.signed_by = "liquidate_end"]
refresh_deposit_ix(t) == [Instruction EXCEPT !.needs = {token(t)}, !.prices = {token(t)}]

\* the pool's: the account signs where its own tokens or notes move
Called(signer, positions) == [Instruction EXCEPT !.signed_by = signer, !.needs = positions, !.moves = positions]
deposit_ix(p, source) == Called(source, {note(p)})
withdraw_ix(p) == Called("account", {note(p)})
margin_borrow_ix(p) == Called("account", {note(p), loan(p)})
margin_repay_ix(p) == Called("account", {note(p), loan(p)})
repay_ix(p, source) == Called(source, {loan(p)})
register_loan_ix(p) == [Instruction EXCEPT !.signed_by = "account", !.adds = {loan(p)}]
close_loan_ix(p) == [Instruction EXCEPT !.signed_by = "account", !.needs = {loan(p)}, !.drops = {loan(p)}]
margin_refresh_position_ix(p) == [Instruction EXCEPT !.prices = {note(p), loan(p)}]

\* the swap program's, between the notes of two pools
swap_ix(p, q) == Called("account", {note(p), note(q)})

\* the fixed-term program's: a refresh sets a flag of the claims, an order moves both
refresh_position_ix(m) == [Instruction EXCEPT !.needs = {claims(m)}, !.prices = {claims(m), collateral(m)}]
order_ix(m) == Called("account", {claims(m), collateral(m)})

\* An inner instruction that the margin account signs goes through liquidator_invoke or
\* adapter_invoke, any other one through accounting_invoke.
invoke_ix(inner) ==
  IF inner.signed_by = "account"
  THEN [inner EXCEPT !.signed_by = IF builder THEN "liquidator_invoke" ELSE "adapter_invoke"]
  ELSE inner

\* the same, where the builder knows that the account signs
adapter_invoke_ix(inner) == [inner EXCEPT !.signed_by = IF builder THEN "liquidator_invoke" ELSE "adapter_invoke"]

-----------------------------------------------------------------------------
(* Execution of a transaction by the programs.                             *)

Stale(a) == {pos \in DOMAIN a : a[pos].funded /\ ~a[pos].fresh}

\* A stale claim fails the valuation.  Stale collateral is left out of it, and named as the
\* reason if the rest does not suffice.  Balances are not modelled: either may happen.
ValuationEnds(a, signed_by) ==
  IF Stale(a) \cap Claims # {} THEN {"stale"}
  ELSE CASE signed_by = "adapter_invoke" -> {"landed", IF Stale(a) = {} THEN "unhealthy" ELSE "stale"}
         [] signed_by = "liquidate_begin" -> {"healthy", IF Stale(a) = {} THEN "landed" ELSE "stale"}
         [] signed_by = "liquidator_invoke" -> {"landed", "excessive loss"}

Moved(a, ix) ==
  { [pos \in (DOMAIN a \cup ix.adds) \ ix.drops |->
       IF pos \notin DOMAIN a THEN Unpriced
       ELSE [funded |-> IF pos \in ix.moves THEN pos \in funded ELSE a[pos].funded,
             fresh |-> a[pos].fresh \/ pos \in ix.prices]]
    : funded \in SUBSET ix.moves }

\* who may sign, as the account is or is not being liquidated
AuthorityFails(ix) ==
  \/ ix.signed_by = "authority" /\ seized # builder
  \/ ix.signed_by \in {"adapter_invoke", "liquidate_begin"} /\ seized
  \/ ix.signed_by \in {"liquidator_invoke", "liquidate_end"} /\ ~seized

\* An adapter's positions are closed by the adapter only, a claim too.
AdapterOnly(ix) == ix.signed_by = "authority" /\ ix.drops \cap (Claims \cup TermPositions) # {}

Refused(a, ix) ==
  IF AuthorityFails(ix) THEN "unauthorized"
  ELSE IF ~(ix.needs \subseteq DOMAIN a) THEN "unregistered"
  ELSE IF ix.adds \cap DOMAIN a # {} THEN "duplicate"
  ELSE IF Cardinality(DOMAIN a \cup ix.adds) > MaxHeld THEN "full"
  ELSE IF AdapterOnly(ix) \/ (\E pos \in ix.drops : a[pos].funded) THEN "not closable"
  ELSE "no"

\* the ways the instruction may end in the account a
Ends(a, ix) ==
  IF Refused(a, ix) # "no" THEN {[held |-> a, end |-> Refused(a, ix)]}
  ELSE UNION { {[held |-> after, end |-> e] :
                 e \in IF ix.signed_by \in {"anyone", "authority", "liquidate_end"} THEN {"landed"}
                       ELSE ValuationEnds(after, ix.signed_by)} : after \in Moved(a, ix) }

\* A transaction is executed as a whole or not at all.
Executed(tx) ==
  LET run[k \in 0 .. Len(tx)] ==
        IF k = 0 THEN {[held |-> held, end |-> "landed"]}
        ELSE UNION {IF s.end = "landed" THEN Ends(s.held, tx[k]) ELSE {s} : s \in run[k - 1]}
  IN  {IF r.end = "landed" THEN r ELSE [r EXCEPT !.held = held] : r \in run[Len(tx)]}

-----------------------------------------------------------------------------
(* Refreshing (refresh/).                                                  *)

\* a transaction with the instruction of each
Each(ix) == LET s == SetToSeq(DOMAIN ix) IN [i \in 1..Len(s) |-> <<ix[s[i]]>>]

\* Slip: only the pools the account has deposits in.
refresh_all_pool_positions_notes(registered) ==
  Each([p \in {p \in ClientPools : note(p) \in registered} |-> margin_refresh_position_ix(p)])

\* one transaction for a pool that the account has a position in
refresh_all_pool_positions(registered) ==
  Each([p \in {p \in ClientPools : {note(p), loan(p)} \cap registered # {}} |-> margin_refresh_position_ix(p)])

refresh_deposit_positions(registered) ==
  Each([t \in {t \in ClientTokens : token(t) \in registered} |-> refresh_deposit_ix(t)])

\* one for each position the account has in a market
refresh_fixed_term_positions(registered) ==
  Each([pos \in registered \cap TermPositions |-> refresh_position_ix(pos[2])])

canonical_position_refresher(registered) ==
  refresh_deposit_positions(registered) \o refresh_all_pool_positions(registered)
    \o refresh_fixed_term_positions(registered)

-----------------------------------------------------------------------------
(* The operations of the builder, as the transactions they give.           *)

get_or_create_position(pos) == IF pos \in Registered THEN << >> ELSE <<register_ix(pos)>>
get_or_create_pool_loan_position(p) ==
  IF loan(p) \in Registered THEN << >> ELSE <<adapter_invoke_ix(register_loan_ix(p))>>
create_pool_deposit(p) == <<register_ix(note(p)), invoke_ix(margin_refresh_position_ix(p))>>
get_or_create_pool_deposit(p) == IF note(p) \in Registered THEN << >> ELSE create_pool_deposit(p)

\* The source is the margin account's own, or that of another signer.
pool_deposit(p, source) ==
  << get_or_create_pool_deposit(p) \o <<invoke_ix(deposit_ix(p, source))>> >>

pool_deposit_deprecated(p, source) ==
  << get_or_create_position(note(p))
     \o (IF source = "account" /\ note(p) \notin Registered THEN <<margin_refresh_position_ix(p)>> ELSE << >>)
     \o <<invoke_ix(deposit_ix(p, source))>> >>

borrow(p) ==
  << get_or_create_position(note(p)) \o get_or_create_pool_loan_position(p)
     \o <<margin_refresh_position_ix(p), adapter_invoke_ix(margin_borrow_ix(p))>> >>

margin_repay(p) ==
  << get_or_create_position(note(p)) \o get_or_create_pool_loan_position(p)
     \o <<adapter_invoke_ix(margin_repay_ix(p))>> >>

pool_repay(p, source) == << <<invoke_ix(repay_ix(p, source))>> >>

withdraw(p) == << get_or_create_position(note(p)) \o <<adapter_invoke_ix(withdraw_ix(p))>> >>

transfer_deposit(t) == << get_or_create_position(token(t)) \o <<transfer_ix(t)>> >>

create_deposit_position(t) == << <<register_ix(token(t))>> >>
close_deposit_position(t) == << <<close_ix(token(t))>> >>

close_pool_position(pos) ==
  << << IF pos \in Notes THEN close_ix(pos) ELSE adapter_invoke_ix(close_loan_ix(pos[2])) >> >>
close_pool_positions(p) == << <<close_ix(note(p)), adapter_invoke_ix(close_loan_ix(p))>> >>

close_empty_positions ==
  LET empty == SetToSeq({pos \in Registered : ~held[pos].funded}) IN
  << [i \in 1..Len(empty) |->
        IF empty[i][1] = "loan" THEN adapter_invoke_ix(close_loan_ix(empty[i][2])) ELSE close_ix(empty[i])] >>

\* A swap between pools: the target is set up in transactions of its own.
swap(p, q) ==
  (IF note(q) \in Registered THEN << >>
   ELSE << <<register_ix(note(q))>>, <<invoke_ix(margin_refresh_position_ix(q))>> >>)
  \o << <<invoke_ix(swap_ix(p, q))>> >>

\* A routed swap: the positions it lacks are registered first, and not refreshed.
setup_swap(mints) ==
  LET missing == SetToSeq(mints \ Registered) IN [i \in 1..Len(missing) |-> register_ix(missing[i])]
route_swap_txs(p, q) ==
  LET setup == setup_swap({note(p), note(q)}) IN
  (IF setup = << >> THEN << >> ELSE <<setup>>) \o << <<adapter_invoke_ix(swap_ix(p, q))>> >>

liquidate_begin_builder(refresh) ==
  << (IF refresh THEN FlattenSeq(refresh_all_pool_positions(Registered) \o refresh_deposit_positions(Registered))
      ELSE << >>)
     \o <<liquidate_begin_ix>> >>

liquidate_end == << <<liquidate_end_ix>> >>

\* RefreshingProxy: everything is refreshed, then the adapter's instruction is invoked.
refresh_and_invoke_signed(m) ==
  canonical_position_refresher(Registered) \o << <<adapter_invoke_ix(order_ix(m))>> >>

-----------------------------------------------------------------------------
(* Sessions.                                                               *)

Built(kind, txs) ==
  /\ session = "none"
  /\ plan' = txs /\ calm' = TRUE
  /\ ordered' \in IF Len(txs) > 1 THEN BOOLEAN ELSE {TRUE}
  /\ session' = kind /\ outcome' = "none"
  /\ UNCHANGED <<held, seized, builder>>

PoolOperation ==
  \E p \in ClientPools :
    \/ \E source \in {"account", "anyone"} :
         \/ Built("built", pool_deposit(p, source))
         \/ Built("built", pool_deposit_deprecated(p, source))
         \/ loan(p) \in Registered /\ Built("built", pool_repay(p, source))
    \/ Built("built", borrow(p)) \/ Built("built", margin_repay(p)) \/ Built("built", withdraw(p))
    \/ \E pos \in {note(p), loan(p)} \cap Registered : Built("built", close_pool_position(pos))
    \/ {note(p), loan(p)} \subseteq Registered /\ Built("built", close_pool_positions(p))
    \/ \E q \in ClientPools \ {p} : \/ note(p) \in Registered /\ Built("built", swap(p, q))
                                    \/ Built("built", route_swap_txs(p, q))

AccountOperation ==
  \/ \E t \in ClientTokens : \/ Built("built", transfer_deposit(t))
                             \/ token(t) \notin Registered /\ Built("built", create_deposit_position(t))
                             \/ token(t) \in Registered /\ Built("built", close_deposit_position(t))
  \/ Built("built", close_empty_positions)
  \/ \E refresh \in BOOLEAN : builder /\ Built("built", liquidate_begin_builder(refresh))
  \/ builder /\ Built("built", liquidate_end)
  \/ \E m \in ClientMarkets : /\ {claims(m), collateral(m)} \subseteq Registered /\ ~builder
                              /\ Built("refreshed", refresh_and_invoke_signed(m))

\* the client of the owner, or of a liquidator
liquidator(is) == session = "none" /\ builder' = is /\ UNCHANGED <<held, seized, plan, ordered, session, outcome, calm>>

\* send_and_confirm_condensed(_in_order): in order, an error ends the sending; at once, any
\* transaction may be the next to be executed, and all are.
Send ==
  \E i \in IF ordered THEN {1} \cap DOMAIN plan ELSE DOMAIN plan : \E r \in Executed(plan[i]) :
    /\ held' = r.held
    /\ seized' = IF r.end = "landed" /\ plan[i] # << >>
                 THEN Last(plan[i]) = liquidate_begin_ix \/ (seized /\ Last(plan[i]) # liquidate_end_ix)
                 ELSE seized
    /\ plan' = IF ordered /\ r.end # "landed" THEN << >> ELSE RemoveAt(plan, i)
    /\ outcome' = IF r.end # "landed" THEN r.end ELSE outcome
    /\ UNCHANGED <<builder, session, ordered, calm>>

\* the caller takes the answer
AnswerTaken ==
  /\ session # "none" /\ plan = << >>
  /\ session' = "none" /\ outcome' = "none" /\ ordered' = TRUE /\ calm' = TRUE
  /\ UNCHANGED <<held, seized, builder, plan>>

\* The positions whose prices are quoted together.
Quoted == {{note(p), loan(p)} : p \in ClientPools} \cup {{token(t)} : t \in ClientTokens}
  \cup {{claims(m), collateral(m)} : m \in ClientMarkets}

Expired(quote) ==
  [pos \in Registered |-> IF pos \in quote THEN [held[pos] EXCEPT !.fresh = FALSE] ELSE held[pos]]

\* Other sessions of the owner, liquidators, adapters and the clock: before the client reads
\* the account, and once while its transactions are under way.
Elsewhere ==
  /\ session = "none" \/ (plan # << >> /\ calm)
  /\ calm' = (session = "none")
  /\ UNCHANGED <<builder, session, plan, ordered, outcome>>
  /\ \/ /\ \/ \E quote \in Quoted : held' = Expired(quote)
           \/ \E pos \in (Notes \cup Deposits) \ Registered : held' = Put(held, pos, Unpriced)
           \/ \E pos \in Registered \ TermPositions : ~held[pos].funded /\ held' = Drop(held, pos)
           \/ \E m \in ClientMarkets : /\ claims(m) \notin Registered
                                       /\ held' = Put(Put(held, claims(m), Unpriced), collateral(m), Unpriced)
        /\ UNCHANGED seized
     \/ seized' = ~seized /\ UNCHANGED held
  /\ Cardinality(DOMAIN held') <= MaxHeld

ClientNext ==
  \/ PoolOperation \/ AccountOperation
  \/ \E is \in BOOLEAN : liquidator(is)
  \/ Send \/ AnswerTaken \/ Elsewhere

ClientSpec == InitClient /\ [][ClientNext]_clientVars

(***************************************************************************)
(* Sent in order while nothing else acts on the account, what the client   *)
(* builds never fails on a position it has not set up, or sets up twice;   *)
(* and what RefreshingProxy builds never on a stale price: its refreshers  *)
(* leave no position of the account out (refresh/mod.rs,                   *)
(* margin_integrator.rs, tx_builder/user.rs).                              *)
(***************************************************************************)
CalmPlansLand ==
  calm /\ ordered => outcome \notin {"unregistered", "duplicate"} /\ (session = "refreshed" => outcome # "stale")

=============================================================================
