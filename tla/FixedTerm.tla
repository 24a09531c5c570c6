------------------------------ MODULE FixedTerm ------------------------------
(***************************************************************************)
(* The fixed-term program (programs/fixed-term): one market.  Lenders and  *)
(* borrowers meet in the order book.  The taker of a match is served in    *)
(* the instruction that placed its order, the maker later, when a crank    *)
(* consumes the event of the match: what the maker is owed, and the loan   *)
(* it then owes, live in the event queue until then.                       *)
(*                                                                         *)
(* Margin users borrow and lend through their margin account: Debt and     *)
(* Assets record what they owe and own, and three kinds of notes tell the  *)
(* margin program of it.  The notes are brought in line by settle.         *)
(* Wallets lend, sell and stake tickets by themselves.                     *)
(*                                                                         *)
(* Arithmetic is checked: a handler whose subtraction or token transfer    *)
(* would go below zero fails, and a failing handler is a step that does    *)
(* not happen.  Tokens outside the market's vaults are not counted: a      *)
(* payer has what it pays.                                                 *)
(***************************************************************************)
EXTENDS OriginationFee, AccountMaps, Sums

CONSTANTS
  MarginUsers,   \* margin accounts of the market's airspace
  Wallets,       \* users with an airspace permit
  Settling,      \* the settlement accounts registered as positions: margin users and kinds
  BorrowTenor, LendTenor,
  LendOrders, BorrowOrders, SellOrders,   \* the OrderParams of every user's orders
  RollConfigs,   \* auto-roll settings asked for: user, kind, price, tenor
  Amounts,       \* amounts of an exchange, a stake and a repayment
  Recipients,    \* to whom deposits are transferred
  QueueCapacity, \* events the queue holds
  MaxOrders,     \* bound: orders placed
  MaxDeposits,   \* bound: term deposits up to which tickets are staked
  MaxVault,      \* bound: tokens in the vault up to which tokens are exchanged
  MaxTime        \* bound: the clock stops here

\* a price of zero fails where the order book divides by it
ValidOrders == [max_ticket_qty : Nat, max_underlying_token_qty : Nat, limit_price : Nat \ {0},
                post_only : BOOLEAN, post_allowed : BOOLEAN,
                auto_stake : BOOLEAN, auto_roll : BOOLEAN]

ASSUME FixedTermAssumption ==
  /\ IsFiniteSet(MarginUsers \cup Wallets) /\ MarginUsers \cap Wallets = {}
  /\ Settling \subseteq MarginUsers \X {"tickets", "tokens"}
  /\ Recipients \subseteq MarginUsers \cup Wallets
  /\ {BorrowTenor, LendTenor, QueueCapacity, MaxOrders, MaxDeposits, MaxVault, MaxTime} \subseteq Nat
  /\ Amounts \subseteq Nat \ {0}
  /\ {LendOrders, BorrowOrders, SellOrders}
       \subseteq [MarginUsers \cup Wallets -> SUBSET ValidOrders]
  /\ RollConfigs \subseteq MarginUsers \X {"borrow", "lend"} \X Nat \X Nat

VARIABLES
  book,        \* bids and asks
  queue,       \* the event queue
  nonce,       \* of the market: orders placed so far
  users,       \* the MarginUser accounts
  notes,       \* what the margin accounts hold of the market's three notes
  loans,       \* the TermLoan accounts, by margin user and sequence number
  deposits,    \* the TermDeposit accounts, by creator and sequence number or seed
  tickets,     \* ticket tokens
  vault,       \* tokens in the underlying token vault; fees leave it for the fee vault
  clock

vars == <<book, queue, nonce, users, notes, loans, deposits, tickets, vault, clock>>

None == 0
Holders == MarginUsers \cup Wallets

-----------------------------------------------------------------------------
(* MarginUser: Debt and Assets *)

NewMarginUser ==
  [next_new_term_loan_seqno |-> 0, next_unpaid_term_loan_seqno |-> 0,
   next_term_loan_maturity |-> 0, pending |-> 0, committed |-> 0,
   entitled_tokens |-> 0, entitled_tickets |-> 0,
   next_deposit_seqno |-> 0, next_unredeemed_deposit_seqno |-> 0,
   tickets_staked |-> 0, tickets_posted |-> 0, tokens_posted |-> 0,
   borrow_roll_price |-> None, borrow_roll_tenor |-> None, lend_roll_price |-> None]

NewNotes == [claims |-> 0, ticket_collateral |-> 0, underlying_collateral |-> 0]

\* no checked subtraction of the handler failed
Checked(r) == \A f \in DOMAIN r : r[f] >= 0

total(m) == m.pending + m.committed
ticket_collateral(m) == m.tickets_staked + m.tickets_posted
is_past_due(m, now) ==
  /\ m.next_new_term_loan_seqno > m.next_unpaid_term_loan_seqno
  /\ m.next_term_loan_maturity <= now

post_borrow_order(m, tokens, tix) ==
  [m EXCEPT !.tokens_posted = @ + tokens, !.pending = @ + tix]

new_term_loan(m, amount, maturity) ==
  [m EXCEPT !.committed = @ + amount,
            !.next_term_loan_maturity =
               IF m.next_new_term_loan_seqno = m.next_unpaid_term_loan_seqno
                 THEN maturity ELSE @,
            !.next_new_term_loan_seqno = @ + 1]

borrow_order_fill(m, tokens, disbursed) ==
  [m EXCEPT !.tokens_posted = @ - tokens, !.entitled_tokens = @ + disbursed]

\* Slip: the filled part of the order stays pending.
maker_fill_borrow_order_pending(m, new_debt, disbursed, tokens, tix, maturity) ==
  LET a == borrow_order_fill(m, tokens, disbursed)
  IN  IF new_debt THEN new_term_loan(a, tix, maturity) ELSE a

maker_fill_borrow_order(m, new_debt, disbursed, tokens, tix, maturity) ==
  LET a == borrow_order_fill(m, tokens, disbursed)
  IN  IF new_debt
        THEN new_term_loan([a EXCEPT !.pending = @ - tix], tix, maturity)
        ELSE a

\* Slip: the tokens of a cancelled loan are taken off twice.
cancel_borrow_order_twice(m, tokens, tix, is_debt) ==
  IF is_debt
    THEN [m EXCEPT !.tokens_posted = @ - 2 * tokens, !.pending = @ - tix]
    ELSE [m EXCEPT !.tokens_posted = @ - tokens, !.entitled_tickets = @ + tix]

cancel_borrow_order(m, tokens, tix, is_debt) ==
  IF is_debt
    THEN [m EXCEPT !.tokens_posted = @ - tokens, !.pending = @ - tix]
    ELSE [m EXCEPT !.tokens_posted = @ - tokens, !.entitled_tickets = @ + tix]

new_deposit(m, tix) ==
  IF tix > 0
    THEN [m EXCEPT !.next_deposit_seqno = @ + 1, !.tickets_staked = @ + tix]
    ELSE m

lend_order(m, staked, posted) ==
  [new_deposit(m, staked) EXCEPT !.tickets_posted = @ + posted]

maker_fill_lend_order(m, auto_stake, tix) ==
  LET a == [m EXCEPT !.tickets_posted = @ - tix]
  IN  IF auto_stake THEN new_deposit(a, tix) ELSE [a EXCEPT !.entitled_tickets = @ + tix]

cancel_lend_order(m, tokens, tix) ==
  [m EXCEPT !.entitled_tokens = @ + tokens, !.tickets_posted = @ - tix]

sell_tickets(m, posted) == [m EXCEPT !.tickets_posted = @ + posted]

redeem_deposit_of(m, tix) ==
  [m EXCEPT !.next_unredeemed_deposit_seqno = @ + 1,
            !.tickets_staked = IF @ > tix THEN @ - tix ELSE 0]

settlement_complete(m) == [m EXCEPT !.entitled_tickets = 0, !.entitled_tokens = 0]

-----------------------------------------------------------------------------
(* Accounts of terms *)

TermLoan(balance, roll) ==
  [balance |-> balance, strike |-> clock, maturity |-> clock + BorrowTenor, auto_roll |-> roll]

\* only a margin user's deposit has a sequence number other than 0
TermDeposit(owner, seqno, amount, flags) ==
  [owner |-> owner, sequence_number |-> seqno, amount |-> amount,
   matures_at |-> clock + LendTenor, flags |-> flags \cap {"AUTO_ROLL", "MARGIN"}]

\* a seed the owner has not used: which one does not matter
FreshSeed(w) == Min({n \in 0 .. Cardinality(DOMAIN deposits) : <<w, n>> \notin DOMAIN deposits})

-----------------------------------------------------------------------------
(* Orders *)

\* the tag is a hash of the market's nonce, which every order increments
OrderTag == nonce

\* what the order book stores with an order and the events return
CallbackInfo(owner, flags) == [owner |-> owner, flags |-> flags]

Placed(side, p, owner, flags) == new_order(book, side, p, CallbackInfo(owner, flags), OrderTag)

\* Slip: a full event queue is not noticed.
OrderAccepted_full(s) == nonce < MaxOrders /\ Accepted(s)

OrderAccepted(s) ==
  /\ nonce < MaxOrders
  /\ Accepted(s)
  /\ Len(queue) + Len(s.events) <= QueueCapacity

Commit(s) == /\ book' = s.book
             /\ queue' = queue \o s.events
             /\ nonce' = nonce + 1

Flag(f, on) == IF on THEN {f} ELSE {}

\* MarginBorrowOrderAccounts::borrow_order: the user and its loans after it
Borrowed(m, s) ==
  LET posted == post_borrow_order(m, quote_posted(s), s.base_posted)
  IN  IF base_filled(s) > 0
        THEN new_term_loan(posted, base_filled(s), clock + BorrowTenor)
        ELSE posted

LoanTaken(u, s, roll) ==
  IF base_filled(s) > 0
    THEN Put(loans, <<u, users[u].next_new_term_loan_seqno>>, TermLoan(base_filled(s), roll))
    ELSE loans

Fees(s) == quote_filled(s) - loan_to_disburse(quote_filled(s))

ClaimNoted(u, s) ==
  [notes EXCEPT ![u].claims = @ + s.total_base,
                ![u].underlying_collateral = @ + quote_posted(s)]

margin_borrow_order(u, p) ==
  LET s == Placed("Ask", add_origination_fee(p), u,
                  {"NEW_DEBT", "MARGIN"} \cup Flag("AUTO_ROLL", p.auto_roll))
  IN  /\ p.auto_roll => users[u].borrow_roll_price # None
      /\ OrderAccepted(s)
      /\ vault >= quote_filled(s)
      /\ Commit(s)
      /\ users' = [users EXCEPT ![u] = Borrowed(@, s)]
      /\ loans' = LoanTaken(u, s, p.auto_roll)
      /\ notes' = ClaimNoted(u, s)
      /\ vault' = vault - quote_filled(s)
      /\ UNCHANGED <<deposits, tickets, clock>>

\* LendOrderAccounts::issue: a deposit or tickets for what was filled
Issued(owner, s, p, seed, seqno, flags) ==
  IF p.auto_stake
    THEN /\ base_filled(s) > 0 => <<owner, seed>> \notin DOMAIN deposits
         /\ deposits' = IF base_filled(s) > 0
                          THEN Put(deposits, <<owner, seed>>,
                                   TermDeposit(owner, seqno, base_filled(s), flags))
                          ELSE deposits
         /\ UNCHANGED tickets
    ELSE /\ tickets' = [tickets EXCEPT ![owner] = @ + base_filled(s)]
         /\ UNCHANGED deposits

LendFlags(p) ==
  {"MARGIN"} \cup Flag("AUTO_ROLL", p.auto_roll) \cup Flag("AUTO_STAKE", p.auto_stake)
Staked(s, p) == IF p.auto_stake THEN base_filled(s) ELSE 0

margin_lend_order(u, p) ==
  LET s == Placed("Bid", p, u, LendFlags(p))
  IN  /\ p.auto_roll => users[u].lend_roll_price # None
      /\ OrderAccepted(s)
      /\ Commit(s)
      /\ Issued(u, s, p, users[u].next_deposit_seqno, users[u].next_deposit_seqno, LendFlags(p))
      /\ users' = [users EXCEPT ![u] = lend_order(@, Staked(s, p), s.base_posted)]
      /\ notes' = [notes EXCEPT ![u].ticket_collateral = @ + s.base_posted + Staked(s, p)]
      /\ vault' = vault + s.total_quote
      /\ UNCHANGED <<loans, clock>>

\* a wallet's order
lend_order_signed(w, p) ==
  LET s == Placed("Bid", p, w, Flag("AUTO_STAKE", p.auto_stake))
  IN  /\ OrderAccepted(s)
      /\ Commit(s)
      /\ Issued(w, s, p, FreshSeed(w), 0, {})
      /\ vault' = vault + s.total_quote
      /\ UNCHANGED <<users, notes, loans, clock>>

\* SellTicketsAccounts::sell_tickets
TicketsSold(owner, s) ==
  /\ vault >= quote_filled(s) /\ tickets[owner] >= s.total_base
  /\ vault' = vault - quote_filled(s)
  /\ tickets' = [tickets EXCEPT ![owner] = @ - s.total_base]

sell_tickets_order(w, p) ==
  LET s == Placed("Ask", p, w, {})
  IN  /\ OrderAccepted(s)
      /\ Commit(s)
      /\ TicketsSold(w, s)
      /\ UNCHANGED <<users, notes, loans, deposits, clock>>

margin_sell_tickets_order(u, p) ==
  LET s == Placed("Ask", p, u, {"MARGIN"})
  IN  /\ OrderAccepted(s)
      /\ Commit(s)
      /\ users' = [users EXCEPT ![u] = sell_tickets(@, quote_posted(s))]
      /\ notes' = [notes EXCEPT ![u].ticket_collateral = @ + quote_posted(s)]
      /\ TicketsSold(u, s)
      /\ UNCHANGED <<loans, deposits, clock>>

cancel_order(side, i) ==
  LET o == book[side][i]
  IN  /\ Len(queue) < QueueCapacity
      /\ book' = [book EXCEPT ![side] = SubSeq(@, 1, i - 1) \o SubSeq(@, i + 1, Len(@))]
      /\ queue' = queue \o <<Out(side, o, o.base)>>
      /\ UNCHANGED <<nonce, users, notes, loans, deposits, tickets, vault, clock>>

-----------------------------------------------------------------------------
(* consume_events, one event at a time: a batch that fails changes nothing. *)

\* the owner is a margin user and not a wallet
IsMargin(info) == "MARGIN" \in info.flags

next_event(q) == Head(q)
pop_events(q) == Tail(q)

\* the maker of a fill, on either side
Maker(e) ==
  LET m == users[e.info.owner]
  IN  IF e.side = "Bid"
        THEN maker_fill_lend_order(m, "AUTO_STAKE" \in e.info.flags, e.base)
        ELSE maker_fill_borrow_order(m, "NEW_DEBT" \in e.info.flags, loan_to_disburse(EventQuote(e)),
                                     EventQuote(e), e.base, clock + BorrowTenor)

handle_margin_fill(e) ==
  LET u == e.info.owner
      new_debt == "NEW_DEBT" \in e.info.flags
      stake == "AUTO_STAKE" \in e.info.flags
      m == Maker(e)
      seqno == users[u].next_deposit_seqno
      fees == IF new_debt THEN EventQuote(e) - loan_to_disburse(EventQuote(e)) ELSE 0
  IN  /\ Checked(m) /\ vault >= fees
      /\ stake => <<u, seqno>> \notin DOMAIN deposits
      /\ users' = [users EXCEPT ![u] = m]
      /\ deposits' = IF stake
                       THEN Put(deposits, <<u, seqno>>, TermDeposit(u, seqno, e.base, e.info.flags))
                       ELSE deposits
      /\ loans' = IF new_debt
                    THEN Put(loans, <<u, users[u].next_new_term_loan_seqno>>,
                             TermLoan(e.base, "AUTO_ROLL" \in e.info.flags))
                    ELSE loans
      /\ vault' = vault - fees
      /\ UNCHANGED tickets

handle_signer_fill(e) ==
  LET w == e.info.owner
      stake == "AUTO_STAKE" \in e.info.flags
      paid == IF e.side = "Ask" THEN EventQuote(e) ELSE 0
  IN  /\ vault >= paid
      /\ vault' = vault - paid
      /\ deposits' = IF stake
                       THEN Put(deposits, <<w, FreshSeed(w)>>, TermDeposit(w, 0, e.base, e.info.flags))
                       ELSE deposits
      /\ tickets' = IF e.side = "Bid" /\ ~stake
                      THEN [tickets EXCEPT ![w] = @ + e.base] ELSE tickets
      /\ UNCHANGED <<users, loans>>

handle_margin_out(e) ==
  LET u == e.info.owner
      m == IF e.side = "Ask"
             THEN cancel_borrow_order(users[u], EventQuote(e), e.base, "NEW_DEBT" \in e.info.flags)
             ELSE cancel_lend_order(users[u], EventQuote(e), e.base)
  IN  /\ Checked(m)
      /\ users' = [users EXCEPT ![u] = m]
      /\ UNCHANGED <<loans, deposits, tickets, vault>>

\* Slip: the tickets of a cancelled bid are minted with its refund.
handle_signer_out_both(e) ==
  LET w == e.info.owner
  IN  /\ e.side = "Bid" => vault >= EventQuote(e)
      /\ vault' = IF e.side = "Bid" THEN vault - EventQuote(e) ELSE vault
      /\ tickets' = [tickets EXCEPT ![w] = @ + e.base]
      /\ UNCHANGED <<users, loans, deposits>>

handle_signer_out(e) ==
  LET w == e.info.owner
  IN  /\ e.side = "Bid" => vault >= EventQuote(e)
      /\ vault' = IF e.side = "Bid" THEN vault - EventQuote(e) ELSE vault
      /\ tickets' = IF e.side = "Ask" THEN [tickets EXCEPT ![w] = @ + e.base] ELSE tickets
      /\ UNCHANGED <<users, loans, deposits>>

consume_events ==
  /\ queue # <<>>
  /\ LET e == next_event(queue)
         margin == IsMargin(e.info)
     IN  \/ e.tag = "Fill" /\ margin /\ handle_margin_fill(e)
         \/ e.tag = "Fill" /\ ~margin /\ handle_signer_fill(e)
         \/ e.tag = "Out" /\ margin /\ handle_margin_out(e)
         \/ e.tag = "Out" /\ ~margin /\ handle_signer_out(e)
  /\ queue' = pop_events(queue)
  /\ UNCHANGED <<book, nonce, notes, clock>>

-----------------------------------------------------------------------------
(* Repayment *)

\* RepayAccounts::repay of loan n, given the loans as they are
Unpaid(m, n) == n = m.next_unpaid_term_loan_seqno

\* Slip: the maturity is not moved on to the next loan.
LoanRepaid_same_maturity(m, ls, u, n, amount) ==
  IF amount < ls[<<u, n>>].balance
    THEN [m EXCEPT !.committed = @ - amount]
    ELSE [m EXCEPT !.committed = @ - amount, !.next_unpaid_term_loan_seqno = @ + 1]

LoanRepaid(m, ls, u, n, amount) ==
  IF amount < ls[<<u, n>>].balance
    THEN [m EXCEPT !.committed = @ - amount]
    ELSE [m EXCEPT !.committed = @ - amount,
                   !.next_unpaid_term_loan_seqno = @ + 1,
                   !.next_term_loan_maturity =
                      IF n + 1 < m.next_new_term_loan_seqno THEN ls[<<u, n + 1>>].maturity ELSE @]

LoansAfter(ls, u, n, amount) ==
  IF amount < ls[<<u, n>>].balance
    THEN [ls EXCEPT ![<<u, n>>].balance = @ - amount]
    ELSE Drop(ls, <<u, n>>)

repay(u, n, a) ==
  LET amount == Min({a, loans[<<u, n>>].balance})
  IN  /\ Unpaid(users[u], n)
      /\ notes[u].claims >= amount
      /\ users' = [users EXCEPT ![u] = LoanRepaid(@, loans, u, n, amount)]
      /\ loans' = LoansAfter(loans, u, n, amount)
      /\ notes' = [notes EXCEPT ![u].claims = @ - amount]
      /\ vault' = vault + amount
      /\ UNCHANGED <<book, queue, nonce, deposits, tickets, clock>>

-----------------------------------------------------------------------------
(* Deposits *)

Matured(d) == clock >= d.matures_at

margin_redeem_deposit(u, k) ==
  LET d == deposits[k]
  IN  /\ d.owner = u /\ Matured(d)
      /\ d.sequence_number = users[u].next_unredeemed_deposit_seqno
      /\ vault >= d.amount /\ notes[u].ticket_collateral >= d.amount
      /\ vault' = vault - d.amount
      /\ users' = [users EXCEPT ![u] = redeem_deposit_of(@, d.amount)]
      /\ notes' = [notes EXCEPT ![u].ticket_collateral = @ - d.amount]
      /\ deposits' = Drop(deposits, k)
      /\ UNCHANGED <<book, queue, nonce, loans, tickets, clock>>

redeem_deposit(w, k) ==
  LET d == deposits[k]
  IN  /\ d.owner = w /\ "MARGIN" \notin d.flags /\ Matured(d)
      /\ vault >= d.amount
      /\ vault' = vault - d.amount
      /\ deposits' = Drop(deposits, k)
      /\ UNCHANGED <<book, queue, nonce, users, notes, loans, tickets, clock>>

stake_tickets(w, a) ==
  /\ Cardinality(DOMAIN deposits) < MaxDeposits
  /\ tickets[w] >= a
  /\ tickets' = [tickets EXCEPT ![w] = @ - a]
  /\ deposits' = Put(deposits, <<w, FreshSeed(w)>>, TermDeposit(w, 0, a, {}))
  /\ UNCHANGED <<book, queue, nonce, users, notes, loans, vault, clock>>

\* into any ticket account
exchange_tokens(h, a) ==
  /\ vault + a <= MaxVault
  /\ vault' = vault + a
  /\ tickets' = [tickets EXCEPT ![h] = @ + a]
  /\ UNCHANGED <<book, queue, nonce, users, notes, loans, deposits, clock>>

transfer_deposit(k, new_owner) ==
  /\ deposits' = [deposits EXCEPT ![k].owner = new_owner]
  /\ UNCHANGED <<book, queue, nonce, users, notes, loans, tickets, vault, clock>>

-----------------------------------------------------------------------------
(* Settlement *)

verify_settlement_account_registration(u, kind) == <<u, kind>> \in Settling

settle(u) ==
  LET m == users[u]
  IN  /\ m.entitled_tickets > 0 => verify_settlement_account_registration(u, "tickets")
      /\ m.entitled_tokens > 0 => verify_settlement_account_registration(u, "tokens")
      /\ vault >= m.entitled_tokens
      /\ notes' = [notes EXCEPT ![u] = [claims |-> total(m),
                                        ticket_collateral |-> ticket_collateral(m),
                                        underlying_collateral |-> m.tokens_posted]]
      /\ tickets' = [tickets EXCEPT ![u] = @ + m.entitled_tickets]
      /\ vault' = vault - m.entitled_tokens
      /\ users' = [users EXCEPT ![u] = settlement_complete(@)]
      /\ UNCHANGED <<book, queue, nonce, loans, deposits, clock>>

-----------------------------------------------------------------------------
(* Auto-rolling *)

ValidRollPrice(price) == price < ONE /\ price > 0

configure_auto_roll(u, kind, price, tenor) ==
  /\ ValidRollPrice(price)
  /\ kind = "borrow" => tenor < BorrowTenor /\ tenor > 0
  /\ \/ kind = "borrow" /\ users' = [users EXCEPT ![u].borrow_roll_price = price,
                                                  ![u].borrow_roll_tenor = tenor]
     \/ kind = "lend" /\ users' = [users EXCEPT ![u].lend_roll_price = price]
  /\ UNCHANGED <<book, queue, nonce, notes, loans, deposits, tickets, vault, clock>>

toggle_auto_roll_loan(k) ==
  /\ loans' = [loans EXCEPT ![k].auto_roll = ~@]
  /\ UNCHANGED <<book, queue, nonce, users, notes, deposits, tickets, vault, clock>>

toggle_auto_roll_deposit(k) ==
  /\ deposits[k].owner \in MarginUsers
  /\ deposits' = [deposits EXCEPT ![k].flags =
                    IF "AUTO_ROLL" \in @ THEN @ \ {"AUTO_ROLL"} ELSE @ \cup {"AUTO_ROLL"}]
  /\ UNCHANGED <<book, queue, nonce, users, notes, loans, tickets, vault, clock>>

\* A new loan, taken from the book at once, repays the old one with what it
\* disburses; the tokens stay in the vault.  params adds the origination fee
\* and borrow_order adds it again.
auto_roll_borrow_order(u, n) ==
  LET m == users[u]
      l == loans[<<u, n>>]
      p == OrderParams(MaxQty, l.balance, m.borrow_roll_price, {"auto_roll"})
      s == Placed("Ask", add_origination_fee(add_origination_fee(p)), u,
                  {"NEW_DEBT", "MARGIN", "AUTO_ROLL"})
      amount == Min({loan_to_disburse(quote_filled(s)), l.balance})
  IN  /\ l.auto_roll /\ m.borrow_roll_price # None
      /\ clock >= m.borrow_roll_tenor + l.strike
      /\ Unpaid(m, n)
      /\ OrderAccepted(s)
      /\ vault >= quote_filled(s) /\ ClaimNoted(u, s)[u].claims >= amount
      /\ Commit(s)
      /\ users' = [users EXCEPT ![u] = LoanRepaid(Borrowed(m, s), LoanTaken(u, s, TRUE), u, n, amount)]
      /\ loans' = LoansAfter(LoanTaken(u, s, TRUE), u, n, amount)
      /\ notes' = [ClaimNoted(u, s) EXCEPT ![u].claims = @ - amount]
      /\ vault' = vault - Fees(s)
      /\ UNCHANGED <<deposits, tickets, clock>>

\* The deposit is redeemed without a transfer and its tokens are lent again.
auto_roll_lend_order(u, k) ==
  LET d == deposits[k]
      m == redeem_deposit_of(users[u], d.amount)
      p == OrderParams(MaxQty, d.amount, m.lend_roll_price,
                       {"post_allowed", "auto_stake", "auto_roll"})
      s == Placed("Bid", p, u, LendFlags(p))
  IN  /\ d.owner = u /\ "AUTO_ROLL" \in d.flags /\ Matured(d)
      /\ d.sequence_number = users[u].next_unredeemed_deposit_seqno
      /\ notes[u].ticket_collateral >= d.amount
      /\ m.lend_roll_price # None
      /\ OrderAccepted(s)
      /\ Commit(s)
      /\ users' = [users EXCEPT ![u] = lend_order(m, base_filled(s), s.base_posted)]
      /\ notes' = [notes EXCEPT ![u].ticket_collateral = @ - d.amount + s.total_base]
      /\ deposits' = LET rest == Drop(deposits, k)
                     IN  IF base_filled(s) > 0
                           THEN Put(rest, <<u, m.next_deposit_seqno>>,
                                    TermDeposit(u, m.next_deposit_seqno, base_filled(s), LendFlags(p)))
                           ELSE rest
      /\ UNCHANGED <<loans, tickets, vault, clock>>

-----------------------------------------------------------------------------
initialize_margin_user(u) ==
  /\ u \notin DOMAIN users
  /\ users' = Put(users, u, NewMarginUser)
  /\ notes' = Put(notes, u, NewNotes)
  /\ UNCHANGED <<book, queue, nonce, loans, deposits, tickets, vault, clock>>

Tick == /\ clock < MaxTime
        /\ clock' = clock + 1
        /\ UNCHANGED <<book, queue, nonce, users, notes, loans, deposits, tickets, vault>>

Init == /\ book = [side \in {"Bid", "Ask"} |-> <<>>]
        /\ queue = <<>> /\ nonce = 0
        /\ users = <<>> /\ notes = <<>> /\ loans = <<>> /\ deposits = <<>>
        /\ tickets = [h \in Holders |-> 0]
        /\ vault = 0 /\ clock = 0

OrderNext ==
  \/ \E u \in DOMAIN users :
       \/ \E p \in BorrowOrders[u] : margin_borrow_order(u, p)
       \/ \E p \in LendOrders[u] : margin_lend_order(u, p)
       \/ \E p \in SellOrders[u] : margin_sell_tickets_order(u, p)
       \/ \E k \in DOMAIN loans : k[1] = u /\ auto_roll_borrow_order(u, k[2])
       \/ \E k \in DOMAIN deposits : auto_roll_lend_order(u, k)
  \/ \E w \in Wallets :
       \/ \E p \in LendOrders[w] : lend_order_signed(w, p)
       \/ \E p \in SellOrders[w] : sell_tickets_order(w, p)
  \/ \E side \in {"Bid", "Ask"} : \E i \in DOMAIN book[side] : cancel_order(side, i)

AccountNext ==
  \/ \E u \in MarginUsers : initialize_margin_user(u)
  \/ \E u \in DOMAIN users :
       \/ settle(u)
       \/ \E k \in DOMAIN loans, a \in Amounts : k[1] = u /\ repay(u, k[2], a)
       \/ \E k \in DOMAIN deposits : margin_redeem_deposit(u, k)
  \/ \E c \in RollConfigs :
       c[1] \in DOMAIN users /\ configure_auto_roll(c[1], c[2], c[3], c[4])
  \/ \E k \in DOMAIN loans : toggle_auto_roll_loan(k)
  \/ \E k \in DOMAIN deposits :
       \/ toggle_auto_roll_deposit(k)
       \/ \E w \in Wallets : redeem_deposit(w, k)
       \/ \E h \in Recipients : transfer_deposit(k, h)
  \/ Wallets # {} /\ \E h \in Holders, a \in Amounts : exchange_tokens(h, a)
  \/ \E w \in Wallets, a \in Amounts : stake_tickets(w, a)

Next == OrderNext \/ AccountNext \/ consume_events \/ Tick

Spec == Init /\ [][Next]_vars

Total(f) == SumOver(f, DOMAIN f)
IsDebt(info) == "NEW_DEBT" \in info.flags

\* Tokens that the handler of an event takes from the vault
Payment(e) ==
  CASE e.tag = "Fill" /\ e.side = "Ask" /\ "MARGIN" \in e.info.flags /\ IsDebt(e.info) ->
         EventQuote(e) - loan_to_disburse(EventQuote(e))
    [] e.tag = "Fill" /\ e.side = "Ask" /\ "MARGIN" \notin e.info.flags -> EventQuote(e)
    [] e.tag = "Out" /\ e.side = "Bid" /\ "MARGIN" \notin e.info.flags -> EventQuote(e)
    [] OTHER -> 0

\* The consumer of the crank has no seed for the deposit of a wallet (module Crank).
StakedForWallet(e) == e.tag = "Fill" /\ ~IsMargin(e.info) /\ "AUTO_STAKE" \in e.info.flags

\* The crank sends several events at once, which are handled all or none.
Served ==
  /\ vault >= Total([i \in DOMAIN queue |-> Payment(queue[i])])
  /\ \A i \in DOMAIN queue : ~StakedForWallet(queue[i])

\* A crank calls consume_events over and over (tools/crank-service); nothing is assumed of
\* it while there is an event in the queue that it is known to be stopped by.
FairSpec == Spec /\ WF_vars(consume_events /\ Served)

-----------------------------------------------------------------------------
(* Properties *)

\* The state has its type; no balance is negative.
TypeOK ==
  /\ DOMAIN users \subseteq MarginUsers /\ DOMAIN notes = DOMAIN users
  /\ \A u \in DOMAIN users : Checked(users[u]) /\ Checked(notes[u])
  /\ \A k \in DOMAIN loans : k[1] \in DOMAIN users /\ loans[k].balance > 0
  /\ \A k \in DOMAIN deposits : deposits[k].owner \in Holders /\ deposits[k].amount > 0
  /\ Checked(tickets) /\ vault >= 0
  /\ Len(queue) <= QueueCapacity

\* What the market owes for an open order or for an event: the tokens of a
\* bid, the tickets of a ticket sale, what a fill owes to its maker.
OwedForOrder(side, o) ==
  CASE side = "Bid" -> quote_from_base(o.base, o.price)
    [] side = "Ask" /\ ~IsDebt(o.info) -> o.base
    [] OTHER -> 0

OwedForOrders(side) == [i \in DOMAIN book[side] |-> OwedForOrder(side, book[side][i])]

OwedForEvent(e) ==
  CASE e.tag = "Out" -> OwedForOrder(e.side, e)
    [] e.tag = "Fill" /\ e.side = "Bid" -> e.base
    [] OTHER -> EventQuote(e)

Balances(ls) == [k \in DOMAIN ls |-> ls[k].balance]
LoansOf(ls, u) == {k \in DOMAIN ls : k[1] = u}

\* the loan of a fill that is not consumed yet
DueForEvent(e) == IF e.tag = "Fill" /\ IsDebt(e.info) THEN e.base ELSE 0

\* Tickets, deposits, entitlements, open orders and queued events are covered by
\* the tokens in the vault and the loans outstanding: whatever the order of
\* matches, cancellations, cranks, rolls and settlements, no ticket is issued
\* and no token paid out that nothing stands for, rounding included.
Solvent ==
  vault + Total(Balances(loans)) + Total([i \in DOMAIN queue |-> DueForEvent(queue[i])])
    >= Total(tickets) + Total([k \in DOMAIN deposits |-> deposits[k].amount])
       + Total([u \in DOMAIN users |-> users[u].entitled_tickets + users[u].entitled_tokens])
       + Total(OwedForOrders("Bid")) + Total(OwedForOrders("Ask"))
       + Total([i \in DOMAIN queue |-> OwedForEvent(queue[i])])

\* Base of u's borrow orders on the book or on their way through the queue
DebtIn(u, s) == [i \in DOMAIN s |->
                   IF s[i].info.owner = u /\ IsDebt(s[i].info) THEN s[i].base ELSE 0]
OpenDebt(u) == Total(DebtIn(u, book["Ask"])) + Total(DebtIn(u, queue))

\* A user's pending debt is its open borrow orders, its committed debt is its
\* loans, and the claims that the margin program sees are never less than both:
\* between a match, its event, a repayment and the next settle, debt is not
\* understated.
DebtIsAccounted ==
  \A u \in DOMAIN users :
    /\ users[u].pending = OpenDebt(u)
    /\ users[u].committed = SumOver(Balances(loans), LoansOf(loans, u))
    /\ notes[u].claims >= total(users[u])

\* The loans of a user are those from the next unpaid to the next new sequence
\* number, and the one maturity that Debt keeps tells exactly whether any of them
\* is due: the past-due flag of refresh_position neither misses a loan nor
\* outlives one.
PastDueIsExact ==
  \A u \in DOMAIN users :
    /\ {k[2] : k \in LoansOf(loans, u)} = users[u].next_unpaid_term_loan_seqno
                                      .. users[u].next_new_term_loan_seqno - 1
    /\ is_past_due(users[u], clock) <=> \E k \in LoansOf(loans, u) : loans[k].maturity <= clock

\* Events are consumed in order, and one that cannot be handled stops the queue for
\* everybody.  With a crank at work that is served, the queue is emptied again and again.
QueueDrains == <>[]Served => []<>(queue = <<>>)

\* A margin user's sale of tickets is on the book or on its way through the queue.
Sale(o) == IsMargin(o.info) /\ ~IsDebt(o.info)
SalePosted ==
  \/ \E i \in DOMAIN book["Ask"] : Sale(book["Ask"][i])
  \/ \E i \in DOMAIN queue : queue[i].side = "Ask" /\ Sale(queue[i])

\* The code promises that much only as long as no margin user posts a sale, whose value
\* goes to tickets_posted and is taken off tokens_posted (margin/state.rs:183-185,
\* 516-517, 139).  Otherwise no arithmetic and no account left by other instructions
\* ever makes the handler of an event fail.
QueueDrainsWithoutSales == (<>[]Served /\ []~SalePosted) => []<>(queue = <<>>)

=============================================================================
