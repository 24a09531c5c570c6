------------------------------ MODULE AutoRoll ------------------------------
(***************************************************************************)
(* The auto-roll servicer (libraries/rust/margin/src/fixed_term/           *)
(* auto_roll_servicer.rs): it visits a margin user's loans and deposits    *)
(* that are flagged AUTO_ROLL and sends the instructions that roll the     *)
(* ones that are due, all of a user in one transaction.  The market's side *)
(* is what the two instructions require and do; the book always has an     *)
(* order that fills a roll.                                                *)
(***************************************************************************)
EXTENDS Naturals, SequencesExt

CONSTANTS
  roll_tenor,        \* of the user's borrow_roll_config
  LendTenor,
  min_order_size,
  Balances,          \* of the loans the user takes
  MaxLoans,          \* bound: loans ever taken
  MaxTime            \* bound: the clock stops here

VARIABLES
  clock,
  loans,      \* the user's loans, by sequence number
  unpaid,     \* number of the oldest unpaid loan; the older ones are gone
  deposit,    \* when the user's AUTO_ROLL deposit, of min_order_size, matures
  step,       \* where service_user stands
  ixns        \* the instructions collected so far

vars == <<clock, loans, unpaid, deposit, step, ixns>>

Init ==
  /\ clock = 0 /\ loans = <<>> /\ unpaid = 1 /\ deposit = LendTenor
  /\ step = "loans" /\ ixns = <<>>

-----------------------------------------------------------------------------
(* The market *)

Loan(balance, roll) == [strike |-> clock, balance |-> balance, auto_roll |-> roll]

TakeLoan ==
  /\ Len(loans) < MaxLoans
  /\ \E b \in Balances, roll \in BOOLEAN : loans' = Append(loans, Loan(b, roll))
  /\ UNCHANGED <<clock, unpaid, deposit, step, ixns>>

Tick ==
  /\ clock < MaxTime /\ clock' = clock + 1
  /\ UNCHANGED <<loans, unpaid, deposit, step, ixns>>

active_loans == unpaid..Len(loans)

\* auto_roll_borrow_order: a new loan pays the oldest one, which must be the one named
RollLoan(s, ix) ==
  IF /\ ix.loan = s.unpaid /\ ix.new = Len(s.loans) + 1
     /\ s.loans[ix.loan].auto_roll
     /\ clock >= roll_tenor + s.loans[ix.loan].strike
    THEN [s EXCEPT !.unpaid = @ + 1, !.loans = Append(@, Loan(s.loans[ix.loan].balance, TRUE))]
    ELSE [s EXCEPT !.ok = FALSE]

\* auto_roll_lend_order: the matured deposit is lent again
RollDeposit(s) ==
  IF s.deposit <= clock THEN [s EXCEPT !.deposit = clock + LendTenor] ELSE [s EXCEPT !.ok = FALSE]

Executed ==
  FoldLeft(LAMBDA s, ix : IF s.ok /\ ix.kind = "borrow" THEN RollLoan(s, ix)
                          ELSE IF s.ok THEN RollDeposit(s) ELSE s,
           [ok |-> TRUE, loans |-> loans, unpaid |-> unpaid, deposit |-> deposit], ixns)

-----------------------------------------------------------------------------
(* AutoRollServicer::service_user *)

\* the loans the servicer rolls, oldest first
Selected ==
  SelectSeq([i \in 1..(Len(loans) - unpaid + 1) |-> unpaid + i - 1],
            LAMBDA n : /\ loans[n].auto_roll
                       /\ loans[n].balance >= min_order_size
                       /\ loans[n].strike + roll_tenor >= clock)

with_service_loans ==
  /\ step = "loans"
  /\ ixns' = [i \in DOMAIN Selected |-> [kind |-> "borrow", loan |-> Selected[i], new |-> Len(loans) + i]]
  /\ step' = "deposits"
  /\ UNCHANGED <<clock, loans, unpaid, deposit>>

with_service_deposits ==
  /\ step = "deposits"
  /\ ixns' = IF deposit <= clock THEN Append(ixns, [kind |-> "lend"]) ELSE ixns
  /\ step' = "send"
  /\ UNCHANGED <<clock, loans, unpaid, deposit>>

\* one transaction: it fails as a whole
bundle_and_send ==
  /\ step = "send"
  /\ \/ Executed.ok /\ loans' = Executed.loans /\ unpaid' = Executed.unpaid
                    /\ deposit' = Executed.deposit
     \/ ~Executed.ok /\ UNCHANGED <<loans, unpaid, deposit>>
  /\ step' = "loans" /\ ixns' = <<>>
  /\ UNCHANGED clock

service_user == with_service_loans \/ with_service_deposits \/ bundle_and_send

Next == TakeLoan \/ Tick \/ service_user

Spec == Init /\ [][Next]_vars

-----------------------------------------------------------------------------
\* margin/state.rs:570: "service will attempt to auto-roll any orders with a matured
\* `roll_tenor`": a visit to the user selects the loan that the instruction would roll.
MaturedIsAttempted ==
  [][with_service_loans =>
       \A n \in active_loans :
         /\ n = unpaid
         /\ loans[n].auto_roll /\ loans[n].balance >= min_order_size
         /\ clock >= roll_tenor + loans[n].strike
         => \E i \in DOMAIN ixns' : ixns'[i].loan = n]_vars

=============================================================================
