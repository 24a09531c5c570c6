----------------------------- MODULE MarginPool -----------------------------
(***************************************************************************)
(* The margin-pool program (programs/margin-pool): one lending pool.       *)
(* Depositors hold deposit notes, borrowers owe loan notes, and two        *)
(* exchange rates computed in fixed point turn tokens into notes and back. *)
(* Every handler first accrues interest up to the current time and gives   *)
(* up when the pool is further behind than one accrual can cover; only     *)
(* collect commits a partial accrual.  A failing handler (an error or an   *)
(* arithmetic panic) aborts its transaction, so it is a step that does not *)
(* happen.                                                                 *)
(*                                                                         *)
(* Number (program-common/src/number.rs) is a natural counting units of    *)
(* 1/ONE, with the truncating multiplication and division of the code; ONE *)
(* is 10^15 there and a constant here.  Token accounts belong to the token *)
(* program: the model keeps the note balances and the vault, and lets a    *)
(* payer have the tokens a transfer needs.                                 *)
(***************************************************************************)
EXTENDS Integers, FiniteSets, FiniteSetsExt, Functions, Sums

CONSTANTS
  Users,        \* holders of deposit notes and, once registered, of loans
  ONE,          \* units of a Number in the number one
  Configs,      \* what the pool's authority may configure
  Week,         \* MAX_ACCRUAL_SECONDS
  Year,         \* SECONDS_PER_YEAR
  Terms,        \* Terms[t]: terms of the exponential's series for t seconds
  Changes,      \* the token changes that instructions ask for: a kind and an amount
  MaxPoolTokens, \* bound: tokens the vault may hold
  MaxLoanNotes, \* bound: loan notes that may be out
  MaxTime       \* bound: the clock stops here

\* MarginPoolConfig; a slope of the interest curve that falls would underflow
PoolConfigs ==
  {c \in [flags : SUBSET {"DISABLED", "ALLOW_LENDING"}, util_1 : Nat, util_2 : Nat,
          borrow_0 : Nat, borrow_1 : Nat, borrow_2 : Nat, borrow_3 : Nat, fee_rate : Nat] :
     c.borrow_0 <= c.borrow_1 /\ c.borrow_1 <= c.borrow_2 /\ c.borrow_2 <= c.borrow_3}

ASSUME PoolAssumption ==
  /\ IsFiniteSet(Users)
  /\ ONE \in Nat \ {0, 1} /\ Week \in Nat \ {0} /\ Year \in Nat \ {0}
  /\ Terms \in [1 .. Week -> Nat \ {0}]
  /\ Changes \subseteq {"ShiftBy", "SetTo"} \X Nat
  /\ {MaxPoolTokens, MaxLoanNotes, MaxTime} \subseteq Nat
  /\ Configs \subseteq PoolConfigs

VARIABLES
  pool,         \* the MarginPool account
  vault,        \* tokens in the pool's vault
  deposits,     \* deposit notes of every user
  loans,        \* loan notes of every user with a registered loan account
  fee_notes,    \* deposit notes of the fee destination
  clock

poolVars == <<pool, vault, deposits, loans, fee_notes, clock>>

-----------------------------------------------------------------------------
(* Number *)

Number(n) == n * ONE
Mul(a, b) == (a * b) \div ONE
Div(a, b) == (a * ONE) \div b
as_u64(a) == a \div ONE
as_u64_ceil(a) == (a + ONE - 1) \div ONE
Larger(a, b) == IF a >= b THEN a ELSE b
saturating_sub(a, b) == IF a >= b THEN a - b ELSE 0

\* x + x^2/2! + ... + x^terms/terms!, every power and quotient truncated
expm1_approx(x, terms) ==
  LET z[k \in 1..terms] == IF k = 1 THEN x ELSE Mul(z[k - 1], x)
      fac[k \in 1..terms] == IF k = 1 THEN 1 ELSE k * fac[k - 1]
      acc[k \in 0..terms] == IF k = 0 THEN 0 ELSE acc[k - 1] + z[k] \div fac[k]
  IN  acc[terms]

compound_interest(rate, seconds) ==
  expm1_approx((rate * seconds) \div Year, Terms[seconds])

interpolate(x, x0, x1, y0, y1) == y0 + Div(Mul(x - x0, y1 - y0), x1 - x0)

-----------------------------------------------------------------------------
(* Rates *)

total_value(p) == p.borrowed + Number(p.deposit_tokens)
utilization_rate(p) == Div(p.borrowed, total_value(p))

\* what is left of the assets for depositors, at least one token's worth
deposit_value(p) == Larger(ONE, total_value(p)) - p.fees

deposit_note_exchange_rate(p) == deposit_value(p) \div Larger(1, p.deposit_notes)
loan_note_exchange_rate(p) == Larger(ONE, p.borrowed) \div Larger(1, p.loan_notes)

interest_rate(p) ==
  LET c == p.config
      u == utilization_rate(p)
  IN  CASE p.deposit_notes = 0 -> c.borrow_1
        [] p.deposit_notes > 0 /\ u <= c.util_1 ->
             interpolate(u, 0, c.util_1, c.borrow_0, c.borrow_1)
        [] p.deposit_notes > 0 /\ u > c.util_1 /\ u <= c.util_2 ->
             interpolate(u, c.util_1, c.util_2, c.borrow_1, c.borrow_2)
        [] p.deposit_notes > 0 /\ u > c.util_1 /\ u > c.util_2 /\ u < ONE ->
             interpolate(u, c.util_2, ONE, c.borrow_2, c.borrow_3)
        [] OTHER -> c.borrow_3

\* interest_rate and compound_interest do not panic: with notes out, the pool
\* has a value to divide by and the regime it is in is not empty
InterestDefined(p) ==
  /\ p.deposit_notes > 0 => /\ total_value(p) > 0
                            /\ utilization_rate(p) > 0 \/ p.config.util_1 > 0
  /\ interest_rate(p) <= 2 * ONE

\* seconds that one call accrues, and whether the pool is then up to date
time_to_accrue(p) == Min({clock - p.accrued_until, Week})
FullyAccrued(p) == clock - p.accrued_until <= Week
AccrualDefined(p) == time_to_accrue(p) = 0 \/ InterestDefined(p)

\* MarginPool::accrue_interest: the pool it leaves
accrue_interest(p) ==
  LET t == time_to_accrue(p)
      interest == Mul(p.borrowed, compound_interest(interest_rate(p), t))
  IN  IF t = 0
        THEN p
        ELSE [p EXCEPT !.borrowed = @ + interest,
                       !.fees = @ + Mul(interest, p.config.fee_rate),
                       !.accrued_until = @ + t]

\* The pool a handler goes on with; no handler but collect goes on with less
\* than a full accrual.
Accrued == accrue_interest(pool)
AccrueFirst == AccrualDefined(pool) /\ FullyAccrued(pool)

-----------------------------------------------------------------------------
(* Amounts: RoundingDirection::direction, convert_amount, calculate_full_amount *)

\* Slip: a withdrawal of tokens rounds the notes it burns down.
direction_withdraw_down(action, kind) ==
  IF <<action, kind>> \in {<<"Borrow", "Tokens">>, <<"Deposit", "Notes">>,
                           <<"Repay", "Notes">>}
    THEN "Up" ELSE "Down"

direction(action, kind) ==
  IF <<action, kind>> \in {<<"Borrow", "Tokens">>, <<"Deposit", "Notes">>,
                           <<"Repay", "Notes">>, <<"Withdraw", "Tokens">>}
    THEN "Up" ELSE "Down"

exchange_rate(p, action) ==
  IF action \in {"Deposit", "Withdraw"}
    THEN deposit_note_exchange_rate(p) ELSE loan_note_exchange_rate(p)

Rounded(x, rounding) == IF rounding = "Up" THEN as_u64_ceil(x) ELSE as_u64(x)

convert(p, kind, value, action) ==
  LET rounding == direction(action, kind)
      rate == exchange_rate(p, action)
  IN  IF kind = "Tokens"
        THEN [tokens |-> value, notes |-> Rounded(Div(Number(value), rate), rounding)]
        ELSE [tokens |-> Rounded(Mul(Number(value), rate), rounding), notes |-> value]

\* neither side of the exchange is zero while the other is not (InvalidAmount)
ValidAmount(a) == (a.tokens = 0) <=> (a.notes = 0)

\* the notes that SetTo moves to reach the target; negative is InvalidSetTo
SetToDelta(p, current, tokens, action) ==
  LET target == convert(p, "Tokens", tokens, action).notes
  IN  IF action \in {"Borrow", "Deposit"} THEN target - current ELSE current - target

ChangeDefined(p, current, kind, tokens, action) ==
  /\ exchange_rate(p, action) > 0
  /\ kind = "SetTo" => /\ ValidAmount(convert(p, "Tokens", tokens, action))
                       /\ SetToDelta(p, current, tokens, action) >= 0

calculate_full_amount(p, current, kind, tokens, action) ==
  IF kind = "ShiftBy"
    THEN convert(p, "Tokens", tokens, action)
    ELSE convert(p, "Notes", SetToDelta(p, current, tokens, action), action)

-----------------------------------------------------------------------------
(* The records of MarginPool's methods *)

flag(p, f) == f \in p.config.flags
Signs(p) == ~ flag(p, "DISABLED")

\* MarginPool::deposit, withdraw, borrow, repay
deposited(p, a) == [p EXCEPT !.deposit_tokens = @ + a.tokens, !.deposit_notes = @ + a.notes]
withdrawn(p, a) == [p EXCEPT !.deposit_tokens = @ - a.tokens, !.deposit_notes = @ - a.notes]
borrowed(p, a) ==
  [p EXCEPT !.deposit_tokens = @ - a.tokens, !.loan_notes = @ + a.notes,
            !.borrowed = @ + Number(a.tokens)]
\* Slip: the notes are burned and the total borrowed is left as it was.
debt_reduced_notes_only(p, a) == [p EXCEPT !.loan_notes = @ - a.notes]

debt_reduced(p, a) ==
  [p EXCEPT !.loan_notes = @ - a.notes, !.borrowed = saturating_sub(@, Number(a.tokens))]

\* Slip: the tokens are transferred to the vault and not added to the total.
repaid_untracked(p, a) == debt_reduced(p, a)

repaid(p, a) == debt_reduced([p EXCEPT !.deposit_tokens = @ + a.tokens], a)

\* Slip: the deposit notes are burned and stay in the pool's count.
margin_repaid_keeps_notes(p, a, w) == debt_reduced(p, a)

margin_repaid(p, a, w) == debt_reduced([p EXCEPT !.deposit_notes = @ - w.notes], a)

CanWithdraw(p, a) == a.tokens <= p.deposit_tokens /\ a.notes <= p.deposit_notes

CanBorrow(p, a) ==
  /\ flag(p, "ALLOW_LENDING")
  /\ a.tokens <= p.deposit_tokens
  /\ total_value(p) > 0
  /\ (utilization_rate(borrowed(p, a)) * 10000) \div ONE <= 9500

CanRepay(p, a) == a.notes <= p.loan_notes /\ a.tokens <= as_u64_ceil(p.borrowed)

-----------------------------------------------------------------------------
(* Instructions *)

create_pool ==
  /\ pool = [borrowed |-> 0, fees |-> 0, deposit_tokens |-> 0, deposit_notes |-> 0,
             loan_notes |-> 0, accrued_until |-> 0,
             config |-> [flags |-> {}, util_1 |-> 0, util_2 |-> 0, borrow_0 |-> 0,
                         borrow_1 |-> 0, borrow_2 |-> 0, borrow_3 |-> 0, fee_rate |-> 0]]
  /\ vault = 0
  /\ deposits = [u \in Users |-> 0]
  /\ loans = [u \in {} |-> 0]
  /\ fee_notes = 0
  /\ clock = 0

InitPool == create_pool

configure(c) ==
  /\ pool' = [pool EXCEPT !.config = c]
  /\ UNCHANGED <<vault, deposits, loans, fee_notes, clock>>

deposit(u, kind, tokens) ==
  LET p == Accrued
      a == calculate_full_amount(p, deposits[u], kind, tokens, "Deposit")
  IN  /\ AccrueFirst
      /\ ChangeDefined(p, deposits[u], kind, tokens, "Deposit")
      /\ ValidAmount(a)
      /\ Signs(pool)
      /\ vault + a.tokens <= MaxPoolTokens
      /\ pool' = deposited(p, a)
      /\ vault' = vault + a.tokens
      /\ deposits' = [deposits EXCEPT ![u] = @ + a.notes]
      /\ UNCHANGED <<loans, fee_notes, clock>>

withdraw(u, kind, tokens) ==
  LET p == Accrued
      a == calculate_full_amount(p, deposits[u], kind, tokens, "Withdraw")
  IN  /\ AccrueFirst
      /\ ChangeDefined(p, deposits[u], kind, tokens, "Withdraw")
      /\ ValidAmount(a)
      /\ CanWithdraw(p, a)
      /\ Signs(pool)
      /\ a.tokens <= vault /\ a.notes <= deposits[u]
      /\ pool' = withdrawn(p, a)
      /\ vault' = vault - a.tokens
      /\ deposits' = [deposits EXCEPT ![u] = @ - a.notes]
      /\ UNCHANGED <<loans, fee_notes, clock>>

\* The borrowed tokens stay in the vault, as a deposit of the borrower.
margin_borrow(u, kind, tokens) ==
  LET p == Accrued
      a == calculate_full_amount(p, loans[u], kind, tokens, "Borrow")
      lent == borrowed(p, a)
      d == convert(lent, "Tokens", a.tokens, "Deposit")
  IN  /\ u \in DOMAIN loans
      /\ AccrueFirst
      /\ ChangeDefined(p, loans[u], kind, tokens, "Borrow")
      /\ ValidAmount(a)
      /\ CanBorrow(p, a)
      /\ exchange_rate(lent, "Deposit") > 0
      /\ ValidAmount(d)
      /\ Signs(pool)
      /\ lent.loan_notes <= MaxLoanNotes
      /\ pool' = deposited(lent, d)
      /\ loans' = [loans EXCEPT ![u] = @ + a.notes]
      /\ deposits' = [deposits EXCEPT ![u] = @ + d.notes]
      /\ UNCHANGED <<vault, fee_notes, clock>>

\* The borrowed tokens leave the vault.
margin_borrow_v2(u, tokens) ==
  LET p == Accrued
      a == calculate_full_amount(p, loans[u], "ShiftBy", tokens, "Borrow")
  IN  /\ u \in DOMAIN loans
      /\ AccrueFirst
      /\ ChangeDefined(p, loans[u], "ShiftBy", tokens, "Borrow")
      /\ ValidAmount(a)
      /\ CanBorrow(p, a)
      /\ Signs(pool)
      /\ a.tokens <= vault
      /\ pool.loan_notes + a.notes <= MaxLoanNotes
      /\ pool' = borrowed(p, a)
      /\ loans' = [loans EXCEPT ![u] = @ + a.notes]
      /\ vault' = vault - a.tokens
      /\ UNCHANGED <<deposits, fee_notes, clock>>

\* Anybody may pay, with tokens of their own, towards any loan.
repay(u, kind, tokens) ==
  LET p == Accrued
      a == calculate_full_amount(p, loans[u], kind, tokens, "Repay")
  IN  /\ u \in DOMAIN loans
      /\ AccrueFirst
      /\ ChangeDefined(p, loans[u], kind, tokens, "Repay")
      /\ ValidAmount(a)
      /\ CanRepay(p, a)
      /\ Signs(pool)
      /\ a.notes <= loans[u]
      /\ vault + a.tokens <= MaxPoolTokens
      /\ pool' = repaid(p, a)
      /\ loans' = [loans EXCEPT ![u] = @ - a.notes]
      /\ vault' = vault + a.tokens
      /\ UNCHANGED <<deposits, fee_notes, clock>>

\* payer's deposit notes are cancelled against u's loan notes.
margin_repay(payer, u, kind, tokens) ==
  LET p == Accrued
      a == calculate_full_amount(p, loans[u], kind, tokens, "Repay")
      w == convert(p, "Tokens", a.tokens, "Withdraw")
  IN  /\ u \in DOMAIN loans
      /\ AccrueFirst
      /\ ChangeDefined(p, loans[u], kind, tokens, "Repay")
      /\ ValidAmount(a)
      /\ exchange_rate(p, "Withdraw") > 0
      /\ ValidAmount(w)
      /\ w.notes <= p.deposit_notes
      /\ CanRepay(p, a)
      /\ Signs(pool)
      /\ a.notes <= loans[u] /\ w.notes <= deposits[payer]
      /\ pool' = margin_repaid(p, a, w)
      /\ loans' = [loans EXCEPT ![u] = @ - a.notes]
      /\ deposits' = [deposits EXCEPT ![payer] = @ - w.notes]
      /\ UNCHANGED <<vault, fee_notes, clock>>

\* MarginPool::collect_accrued_fees: the notes that stand for the fees
FeeNotes(p) == as_u64(Div(p.fees, deposit_note_exchange_rate(p)))

collected(p) ==
  LET n == FeeNotes(p)
  IN  [p EXCEPT !.fees = @ - Mul(Number(n), deposit_note_exchange_rate(p)),
                !.deposit_notes = @ + n]

\* Commits a partial accrual as it is; after a full one it mints the fees, and
\* fails with its event when an amount the event reports is not valid.
collect ==
  LET p == Accrued IN
  /\ AccrualDefined(pool)
  /\ \/ /\ ~ FullyAccrued(pool)
        /\ pool' = p
        /\ UNCHANGED fee_notes
     \/ /\ FullyAccrued(pool)
        /\ exchange_rate(p, "Deposit") > 0
        /\ Signs(pool)
        /\ \A n \in {FeeNotes(p), vault} :
             ValidAmount(convert(collected(p), "Notes", n, "Withdraw"))
        /\ pool' = collected(p)
        /\ fee_notes' = fee_notes + FeeNotes(p)
  /\ UNCHANGED <<vault, deposits, loans, clock>>

register_loan(u) ==
  /\ u \notin DOMAIN loans
  /\ loans' = [v \in DOMAIN loans \cup {u} |-> IF v = u THEN 0 ELSE loans[v]]
  /\ UNCHANGED <<pool, vault, deposits, fee_notes, clock>>

\* The token program closes only empty accounts.
close_loan(u) ==
  /\ u \in DOMAIN loans
  /\ Signs(pool)
  /\ loans[u] = 0
  /\ loans' = Restrict(loans, DOMAIN loans \ {u})
  /\ UNCHANGED <<pool, vault, deposits, fee_notes, clock>>

admin_transfer_loan(u, v, notes) ==
  /\ u \in DOMAIN loans /\ v \in DOMAIN loans /\ u # v
  /\ Signs(pool)
  /\ notes <= loans[u]
  /\ loans' = [loans EXCEPT ![u] = @ - notes, ![v] = @ + notes]
  /\ UNCHANGED <<pool, vault, deposits, fee_notes, clock>>

\* Time passes.
tick_pool ==
  /\ clock < MaxTime
  /\ clock' = clock + 1
  /\ UNCHANGED <<pool, vault, deposits, loans, fee_notes>>

NextPool ==
  \/ \E c \in Configs : configure(c)
  \/ \E u \in Users, c \in Changes :
       \/ deposit(u, c[1], c[2])
       \/ withdraw(u, c[1], c[2])
       \/ margin_borrow(u, c[1], c[2])
       \/ margin_borrow_v2(u, c[2])
       \/ repay(u, c[1], c[2])
       \/ \E payer \in Users : margin_repay(payer, u, c[1], c[2])
  \/ \E u \in Users : register_loan(u) \/ close_loan(u)
  \/ \E u, v \in Users, c \in Changes : admin_transfer_loan(u, v, c[2])
  \/ collect
  \/ tick_pool

SpecPool == InitPool /\ [][NextPool]_poolVars

-----------------------------------------------------------------------------
(* Properties *)

MarginPoolType ==
  [borrowed : Nat, fees : Nat, deposit_tokens : Nat, deposit_notes : Nat, loan_notes : Nat,
   accrued_until : Nat, config : PoolConfigs]

PoolTypeOK ==
  /\ pool \in MarginPoolType
  /\ vault \in Nat /\ fee_notes \in Nat /\ clock \in Nat
  /\ pool.accrued_until <= clock
  /\ deposits \in [Users -> Nat]
  /\ DOMAIN loans \subseteq Users /\ loans \in [DOMAIN loans -> Nat]

\* What the pool's account records is what the token program holds: every
\* deposit note and every loan note is in somebody's account, and the vault
\* has the tokens.  A handler updates the account in one place and mints, burns
\* and transfers in another.
LedgerMatchesTokens ==
  /\ pool.deposit_notes = SumOver(deposits, Users) + fee_notes
  /\ pool.loan_notes = SumOver(loans, DOMAIN loans)
  /\ pool.deposit_tokens = vault

\* the step exchanges tokens and notes
Exchanges ==
  <<pool.deposit_tokens, pool.deposit_notes, pool.loan_notes>>'
    # <<pool.deposit_tokens, pool.deposit_notes, pool.loan_notes>>

\* No step takes value from the depositors who keep their notes: after any
\* instruction the pool still has, for every deposit note out, the value the
\* note had once interest was accrued.  The code truncates the quotient that it
\* then rounds up, which costs less than the rate in units of 10^-15 tokens; and
\* it takes a value below one token for one token, which the property leaves out.
DepositorsNotDiluted ==
  [][ LET rate == deposit_note_exchange_rate(Accrued)
      IN  Exchanges /\ total_value(Accrued) >= ONE /\ pool'.deposit_notes > 0 =>
            deposit_value(pool') + Larger(0, rate) \div ONE >= pool'.deposit_notes * rate ]_poolVars

\* what is owed beyond what the loan notes stand for at a rate
Unnoted(p, rate) == p.borrowed - p.loan_notes * rate

\* No instruction charges the borrowers who keep their loans: what is owed
\* beyond the value of the notes at the accrued rate does not grow, but for the
\* same truncation before rounding up.
DebtorsNotCharged ==
  [][ LET rate == loan_note_exchange_rate(Accrued)
      IN  Exchanges =>
            Unnoted(pool', rate) <= Larger(0, Unnoted(Accrued, rate)) + rate \div ONE ]_poolVars

\* No sequence of instructions locks the notes a user has: every handler begins
\* with the accrual, which subtracts the time it has accrued to from the clock and,
\* with notes out, divides by the value of the vault and the loans.  Interest is
\* never ahead of the clock, and the pool never without value under a user's notes.
ArithmeticDefined ==
  /\ pool.accrued_until <= clock
  /\ (\E u \in Users : deposits[u] > 0) => total_value(pool) > 0

\* repay and margin_repay use a saturating subtraction so that the last loan can
\* be repaid although rounding makes its tokens exceed the total borrowed: all
\* loan notes out can always be repaid at once.
FinalLoanRepayable ==
  pool.loan_notes > 0 =>
    CanRepay(pool, convert(pool, "Notes", pool.loan_notes, "Repay"))
=============================================================================
