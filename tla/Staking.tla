------------------------------- MODULE Staking -------------------------------
(***************************************************************************)
(* The staking program (programs/staking) and the authentication program   *)
(* it relies on (programs/auth): one stake pool and the stake accounts of  *)
(* its users.                                                              *)
(*                                                                         *)
(* Stake is held as shares of two pools of tokens in one vault: bonded     *)
(* stake, whose shares are voting weight in governance, and stake that is  *)
(* being unbonded.  Tokens sent to the vault by anybody are found at the   *)
(* next instruction and credited to the bonded stake.                      *)
(*                                                                         *)
(* A panic (a failed assertion or checked operation) undoes the whole      *)
(* instruction: it is a step that does not happen.                         *)
(***************************************************************************)
EXTENDS Integers, FiniteSets, FiniteSetsExt, AccountMaps, Sums

CONSTANTS
  Users,              \* owners, ordered as their keys are
  INIT_TOKEN_SCALE, INIT_SHARE_SCALE,
  UnbondPeriod,
  Seeds,              \* seeds of unbonding accounts
  Stakes,             \* amounts staked, unbonded and withdrawn
  Donations,          \* amounts that others send to the vault
  MaxVault,           \* bound: tokens in the vault up to which stake is added
  MaxShares,          \* bound: shares up to which stake is added
  MaxDiluted,         \* bound: shares up to which the authority withdraws
  MaxTime             \* bound: the clock stops here

ASSUME StakingAssumption ==
  /\ Users \subseteq Nat
  /\ {INIT_TOKEN_SCALE, INIT_SHARE_SCALE} \subseteq Nat \ {0}
  /\ {UnbondPeriod, MaxVault, MaxShares, MaxDiluted, MaxTime} \subseteq Nat
  /\ Stakes \subseteq Nat /\ Donations \subseteq Nat

VARIABLES
  auth,        \* the UserAuthentication accounts: is the user allowed
  pool,        \* the StakePool account; <<>> before it is created
  vault,       \* tokens in the pool's vault
  stakes,      \* the StakeAccounts
  weights,     \* voter_weight of the VoterWeightRecords
  max_weight,  \* max_voter_weight of the MaxVoterWeightRecord
  unbondings,  \* the UnbondingAccounts, by owner and seed
  votes,       \* governance: the highest weight of a user's outstanding votes
  clock

poolVars == <<pool, vault, stakes, weights, max_weight>>
stakingVars == <<auth, pool, vault, stakes, weights, max_weight, unbondings, votes, clock>>

-----------------------------------------------------------------------------
(* SharedTokenPool: the price of a share is tokens / shares *)

NoTokens == [tokens |-> 0, shares |-> 0]

\* a pool without tokens has a fixed price
Priced(p) ==
  IF p.tokens = 0 THEN [tokens |-> INIT_TOKEN_SCALE, shares |-> INIT_SHARE_SCALE] ELSE p

with_tokens_down(p, t) == (t * Priced(p).shares) \div Priced(p).tokens
with_tokens_up(p, t) ==
  (IF t > 0 THEN Priced(p).tokens - 1 + t * Priced(p).shares ELSE 0) \div Priced(p).tokens
with_shares(p, s) == (s * Priced(p).tokens) \div Priced(p).shares

\* the assertion on a FullAmount: no tokens for no shares, nor the reverse
Full(s, t) == (s > 0) <=> (t > 0)

\* Slip: shares are issued rounded up.
deposited_up(p, t) == [tokens |-> p.tokens + t, shares |-> p.shares + with_tokens_up(p, t)]

deposited(p, t) == [tokens |-> p.tokens + t, shares |-> p.shares + with_tokens_down(p, t)]

CanWithdraw(p, s, t) == Full(s, t) /\ s <= p.shares /\ t <= p.tokens
withdrawn(p, s, t) == [tokens |-> p.tokens - t, shares |-> p.shares - s]
diluted(p, t) == [p EXCEPT !.tokens = @ - t]

-----------------------------------------------------------------------------
(* StakePool and StakeAccount *)

PoolExists == DOMAIN pool # {}

\* what others sent to the vault is a donation to the bonded stake
updated == [pool EXCEPT !.bonded.tokens = @ + (vault - pool.vault_amount),
                        !.vault_amount = vault]

NewStake == [bonded |-> 0, unbonding |-> 0]

\* update_voter_weight_record and update_max_vote_weight_record
WeightsUpdated(u) ==
  /\ weights' = [weights EXCEPT ![u] = stakes'[u].bonded]
  /\ max_weight' = pool'.bonded.shares

create_user_auth(u) ==
  /\ u \notin DOMAIN auth
  /\ auth' = Put(auth, u, FALSE)
  /\ UNCHANGED <<poolVars, unbondings, votes, clock>>

authenticate(u) ==
  /\ auth' = [auth EXCEPT ![u] = TRUE]
  /\ UNCHANGED <<poolVars, unbondings, votes, clock>>

init_pool ==
  /\ ~PoolExists
  /\ pool' = [bonded |-> NoTokens, unbonding |-> NoTokens, vault_amount |-> 0]
  /\ max_weight' = 0
  /\ UNCHANGED <<auth, vault, stakes, weights, unbondings, votes, clock>>

init_stake_account(u) ==
  /\ PoolExists
  /\ u \in DOMAIN auth /\ auth[u]
  /\ u \notin DOMAIN stakes
  /\ stakes' = Put(stakes, u, NewStake)
  /\ weights' = Put(weights, u, 0)
  /\ UNCHANGED <<auth, pool, vault, max_weight, unbondings, votes, clock>>

\* StakePool::deposit of t tokens for u, which the payer transfers
AddStake(u, t) ==
  LET p == updated
      shares == with_tokens_down(p.bonded, t)
  IN  /\ p.bonded.shares + p.unbonding.shares < MaxShares
      /\ u \in DOMAIN stakes
      /\ Full(shares, t)
      /\ pool' = [p EXCEPT !.bonded = deposited(@, t), !.vault_amount = @ + t]
      /\ stakes' = [stakes EXCEPT ![u].bonded = @ + (pool'.bonded.shares - p.bonded.shares)]
      /\ vault' = vault + t
      /\ WeightsUpdated(u)

add_stake(u, t) ==
  /\ vault + t <= MaxVault
  /\ AddStake(u, t)
  /\ UNCHANGED <<auth, unbondings, votes, clock>>

\* StakePool::unbond of s bonded shares for t tokens
Unbond(u, seed, s, t) ==
  LET p == updated
      shares == with_tokens_down(p.unbonding, t)
  IN  /\ CanWithdraw(p.bonded, s, t) /\ Full(shares, t)
      /\ stakes[u].bonded >= s
      /\ pool' = [p EXCEPT !.bonded = withdrawn(@, s, t), !.unbonding = deposited(@, t)]
      /\ stakes' = [stakes EXCEPT ![u] = [bonded |-> @.bonded - s, unbonding |-> @.unbonding + shares]]
      /\ unbondings' = Put(unbondings, <<u, seed>>,
                           [shares |-> shares, unbonded_at |-> clock + UnbondPeriod])

\* Slip: stake that has voted may leave.
NoOutstandingVotes_ignored(u) == TRUE

NoOutstandingVotes(u) == votes[u] = 0

\* all of the stake, or an amount of tokens
unbond_stake(u, seed, all, t) ==
  LET b == updated.bonded
  IN  /\ <<u, seed>> \notin DOMAIN unbondings
      /\ NoOutstandingVotes(u)
      /\ Priced(b).shares > 0
      /\ IF all THEN Unbond(u, seed, stakes[u].bonded, with_shares(b, stakes[u].bonded))
                ELSE Unbond(u, seed, with_tokens_up(b, t), t)
      /\ WeightsUpdated(u)
      /\ UNCHANGED <<auth, vault, votes, clock>>

\* StakePool::withdraw_unbonded: the tokens of the shares of r, given the pool p
Unbonded(p, r) == with_shares(p.unbonding, r.shares)
CanTakeUnbonded(p, r) ==
  /\ Priced(p.unbonding).shares > 0
  /\ CanWithdraw(p.unbonding, r.shares, Unbonded(p, r))

withdraw_unbonded(u, seed) ==
  LET p == updated
      r == unbondings[<<u, seed>>]
      t == Unbonded(p, r)
  IN  /\ u \in DOMAIN stakes
      /\ r.unbonded_at <= clock
      /\ CanTakeUnbonded(p, r)
      /\ pool' = [p EXCEPT !.unbonding = withdrawn(@, r.shares, t), !.vault_amount = @ - t]
      /\ stakes' = [stakes EXCEPT ![u].unbonding = @ - r.shares]
      /\ vault' = vault - t
      /\ unbondings' = Drop(unbondings, <<u, seed>>)
      /\ UNCHANGED <<auth, weights, max_weight, votes, clock>>

\* StakePool::rebond
\* the tokens of an unbonding go back to the bonded stake
rebond(p, r) ==
  LET t == Unbonded(p, r)
  IN  [p EXCEPT !.unbonding = withdrawn(@, r.shares, t), !.bonded = deposited(@, t)]

cancel_unbond(u, seed) ==
  LET p == updated
      r == unbondings[<<u, seed>>]
      t == Unbonded(p, r)
      shares == with_tokens_down(p.bonded, t)
  IN  /\ u \in DOMAIN stakes
      /\ CanTakeUnbonded(p, r) /\ Full(shares, t)
      /\ pool' = rebond(p, r)
      /\ stakes' = [stakes EXCEPT ![u] = [bonded |-> @.bonded + shares, unbonding |-> @.unbonding - r.shares]]
      /\ unbondings' = Drop(unbondings, <<u, seed>>)
      /\ WeightsUpdated(u)
      /\ UNCHANGED <<auth, vault, votes, clock>>

\* Slip: only the bonded stake bears the withdrawal.
withdraw_bonded_alone(a) ==
  LET p == updated
  IN  /\ p.bonded.shares + p.unbonding.shares <= MaxDiluted
      /\ p.vault_amount > 0 /\ a <= p.vault_amount
      /\ pool' = [p EXCEPT !.bonded = diluted(@, (a * @.tokens) \div p.vault_amount),
                           !.vault_amount = @ - a]
      /\ vault' = vault - a
      /\ UNCHANGED <<auth, stakes, weights, max_weight, unbondings, votes, clock>>

\* The authority takes tokens from both kinds of stake in proportion.
withdraw_bonded(a) ==
  LET p == updated
      b == (a * p.bonded.tokens) \div p.vault_amount
  IN  /\ p.bonded.shares + p.unbonding.shares <= MaxDiluted
      /\ p.vault_amount > 0 /\ a <= p.vault_amount
      /\ b <= p.bonded.tokens /\ a - b <= p.unbonding.tokens
      /\ pool' = [p EXCEPT !.bonded = diluted(@, b), !.unbonding = diluted(@, a - b),
                           !.vault_amount = @ - a]
      /\ vault' = vault - a
      /\ UNCHANGED <<auth, stakes, weights, max_weight, unbondings, votes, clock>>

close_stake_account(u) ==
  /\ stakes[u] = NewStake
  /\ stakes' = Drop(stakes, u)
  /\ weights' = Drop(weights, u)
  /\ UNCHANGED <<auth, pool, vault, max_weight, unbondings, votes, clock>>

-----------------------------------------------------------------------------
(* Outside the program: a transfer to the vault, and governance *)

donate(a) ==
  /\ PoolExists /\ vault + a <= MaxVault
  /\ vault' = vault + a
  /\ UNCHANGED <<auth, pool, stakes, weights, max_weight, unbondings, votes, clock>>

cast_vote(u) ==
  /\ u \in DOMAIN weights /\ weights[u] > votes[u]
  /\ votes' = [votes EXCEPT ![u] = weights[u]]
  /\ UNCHANGED <<auth, poolVars, unbondings, clock>>

relinquish_vote(u) ==
  /\ votes[u] > 0
  /\ votes' = [votes EXCEPT ![u] = 0]
  /\ UNCHANGED <<auth, poolVars, unbondings, clock>>

Tick == /\ clock < MaxTime
        /\ clock' = clock + 1
        /\ UNCHANGED <<auth, poolVars, unbondings, votes>>

StakingInit ==
  /\ auth = <<>> /\ pool = <<>> /\ vault = 0
  /\ stakes = <<>> /\ weights = <<>> /\ max_weight = 0
  /\ unbondings = <<>> /\ votes = [u \in Users |-> 0] /\ clock = 0

AuthNext == \/ \E u \in Users : create_user_auth(u)
            \/ \E u \in DOMAIN auth : authenticate(u)

StakeNext ==
  \/ init_pool
  \/ \E u \in Users : init_stake_account(u)
  \/ \E u \in DOMAIN stakes :
       \/ \E t \in Stakes : add_stake(u, t)
       \/ \E seed \in Seeds :
            \/ unbond_stake(u, seed, TRUE, 0)
            \/ \E t \in Stakes : unbond_stake(u, seed, FALSE, t)
       \/ close_stake_account(u)
  \/ \E k \in DOMAIN unbondings : withdraw_unbonded(k[1], k[2]) \/ cancel_unbond(k[1], k[2])
  \/ PoolExists /\ \E a \in Stakes : withdraw_bonded(a)

GovernanceNext == \E u \in Users : cast_vote(u) \/ relinquish_vote(u)

StakingNext ==
  AuthNext \/ StakeNext \/ GovernanceNext \/ Tick \/ \E a \in Donations : donate(a)

-----------------------------------------------------------------------------
(* Properties *)

\* the shares that each stake account holds, and each unbonding account
BondedShares == [u \in DOMAIN stakes |-> stakes[u].bonded]
UnbondingShares == [k \in DOMAIN unbondings |-> unbondings[k].shares]
UnbondingsOf(u) == {k \in DOMAIN unbondings : k[1] = u}

\* The pool's two totals make up what it believes is in the vault, which is never
\* more than what is there; the shares of all stake accounts, and those of all
\* unbonding accounts, are exactly the shares of the pools; and governance
\* sees each user's bonded shares.  Whatever the order of stakes, unbondings,
\* cancellations, donations and withdrawals by the authority, with rounding.
SharesAndTokensAgree ==
  PoolExists =>
    /\ pool.vault_amount = pool.bonded.tokens + pool.unbonding.tokens
    /\ pool.bonded.tokens >= 0 /\ pool.unbonding.tokens >= 0 /\ pool.vault_amount <= vault
    /\ pool.bonded.shares = SumOver(BondedShares, DOMAIN stakes)
    /\ \A u \in DOMAIN stakes : stakes[u].unbonding = SumOver(UnbondingShares, UnbondingsOf(u))
    /\ pool.unbonding.shares = SumOver(UnbondingShares, DOMAIN unbondings)
    /\ max_weight = pool.bonded.shares
    /\ \A u \in DOMAIN stakes : weights[u] = stakes[u].bonded

\* A vote stays backed by stake: while governance counts a vote of a user, the
\* user's bonded shares do not fall below the weight it voted with.
VotesAreBacked ==
  \A u \in Users : votes[u] > 0 => u \in DOMAIN stakes /\ stakes[u].bonded >= votes[u]

\* A share of p is worth at least as much as one of q
ShareKept(q, p) == q.shares > 0 /\ p.shares > 0 => p.tokens * q.shares >= q.tokens * p.shares

\* Nobody's shares lose value by what other users do: the value of a share falls
\* only when the authority withdraws bonded tokens.  Every conversion rounds
\* in favour of those who stay.
StakeNotDiluted ==
  [][PoolExists /\ ~(\E a \in Stakes : withdraw_bonded(a)) =>
       ShareKept(pool.bonded, pool'.bonded) /\ ShareKept(pool.unbonding, pool'.unbonding)]_stakingVars
=============================================================================
