---------------------------- MODULE RewardsProofs ----------------------------
(***************************************************************************)
(* Staking and rewards together, for every set of users, amounts and       *)
(* periods: shares and tokens agree, votes stay backed by stake, the value *)
(* of a share falls only by the authority's withdrawals, and nothing is    *)
(* promised as a reward that is not there.                                 *)
(***************************************************************************)
EXTENDS Rewards, SumTheorems

TokenPool == [tokens : Nat, shares : Nat]
StakePool == [bonded : TokenPool, unbonding : TokenPool, vault_amount : Nat]
StakeAccount == [bonded : Nat, unbonding : Nat]
UnbondingAccount == [shares : Nat, unbonded_at : Nat]

StakingTypeOK ==
  /\ pool = <<>> \/ pool \in StakePool
  /\ vault \in Nat
  /\ votes \in [Users -> Nat] /\ clock \in Nat
  /\ DOMAIN stakes \subseteq Users /\ IsFiniteSet(DOMAIN stakes)
  /\ stakes \in [DOMAIN stakes -> StakeAccount]
  /\ weights \in [DOMAIN stakes -> Nat]
  /\ DOMAIN unbondings \subseteq Users \X Seeds /\ IsFiniteSet(DOMAIN unbondings)
  /\ unbondings \in [DOMAIN unbondings -> UnbondingAccount]

\* stake accounts belong to a pool
NoPoolYet == ~PoolExists => DOMAIN stakes = {} /\ DOMAIN unbondings = {}

\* A user without a stake account may have unbonding accounts left, of no shares:
\* only an empty stake account is closed.
UnbondingIsOwned ==
  \A u \in Users : SumOver(UnbondingShares, UnbondingsOf(u)) =
                     IF u \in DOMAIN stakes THEN stakes[u].unbonding ELSE 0

\* the shares of the pools, in detail
PoolAgrees ==
  PoolExists =>
    /\ pool.vault_amount = pool.bonded.tokens + pool.unbonding.tokens
    /\ pool.vault_amount <= vault
    /\ pool.bonded.shares = SumOver(BondedShares, DOMAIN stakes)
    /\ pool.unbonding.shares = SumOver(UnbondingShares, DOMAIN unbondings)
    /\ max_weight = pool.bonded.shares
    /\ \A u \in DOMAIN stakes : weights[u] = stakes[u].bonded

StakingInv == StakingTypeOK /\ NoPoolYet /\ UnbondingIsOwned /\ PoolAgrees /\ VotesAreBacked

-----------------------------------------------------------------------------
(* Sums of shares *)

\* One stake account changes.
LEMMA StakeChanges ==
  ASSUME StakingTypeOK, NEW u \in DOMAIN stakes, NEW new \in StakeAccount,
         stakes' = [stakes EXCEPT ![u] = new]
  PROVE  /\ DOMAIN stakes' = DOMAIN stakes
         /\ stakes' \in [DOMAIN stakes -> StakeAccount]
         /\ stakes'[u] = new /\ \A v \in DOMAIN stakes : v # u => stakes'[v] = stakes[v]
         /\ SumOver(BondedShares, DOMAIN stakes)' =
              SumOver(BondedShares, DOMAIN stakes) + (new.bonded - stakes[u].bonded)
         /\ stakes[u] \in StakeAccount
         /\ stakes[u].bonded \in Nat /\ stakes[u].unbonding \in Nat
<1> DEFINE f == BondedShares
           g == BondedShares'
           S == DOMAIN stakes
<1>1. DOMAIN stakes' = S /\ stakes'[u] = new /\ stakes[u] \in StakeAccount
  BY DEF StakingTypeOK
<1>2. \A v \in S : v # u => stakes'[v] = stakes[v]
  OBVIOUS
<1>3. stakes' \in [DOMAIN stakes -> StakeAccount]
  BY DEF StakingTypeOK
<1>4. /\ \A v \in S : f[v] = stakes[v].bonded /\ f[v] \in Nat
      /\ \A v \in S : g[v] = stakes'[v].bonded
      /\ new.bonded \in Nat /\ stakes[u].unbonding \in Nat
  BY <1>1 DEF BondedShares, StakingTypeOK, StakeAccount
<1>5. IsFiniteSet(S) /\ SumOver(BondedShares, DOMAIN stakes)' = SumOver(g, S)
  BY <1>1 DEF StakingTypeOK
<1> HIDE DEF f, g, S
<1>6. SumOver(g, S) = SumOver(f, S) + (g[u] - f[u])
  BY <1>1, <1>2, <1>4, <1>5, SumChange DEF S
<1> QED BY <1>1, <1>2, <1>3, <1>4, <1>5, <1>6 DEF f, g, S

\* The sum over the unbonding accounts among some keys.
Held(K) == SumOver(UnbondingShares, K)

\* An unbonding account is created.
LEMMA UnbondingAdded ==
  ASSUME StakingTypeOK, NEW k \in Users \X Seeds, k \notin DOMAIN unbondings,
         NEW r \in UnbondingAccount, unbondings' = Put(unbondings, k, r)
  PROVE  /\ DOMAIN unbondings' = DOMAIN unbondings \cup {k}
         /\ IsFiniteSet(DOMAIN unbondings') /\ unbondings' \in [DOMAIN unbondings' -> UnbondingAccount]
         /\ Held(DOMAIN unbondings)' = Held(DOMAIN unbondings) + r.shares
         /\ Held(UnbondingsOf(k[1]))' = Held(UnbondingsOf(k[1])) + r.shares
         /\ \A u : u # k[1] => Held(UnbondingsOf(u))' = Held(UnbondingsOf(u))
<1> DEFINE S == DOMAIN unbondings
           f == UnbondingShares
           g == UnbondingShares'
<1>1. DOMAIN unbondings' = S \cup {k} /\ IsFiniteSet(S \cup {k}) /\ IsFiniteSet(S)
  BY FS_AddElement DEF Put, StakingTypeOK
<1>2. unbondings'[k] = r /\ \A x \in S : unbondings'[x] = unbondings[x] /\ unbondings[x] \in UnbondingAccount
  BY DEF Put, StakingTypeOK
<1>3. unbondings' \in [DOMAIN unbondings' -> UnbondingAccount]
  BY <1>1, <1>2 DEF Put
<1>4. /\ \A x \in S : f[x] = unbondings[x].shares /\ f[x] \in Nat /\ g[x] = f[x]
      /\ g[k] = r.shares /\ g[k] \in Nat
  BY <1>1, <1>2 DEF UnbondingShares, UnbondingAccount
<1>5. /\ UnbondingsOf(k[1])' = UnbondingsOf(k[1]) \cup {k}
      /\ \A u : u # k[1] => UnbondingsOf(u)' = UnbondingsOf(u)
      /\ \A u : UnbondingsOf(u) \subseteq S
  BY <1>1 DEF UnbondingsOf
<1>6. \A K : Held(K) = SumOver(f, K) /\ Held(K)' = SumOver(g, K')
  BY DEF Held
<1> HIDE DEF S, f, g, Held
<1>7. ASSUME NEW K \in SUBSET S
      PROVE  SumOver(g, K) = SumOver(f, K) /\ SumOver(g, K \cup {k}) = SumOver(f, K) + r.shares
  <2>1. IsFiniteSet(K) /\ k \notin K
    BY <1>1, FS_Subset DEF S
  <2>2. SumOver(f, K) = SumOver(g, K)
    BY <1>4, <2>1, SumSame
  <2>3. SumOver(g, K \cup {k}) = SumOver(g, K) + g[k]
    BY <1>4, <2>1, SumAdd
  <2> QED BY <1>4, <2>2, <2>3
<1>8. S \in SUBSET S /\ \A u : UnbondingsOf(u) \in SUBSET S
  BY <1>5
<1>9. /\ Held(DOMAIN unbondings) = SumOver(f, S) /\ Held(DOMAIN unbondings)' = SumOver(g, S \cup {k})
      /\ \A u : Held(UnbondingsOf(u)) = SumOver(f, UnbondingsOf(u))
      /\ Held(UnbondingsOf(k[1]))' = SumOver(g, UnbondingsOf(k[1]) \cup {k})
      /\ \A u : u # k[1] => Held(UnbondingsOf(u))' = SumOver(g, UnbondingsOf(u))
  BY <1>1, <1>5 DEF Held, S, f, g
<1> QED BY <1>1, <1>3, <1>7, <1>8, <1>9, ZenonT(40) DEF S

\* An unbonding account is closed.
LEMMA UnbondingDropped ==
  ASSUME StakingTypeOK, NEW k \in DOMAIN unbondings, unbondings' = Drop(unbondings, k)
  PROVE  /\ DOMAIN unbondings' = DOMAIN unbondings \ {k}
         /\ IsFiniteSet(DOMAIN unbondings') /\ unbondings' \in [DOMAIN unbondings' -> UnbondingAccount]
         /\ unbondings[k].shares \in Nat
         /\ Held(DOMAIN unbondings)' = Held(DOMAIN unbondings) - unbondings[k].shares
         /\ Held(UnbondingsOf(k[1]))' = Held(UnbondingsOf(k[1])) - unbondings[k].shares
         /\ \A u : u # k[1] => Held(UnbondingsOf(u))' = Held(UnbondingsOf(u))
         /\ Held(DOMAIN unbondings)' \in Nat /\ Held(UnbondingsOf(k[1]))' \in Nat
<1> DEFINE S == DOMAIN unbondings
           f == UnbondingShares
           g == UnbondingShares'
           r == unbondings[k]
<1>1. DOMAIN unbondings' = S \ {k} /\ IsFiniteSet(S \ {k}) /\ IsFiniteSet(S)
  BY FS_Subset DEF Drop, StakingTypeOK
<1>2. /\ \A x \in S \ {k} : unbondings'[x] = unbondings[x]
      /\ \A x \in S : unbondings[x] \in UnbondingAccount
  BY DEF Drop, StakingTypeOK
<1>3. unbondings' \in [DOMAIN unbondings' -> UnbondingAccount]
  BY <1>1, <1>2 DEF Drop
<1>4. /\ \A x \in S : f[x] = unbondings[x].shares /\ f[x] \in Nat
      /\ \A x \in S \ {k} : g[x] = f[x]
      /\ f[k] = r.shares
  BY <1>1, <1>2 DEF UnbondingShares, UnbondingAccount
<1>5. /\ UnbondingsOf(k[1])' = UnbondingsOf(k[1]) \ {k} /\ k \in UnbondingsOf(k[1])
      /\ \A u : u # k[1] => UnbondingsOf(u)' = UnbondingsOf(u) /\ k \notin UnbondingsOf(u)
      /\ \A u : UnbondingsOf(u) \subseteq S
  BY <1>1 DEF UnbondingsOf
<1>9. /\ Held(DOMAIN unbondings) = SumOver(f, S) /\ Held(DOMAIN unbondings)' = SumOver(g, S \ {k})
      /\ \A u : Held(UnbondingsOf(u)) = SumOver(f, UnbondingsOf(u))
      /\ Held(UnbondingsOf(k[1]))' = SumOver(g, UnbondingsOf(k[1]) \ {k})
      /\ \A u : u # k[1] => Held(UnbondingsOf(u))' = SumOver(g, UnbondingsOf(u))
  BY <1>1, <1>5 DEF Held, S, f, g
<1>k. k \in S
  OBVIOUS
<1> HIDE DEF S, f, g, r
<1>7. ASSUME NEW K \in SUBSET S
      PROVE  /\ k \notin K => SumOver(g, K) = SumOver(f, K)
             /\ k \in K => SumOver(g, K \ {k}) = SumOver(f, K) - r.shares
             /\ SumOver(g, K \ {k}) \in Nat
  <2>1. IsFiniteSet(K) /\ IsFiniteSet(K \ {k})
    BY <1>1, FS_Subset
  <2>2. SumOver(f, K \ {k}) = SumOver(g, K \ {k})
    BY <1>4, <2>1, SumSame
  <2>3. SumOver(f, K \ {k}) \in Nat
    BY <1>4, <2>1, SumNat
  <2>4. k \notin K => K \ {k} = K
    OBVIOUS
  <2>5. k \in K => SumOver(f, K) = SumOver(f, K \ {k}) + f[k]
    BY <1>4, <2>1, SumRemove
  <2>6. f[k] = r.shares /\ f[k] \in Nat
    BY <1>4, <1>k
  <2>7. CASE k \notin K
    BY <2>2, <2>3, <2>4, <2>7
  <2>8. CASE k \in K
    BY <2>2, <2>3, <2>5, <2>6, <2>8
  <2> QED BY <2>7, <2>8
<1>8. S \in SUBSET S /\ \A u : UnbondingsOf(u) \in SUBSET S
  BY <1>5
<1>10. r.shares \in Nat
  BY <1>4, <1>k
<1> QED BY <1>1, <1>3, <1>5, <1>7, <1>8, <1>9, <1>10, <1>k DEF S, r

-----------------------------------------------------------------------------
(* Conversions between tokens and shares *)

\* The conversions are defined on natural numbers.
LEMMA Conversions ==
  ASSUME NEW p \in TokenPool, NEW n \in Nat
  PROVE  /\ p.tokens \in Nat /\ p.shares \in Nat
         /\ Priced(p).tokens \in Nat \ {0} /\ Priced(p).shares \in Nat
         /\ with_tokens_down(p, n) \in Nat /\ with_tokens_up(p, n) \in Nat
         /\ Priced(p).shares > 0 => with_shares(p, n) \in Nat
         /\ deposited(p, n) \in TokenPool
<1>1. p.tokens \in Nat /\ p.shares \in Nat
  BY DEF TokenPool
<1>2. Priced(p).tokens \in Nat \ {0} /\ Priced(p).shares \in Nat
  BY <1>1, StakingAssumption DEF Priced
<1> DEFINE T == Priced(p).tokens
           S == Priced(p).shares
<1> HIDE DEF T, S
<1>3. T \in Nat \ {0} /\ S \in Nat
  BY <1>2 DEF T, S
<1>4. n * S \in Nat /\ n * T \in Nat /\ T - 1 + n * S \in Nat
  BY <1>3
<1>5. (n * S) \div T \in Nat /\ (T - 1 + n * S) \div T \in Nat /\ 0 \div T \in Nat
  BY <1>3, <1>4, DivNat
<1>6. S > 0 => (n * T) \div S \in Nat
  BY <1>3, <1>4, DivNat
<1>7. with_tokens_down(p, n) \in Nat /\ with_tokens_up(p, n) \in Nat
  BY <1>5 DEF T, S, with_tokens_down, with_tokens_up
<1>8. S > 0 => with_shares(p, n) \in Nat
  BY <1>6 DEF T, S, with_shares
<1>9. deposited(p, n) \in TokenPool
  BY <1>1, <1>7 DEF deposited, TokenPool
<1> QED BY <1>1, <1>2, <1>7, <1>8, <1>9 DEF S

\* What may be withdrawn leaves a pool.
LEMMA Withdrawals ==
  ASSUME NEW p \in TokenPool, NEW s \in Nat, NEW t \in Nat, CanWithdraw(p, s, t)
  PROVE  /\ withdrawn(p, s, t) \in TokenPool
         /\ withdrawn(p, s, t).tokens = p.tokens - t /\ withdrawn(p, s, t).shares = p.shares - s
BY DEF CanWithdraw, withdrawn, TokenPool

\* A floor is not above the quotient, and within one of it.
LEMMA Floor ==
  ASSUME NEW a \in Nat, NEW d \in Nat \ {0}
  PROVE  /\ a \div d \in Nat /\ d * (a \div d) <= a /\ a < d * (a \div d) + d
OBVIOUS

\* Products over a common factor.
LEMMA Factor ==
  ASSUME NEW a \in Nat, NEW b \in Nat, NEW c \in Nat, NEW d \in Nat
  PROVE  /\ (a + b) * c = a * c + b * c /\ c * (a + b) = c * a + c * b
         /\ a * b = b * a /\ a * b \in Nat
         /\ b <= a => (a - b) * c = a * c - b * c /\ c * (a - b) = c * a - c * b
         /\ a <= b => a * c <= b * c
OBVIOUS

\* q is p before somebody's donation
Grown(q, p) == q \in TokenPool /\ p \in TokenPool /\ q.shares = p.shares /\ q.tokens <= p.tokens

\* Shares are issued for no more than their value...
LEMMA KeptByDeposit ==
  ASSUME NEW q, NEW p, Grown(q, p), NEW t \in Nat
  PROVE  ShareKept(q, deposited(p, t))
<1> DEFINE T == p.tokens
           S == p.shares
           Q == q.tokens
           n == with_tokens_down(p, t)
<1>1. T \in Nat /\ S \in Nat /\ Q \in Nat /\ Q <= T /\ q.shares = S /\ n \in Nat
  BY Conversions DEF Grown, TokenPool
<1>2. deposited(p, t).tokens = T + t /\ deposited(p, t).shares = S + n
  BY DEF deposited
<1>3. T > 0 => n = (t * S) \div T
  BY <1>1 DEF with_tokens_down, Priced
<1> HIDE DEF T, S, Q, n
<1>4. CASE T = 0
  <2>1. Q = 0
    BY <1>1, <1>4
  <2>2. (T + t) * S \in Nat /\ Q * (S + n) = 0
    BY <1>1, <2>1
  <2> QED BY <1>1, <1>2, <2>2 DEF ShareKept, Q
<1>5. CASE T > 0
  <2>1. T * n <= t * S
    BY <1>1, <1>3, <1>5, Floor, Factor
  <2>2. (T + t) * S = T * S + t * S /\ Q * (S + n) <= T * (S + n) /\ T * (S + n) = T * S + T * n
    BY <1>1, Factor
  <2>3. T * S \in Nat /\ T * n \in Nat /\ t * S \in Nat /\ Q * (S + n) \in Nat
    BY <1>1, Factor
  <2>4. (T + t) * S >= Q * (S + n)
    BY <2>1, <2>2, <2>3
  <2> QED BY <1>1, <1>2, <2>4 DEF ShareKept, Q
<1> QED BY <1>1, <1>4, <1>5

\* ... and bought back for at least theirs.
LEMMA KeptByWithdrawal ==
  ASSUME NEW q, NEW p, Grown(q, p), NEW s \in Nat, NEW t \in Nat, CanWithdraw(p, s, t),
         p.tokens > 0 => t * p.shares <= p.tokens * s
  PROVE  ShareKept(q, withdrawn(p, s, t))
<1> DEFINE T == p.tokens
           S == p.shares
           Q == q.tokens
<1>1. T \in Nat /\ S \in Nat /\ Q \in Nat /\ Q <= T /\ q.shares = S
  BY DEF Grown, TokenPool
<1>2. withdrawn(p, s, t).tokens = T - t /\ withdrawn(p, s, t).shares = S - s
  BY DEF withdrawn
<1>3. s <= S /\ t <= T /\ (T > 0 => t * S <= T * s)
  BY DEF CanWithdraw
<1> HIDE DEF T, S, Q
<1>4. CASE T = 0
  <2>1. Q = 0 /\ T - t = 0
    BY <1>1, <1>3, <1>4
  <2>2. (T - t) * S = 0 /\ Q * (S - s) = 0
    BY <1>1, <1>3, <2>1
  <2> QED BY <1>1, <1>2, <2>2 DEF ShareKept, Q
<1>5. CASE T > 0
  <2>1. t * S <= T * s
    BY <1>3, <1>5
  <2>2. S - s \in Nat
    BY <1>1, <1>3
  <2>3. (T - t) * S = T * S - t * S /\ Q * (S - s) <= T * (S - s) /\ T * (S - s) = T * S - T * s
    BY <1>1, <1>3, <2>2, Factor
  <2>4. T * S \in Nat /\ T * s \in Nat /\ t * S \in Nat /\ Q * (S - s) \in Nat
    BY <1>1, <2>2, Factor
  <2>5. (T - t) * S >= Q * (S - s)
    BY <2>1, <2>3, <2>4
  <2> QED BY <1>1, <1>2, <2>5 DEF ShareKept, Q
<1> QED BY <1>1, <1>4, <1>5

\* Both ways of asking for a withdrawal round that way.
LEMMA FairPrice ==
  ASSUME NEW p \in TokenPool, NEW n \in Nat, p.tokens > 0
  PROVE  /\ Priced(p).shares > 0 => with_shares(p, n) * p.shares <= p.tokens * n
         /\ n * p.shares <= p.tokens * with_tokens_up(p, n)
<1> DEFINE T == p.tokens
           S == p.shares
<1>1. T \in Nat \ {0} /\ S \in Nat /\ Priced(p) = p
  BY DEF TokenPool, Priced
<1>2. /\ with_shares(p, n) = (n * T) \div S
      /\ with_tokens_up(p, n) = (IF n > 0 THEN T - 1 + n * S ELSE 0) \div T
  BY <1>1 DEF with_shares, with_tokens_up
<1> HIDE DEF T, S
<1>3. S > 0 => ((n * T) \div S) * S <= T * n
  <2> SUFFICES ASSUME S > 0 PROVE ((n * T) \div S) * S <= T * n
    OBVIOUS
  <2>1. n * T \in Nat /\ n * T = T * n
    BY <1>1
  <2>2. (n * T) \div S \in Nat /\ S * ((n * T) \div S) <= n * T
    BY <1>1, <2>1, Floor
  <2> QED BY <1>1, <2>1, <2>2, Factor
<1>4. n > 0 => n * S <= T * ((T - 1 + n * S) \div T)
  <2>1. n * S \in Nat /\ T - 1 + n * S \in Nat
    BY <1>1
  <2>2. T - 1 + n * S < T * ((T - 1 + n * S) \div T) + T /\ (T - 1 + n * S) \div T \in Nat
    BY <1>1, <2>1, Floor
  <2>3. T * ((T - 1 + n * S) \div T) \in Nat
    BY <1>1, <2>2, Factor
  <2> QED BY <1>1, <2>1, <2>2, <2>3
<1>5. n = 0 => n * S <= T * (0 \div T)
  <2>1. 0 \div T \in Nat
    BY <1>1, DivNat
  <2>2. 0 * S = 0 /\ T * (0 \div T) \in Nat
    BY <1>1, <2>1, Factor
  <2> QED BY <1>1, <2>2
<1>6. Priced(p).shares = S
  BY <1>1 DEF S
<1>7. n * S <= T * with_tokens_up(p, n)
  <2>1. CASE n > 0
    BY <1>2, <1>4, <2>1
  <2>2. CASE n = 0
    BY <1>2, <1>5, <2>2
  <2> QED BY <2>1, <2>2
<1> QED BY <1>2, <1>3, <1>6, <1>7 DEF T, S

\* Every instruction first credits what was sent to the vault.
LEMMA Updated ==
  ASSUME StakingInv, PoolExists
  PROVE  /\ pool \in StakePool /\ vault \in Nat
         /\ updated \in StakePool
         /\ updated.bonded \in TokenPool /\ updated.unbonding \in TokenPool
         /\ updated.bonded.shares = pool.bonded.shares
         /\ updated.unbonding = pool.unbonding /\ updated.vault_amount = vault
         /\ updated.bonded.tokens + updated.unbonding.tokens = vault
         /\ Grown(pool.bonded, updated.bonded) /\ Grown(pool.unbonding, updated.unbonding)
<1>1. pool \in StakePool /\ vault \in Nat
  BY DEF StakingInv, StakingTypeOK, PoolExists
<1>2. /\ pool.vault_amount = pool.bonded.tokens + pool.unbonding.tokens
      /\ pool.vault_amount <= vault
  BY DEF StakingInv, PoolAgrees
<1>3. /\ pool.bonded \in TokenPool /\ pool.unbonding \in TokenPool /\ pool.vault_amount \in Nat
      /\ pool.bonded.tokens \in Nat /\ pool.bonded.shares \in Nat /\ pool.unbonding.tokens \in Nat
  BY <1>1 DEF StakePool, TokenPool
<1> DEFINE b == [pool.bonded EXCEPT !.tokens = @ + (vault - pool.vault_amount)]
<1>4. /\ b \in TokenPool /\ b.shares = pool.bonded.shares
      /\ b.tokens = pool.bonded.tokens + (vault - pool.vault_amount)
  BY <1>1, <1>2, <1>3 DEF TokenPool
<1>5. updated = [[pool EXCEPT !.bonded = b] EXCEPT !.vault_amount = vault]
  BY DEF updated
<1> HIDE DEF b
<1>6. /\ updated \in StakePool /\ updated.bonded = b /\ updated.unbonding = pool.unbonding
      /\ updated.vault_amount = vault
  BY <1>1, <1>3, <1>4, <1>5 DEF StakePool
<1>7. /\ Grown(pool.bonded, b) /\ Grown(pool.unbonding, pool.unbonding)
      /\ b.tokens + pool.unbonding.tokens = vault
  BY <1>1, <1>2, <1>3, <1>4 DEF Grown
<1> QED BY <1>1, <1>3, <1>4, <1>6, <1>7

-----------------------------------------------------------------------------
(* The staking instructions keep the invariant, and the value of shares *)

\* A share of either pool is worth what it was, or more.
ValueKept ==
  PoolExists => /\ ShareKept(pool.bonded, pool'.bonded)
                /\ ShareKept(pool.unbonding, pool'.unbonding)

\* An instruction changes one stake account, the pools and perhaps one unbonding account.
LEMMA StakeStep ==
  ASSUME StakingInv, PoolExists, NEW u \in DOMAIN stakes, NEW new \in StakeAccount,
         stakes' = [stakes EXCEPT ![u] = new],
         pool' \in StakePool, vault' \in Nat, clock' \in Nat, votes' = votes,
         pool'.vault_amount = pool'.bonded.tokens + pool'.unbonding.tokens,
         pool'.vault_amount <= vault',
         pool'.bonded.shares = pool.bonded.shares + (new.bonded - stakes[u].bonded),
         weights' \in [DOMAIN stakes -> Nat],
         \A v \in DOMAIN stakes : weights'[v] = stakes'[v].bonded,
         max_weight' = pool'.bonded.shares,
         votes[u] = 0 \/ new.bonded >= stakes[u].bonded,
         DOMAIN unbondings' \subseteq Users \X Seeds, IsFiniteSet(DOMAIN unbondings'),
         unbondings' \in [DOMAIN unbondings' -> UnbondingAccount],
         Held(DOMAIN unbondings)' = pool'.unbonding.shares,
         Held(UnbondingsOf(u))' = new.unbonding,
         \A v : v # u => Held(UnbondingsOf(v))' = Held(UnbondingsOf(v))
  PROVE  StakingInv'
<1>1. /\ DOMAIN stakes' = DOMAIN stakes
      /\ stakes' \in [DOMAIN stakes -> StakeAccount]
      /\ stakes'[u] = new /\ \A v \in DOMAIN stakes : v # u => stakes'[v] = stakes[v]
      /\ SumOver(BondedShares, DOMAIN stakes)' =
           SumOver(BondedShares, DOMAIN stakes) + (new.bonded - stakes[u].bonded)
      /\ stakes[u].bonded \in Nat
  BY StakeChanges DEF StakingInv
<1>2. StakingTypeOK'
  BY <1>1 DEF StakingInv, StakingTypeOK
<1>3. PoolExists' /\ NoPoolYet'
  <2>1. DOMAIN pool' # {}
    BY DEF StakePool
  <2> QED BY <2>1 DEF PoolExists, NoPoolYet
<1>4. UnbondingIsOwned'
  <2> SUFFICES ASSUME NEW v \in Users
               PROVE  Held(UnbondingsOf(v))' =
                        IF v \in DOMAIN stakes THEN stakes'[v].unbonding ELSE 0
    BY <1>1 DEF UnbondingIsOwned, Held
  <2>1. Held(UnbondingsOf(v)) = IF v \in DOMAIN stakes THEN stakes[v].unbonding ELSE 0
    BY DEF StakingInv, UnbondingIsOwned, Held
  <2> HIDE DEF Held
  <2>2. CASE v = u
    BY <1>1, <2>2
  <2>3. CASE v # u
    BY <1>1, <2>1, <2>3
  <2> QED BY <2>2, <2>3
<1>5. PoolAgrees'
  <2>1. pool.bonded.shares = SumOver(BondedShares, DOMAIN stakes)
    BY DEF StakingInv, PoolAgrees
  <2>2. pool'.bonded.shares = SumOver(BondedShares, DOMAIN stakes)'
    BY <1>1, <2>1
  <2>3. pool'.unbonding.shares = SumOver(UnbondingShares, DOMAIN unbondings)'
    BY DEF Held
  <2> QED BY <1>1, <2>2, <2>3 DEF PoolAgrees
<1>6. VotesAreBacked'
  <2> SUFFICES ASSUME NEW v \in Users, votes[v] > 0
               PROVE  v \in DOMAIN stakes /\ stakes'[v].bonded >= votes[v]
    BY <1>1 DEF VotesAreBacked
  <2>1. v \in DOMAIN stakes /\ stakes[v].bonded >= votes[v] /\ votes[v] \in Nat
    BY DEF StakingInv, VotesAreBacked, StakingTypeOK
  <2>2. CASE v = u
    BY <1>1, <2>1, <2>2 DEF StakeAccount
  <2>3. CASE v # u
    BY <1>1, <2>1, <2>3
  <2> QED BY <2>2, <2>3
<1> QED BY <1>2, <1>3, <1>4, <1>5, <1>6 DEF StakingInv

\* Stake is added, by its owner or as a reward.
LEMMA AddStakeStep ==
  ASSUME StakingInv, PoolExists, NEW u, NEW t \in Nat, AddStake(u, t),
         UNCHANGED <<unbondings, votes, clock>>
  PROVE  StakingInv' /\ ValueKept
<1> DEFINE p == updated
           n == with_tokens_down(p.bonded, t)
           new == [stakes[u] EXCEPT !.bonded = @ + n]
<1>1. /\ p \in StakePool /\ p.bonded \in TokenPool /\ p.unbonding \in TokenPool
      /\ p.bonded.shares = pool.bonded.shares
      /\ p.unbonding = pool.unbonding /\ p.vault_amount = vault
      /\ p.bonded.tokens + p.unbonding.tokens = vault
      /\ Grown(pool.bonded, p.bonded) /\ Grown(pool.unbonding, p.unbonding) /\ vault \in Nat
  BY Updated
<1>2. n \in Nat /\ deposited(p.bonded, t) \in TokenPool
      /\ p.bonded.tokens \in Nat /\ p.bonded.shares \in Nat
      /\ p.unbonding.tokens \in Nat /\ p.unbonding.shares \in Nat
  BY <1>1, Conversions
<1>3. /\ u \in DOMAIN stakes /\ vault' = vault + t
      /\ pool' = [p EXCEPT !.bonded = deposited(p.bonded, t), !.vault_amount = p.vault_amount + t]
      /\ stakes' = [stakes EXCEPT ![u].bonded = @ + (pool'.bonded.shares - p.bonded.shares)]
      /\ weights' = [weights EXCEPT ![u] = stakes'[u].bonded] /\ max_weight' = pool'.bonded.shares
  BY DEF AddStake, WeightsUpdated
<1>4. /\ deposited(p.bonded, t).shares = p.bonded.shares + n
      /\ deposited(p.bonded, t).tokens = p.bonded.tokens + t
  BY DEF deposited
<1>5. /\ stakes[u] \in StakeAccount /\ stakes[u].bonded \in Nat /\ stakes[u].unbonding \in Nat
      /\ stakes \in [DOMAIN stakes -> StakeAccount] /\ weights \in [DOMAIN stakes -> Nat]
      /\ \A v \in DOMAIN stakes : weights[v] = stakes[v].bonded
  BY <1>3 DEF StakingInv, StakingTypeOK, StakeAccount, PoolAgrees
<1> HIDE DEF p, n
<1>6. /\ pool' \in StakePool /\ pool'.bonded = deposited(p.bonded, t)
      /\ pool'.unbonding = p.unbonding /\ pool'.vault_amount = vault + t
  <2> DEFINE d == deposited(p.bonded, t)
             w == vault + t
  <2>1. pool' = [[p EXCEPT !.bonded = d] EXCEPT !.vault_amount = w]
    BY <1>1, <1>3
  <2>2. d \in TokenPool /\ w \in Nat
    BY <1>1, <1>2
  <2> HIDE DEF d, w
  <2>3. /\ pool' \in StakePool /\ pool'.bonded = d
        /\ pool'.unbonding = p.unbonding /\ pool'.vault_amount = w
    BY <1>1, <2>1, <2>2 DEF StakePool
  <2> QED BY <2>3 DEF d, w
<1>7. pool'.bonded.shares - p.bonded.shares = n
  BY <1>2, <1>4, <1>6
<1>8. stakes' = [stakes EXCEPT ![u] = new]
  BY <1>3, <1>7
<1>9. new \in StakeAccount /\ new.bonded = stakes[u].bonded + n /\ new.unbonding = stakes[u].unbonding
  BY <1>2, <1>5 DEF StakeAccount
<1> HIDE DEF new
<1>10. /\ weights' \in [DOMAIN stakes -> Nat]
       /\ \A v \in DOMAIN stakes : weights'[v] = stakes'[v].bonded
  <2>1. stakes'[u] = new /\ \A v \in DOMAIN stakes : v # u => stakes'[v] = stakes[v]
    BY <1>3, <1>5, <1>8
  <2>2. new.bonded \in Nat
    BY <1>9 DEF StakeAccount
  <2>3. weights' = [weights EXCEPT ![u] = new.bonded]
    BY <1>3, <2>1
  <2> QED BY <1>3, <1>5, <2>1, <2>2, <2>3
<1>11. /\ pool.unbonding.shares = Held(DOMAIN unbondings) /\ Held(UnbondingsOf(u)) = stakes[u].unbonding
       /\ Held(DOMAIN unbondings)' = Held(DOMAIN unbondings)
       /\ \A v : Held(UnbondingsOf(v))' = Held(UnbondingsOf(v))
  BY <1>3 DEF StakingInv, StakingTypeOK, PoolAgrees, UnbondingIsOwned, Held, UnbondingShares, UnbondingsOf
<1>12. /\ DOMAIN unbondings' \subseteq Users \X Seeds /\ IsFiniteSet(DOMAIN unbondings')
       /\ unbondings' \in [DOMAIN unbondings' -> UnbondingAccount]
       /\ clock' \in Nat /\ votes' = votes
  BY DEF StakingInv, StakingTypeOK
<1>13. StakingInv'
  <2>1. /\ vault' \in Nat /\ pool'.vault_amount = pool'.bonded.tokens + pool'.unbonding.tokens
        /\ pool'.vault_amount <= vault'
        /\ pool'.bonded.shares = pool.bonded.shares + (new.bonded - stakes[u].bonded)
        /\ new.bonded >= stakes[u].bonded
    BY <1>1, <1>2, <1>3, <1>4, <1>5, <1>6, <1>9
  <2>2. /\ Held(DOMAIN unbondings)' = pool'.unbonding.shares
        /\ Held(UnbondingsOf(u))' = new.unbonding
        /\ \A v : v # u => Held(UnbondingsOf(v))' = Held(UnbondingsOf(v))
    BY <1>1, <1>6, <1>9, <1>11
  <2> HIDE DEF Held
  <2> QED BY <1>3, <1>6, <1>8, <1>9, <1>10, <1>12, <2>1, <2>2, StakeStep
<1>14. ShareKept(pool.bonded, pool'.bonded)
  BY <1>1, <1>6, KeptByDeposit
<1>15. ShareKept(pool.unbonding, pool'.unbonding)
  BY <1>1, <1>2, <1>6 DEF ShareKept
<1> QED BY <1>13, <1>14, <1>15 DEF ValueKept

\* Stake is unbonded.
LEMMA UnbondStep ==
  ASSUME StakingInv, PoolExists, NEW u \in DOMAIN stakes, NEW seed \in Seeds,
         NEW s \in Nat, NEW t \in Nat,
         <<u, seed>> \notin DOMAIN unbondings, Unbond(u, seed, s, t), votes[u] = 0,
         updated.bonded.tokens > 0 => t * updated.bonded.shares <= updated.bonded.tokens * s,
         WeightsUpdated(u), UNCHANGED <<vault, votes, clock>>
  PROVE  StakingInv' /\ ValueKept
<1> DEFINE p == updated
           n == with_tokens_down(p.unbonding, t)
           new == [bonded |-> stakes[u].bonded - s, unbonding |-> stakes[u].unbonding + n]
           r == [shares |-> n, unbonded_at |-> clock + UnbondPeriod]
           k == <<u, seed>>
<1>1. /\ p \in StakePool /\ p.bonded \in TokenPool /\ p.unbonding \in TokenPool
      /\ p.bonded.shares = pool.bonded.shares
      /\ p.unbonding = pool.unbonding /\ p.vault_amount = vault
      /\ p.bonded.tokens + p.unbonding.tokens = vault
      /\ Grown(pool.bonded, p.bonded) /\ Grown(pool.unbonding, p.unbonding) /\ vault \in Nat
  BY Updated
<1>2. /\ n \in Nat /\ deposited(p.unbonding, t) \in TokenPool
      /\ p.bonded.tokens \in Nat /\ p.bonded.shares \in Nat
      /\ p.unbonding.tokens \in Nat /\ p.unbonding.shares \in Nat
  BY <1>1, Conversions
<1>3. /\ CanWithdraw(p.bonded, s, t) /\ stakes[u].bonded >= s
      /\ pool' = [p EXCEPT !.bonded = withdrawn(p.bonded, s, t),
                           !.unbonding = deposited(p.unbonding, t)]
      /\ stakes' = [stakes EXCEPT ![u] = new]
      /\ unbondings' = Put(unbondings, k, r)
      /\ weights' = [weights EXCEPT ![u] = stakes'[u].bonded] /\ max_weight' = pool'.bonded.shares
  BY DEF Unbond, WeightsUpdated
<1>4. /\ deposited(p.unbonding, t).shares = p.unbonding.shares + n
      /\ deposited(p.unbonding, t).tokens = p.unbonding.tokens + t
  BY DEF deposited
<1>5. /\ withdrawn(p.bonded, s, t) \in TokenPool
      /\ withdrawn(p.bonded, s, t).tokens = p.bonded.tokens - t
      /\ withdrawn(p.bonded, s, t).shares = p.bonded.shares - s
  BY <1>1, <1>3, Withdrawals
<1>6. /\ stakes[u].bonded \in Nat /\ stakes[u].unbonding \in Nat
      /\ stakes \in [DOMAIN stakes -> StakeAccount] /\ weights \in [DOMAIN stakes -> Nat]
      /\ \A v \in DOMAIN stakes : weights[v] = stakes[v].bonded
      /\ u \in Users /\ clock \in Nat
  BY DEF StakingInv, StakingTypeOK, StakeAccount, PoolAgrees
<1> HIDE DEF p, n
<1>7. /\ pool' \in StakePool /\ pool'.bonded = withdrawn(p.bonded, s, t)
      /\ pool'.unbonding = deposited(p.unbonding, t) /\ pool'.vault_amount = vault
  BY <1>1, <1>2, <1>3, <1>5 DEF StakePool
<1>8. new \in StakeAccount /\ new.bonded = stakes[u].bonded - s
      /\ new.unbonding = stakes[u].unbonding + n
  BY <1>2, <1>3, <1>6 DEF StakeAccount
<1>9. r \in UnbondingAccount /\ r.shares = n /\ k \in Users \X Seeds /\ k[1] = u
  BY <1>2, <1>6, StakingAssumption DEF UnbondingAccount
<1> HIDE DEF new, r, k
<1>10. /\ weights' \in [DOMAIN stakes -> Nat]
       /\ \A v \in DOMAIN stakes : weights'[v] = stakes'[v].bonded
  BY <1>3, <1>6, <1>8 DEF StakeAccount
<1>11. pool.unbonding.shares = Held(DOMAIN unbondings) /\ Held(UnbondingsOf(u)) = stakes[u].unbonding
  BY <1>6 DEF StakingInv, PoolAgrees, UnbondingIsOwned, Held
<1>12. /\ DOMAIN unbondings' = DOMAIN unbondings \cup {k}
       /\ IsFiniteSet(DOMAIN unbondings') /\ unbondings' \in [DOMAIN unbondings' -> UnbondingAccount]
       /\ Held(DOMAIN unbondings)' = Held(DOMAIN unbondings) + n
       /\ Held(UnbondingsOf(u))' = Held(UnbondingsOf(u)) + n
       /\ \A v : v # u => Held(UnbondingsOf(v))' = Held(UnbondingsOf(v))
  <2>1. StakingTypeOK /\ k \notin DOMAIN unbondings
    BY DEF StakingInv, k
  <2> HIDE DEF Held
  <2> QED BY <1>3, <1>9, <2>1, UnbondingAdded
<1>13. StakingInv'
  <2>1. /\ vault' \in Nat /\ pool'.vault_amount = pool'.bonded.tokens + pool'.unbonding.tokens
        /\ pool'.vault_amount <= vault'
        /\ pool'.bonded.shares = pool.bonded.shares + (new.bonded - stakes[u].bonded)
    BY <1>1, <1>2, <1>4, <1>5, <1>6, <1>7, <1>8
  <2> HIDE DEF Held
  <2>2. /\ Held(DOMAIN unbondings)' = pool'.unbonding.shares
        /\ Held(UnbondingsOf(u))' = new.unbonding
    BY <1>1, <1>4, <1>7, <1>8, <1>11, <1>12
  <2>3. DOMAIN unbondings' \subseteq Users \X Seeds /\ clock' \in Nat /\ votes' = votes
    BY <1>6, <1>9, <1>12 DEF StakingInv, StakingTypeOK
  <2> QED BY <1>3, <1>7, <1>8, <1>10, <1>12, <2>1, <2>2, <2>3, StakeStep
<1>14. ShareKept(pool.bonded, pool'.bonded)
  BY <1>1, <1>3, <1>7, KeptByWithdrawal DEF p
<1>15. ShareKept(pool.unbonding, pool'.unbonding)
  BY <1>1, <1>7, KeptByDeposit
<1> QED BY <1>13, <1>14, <1>15 DEF ValueKept

\* An unbonding account is paid out or goes back to the bonded stake: what both have in common.
LEMMA UnbondingTaken ==
  ASSUME StakingInv, PoolExists, NEW k \in DOMAIN unbondings,
         CanTakeUnbonded(updated, unbondings[k])
  PROVE  /\ k \in Users \X Seeds /\ k = <<k[1], k[2]>> /\ k[1] \in Users
         /\ unbondings[k] \in UnbondingAccount /\ unbondings[k].shares \in Nat
         /\ Unbonded(updated, unbondings[k]) \in Nat
         /\ withdrawn(updated.unbonding, unbondings[k].shares, Unbonded(updated, unbondings[k]))
              \in TokenPool
         /\ Unbonded(updated, unbondings[k]) <= updated.unbonding.tokens
         /\ ShareKept(pool.unbonding, withdrawn(updated.unbonding, unbondings[k].shares,
                                                Unbonded(updated, unbondings[k])))
<1> DEFINE r == unbondings[k]
           p == updated
           t == Unbonded(p, r)
<1>1. k \in Users \X Seeds /\ r \in UnbondingAccount /\ r.shares \in Nat
  BY DEF StakingInv, StakingTypeOK, UnbondingAccount
<1>2. k = <<k[1], k[2]>> /\ k[1] \in Users
  BY <1>1
<1>3. p.unbonding \in TokenPool /\ Grown(pool.unbonding, p.unbonding)
  BY Updated
<1>4. Priced(p.unbonding).shares > 0 /\ CanWithdraw(p.unbonding, r.shares, t)
  BY DEF CanTakeUnbonded
<1>5. t \in Nat
  BY <1>1, <1>3, <1>4, Conversions DEF Unbonded
<1>6. p.unbonding.tokens > 0 => t * p.unbonding.shares <= p.unbonding.tokens * r.shares
  BY <1>1, <1>3, <1>4, FairPrice DEF Unbonded
<1> HIDE DEF r, p, t
<1>7. withdrawn(p.unbonding, r.shares, t) \in TokenPool
  BY <1>1, <1>3, <1>4, <1>5, Withdrawals
<1>8. ShareKept(pool.unbonding, withdrawn(p.unbonding, r.shares, t))
  BY <1>1, <1>3, <1>4, <1>5, <1>6, KeptByWithdrawal
<1>9. t <= p.unbonding.tokens
  BY <1>4 DEF CanWithdraw
<1> QED BY <1>1, <1>2, <1>5, <1>7, <1>8, <1>9 DEF r, p, t

\* Unbonded stake is withdrawn.
LEMMA WithdrawUnbondedStep ==
  ASSUME StakingInv, PoolExists, NEW k \in DOMAIN unbondings, withdraw_unbonded(k[1], k[2])
  PROVE  StakingInv' /\ ValueKept
<1> DEFINE p == updated
           u == k[1]
           r == unbondings[k]
           t == Unbonded(p, r)
           w == withdrawn(p.unbonding, r.shares, t)
           new == [stakes[u] EXCEPT !.unbonding = @ - r.shares]
<1>0. k = <<k[1], k[2]>>
  BY DEF StakingInv, StakingTypeOK
<1>1. /\ p \in StakePool /\ p.bonded \in TokenPool /\ p.unbonding \in TokenPool
      /\ p.bonded.shares = pool.bonded.shares
      /\ p.unbonding = pool.unbonding /\ p.vault_amount = vault
      /\ p.bonded.tokens + p.unbonding.tokens = vault
      /\ Grown(pool.bonded, p.bonded) /\ vault \in Nat
  BY Updated
<1>2. /\ p.bonded.tokens \in Nat /\ p.bonded.shares \in Nat
      /\ p.unbonding.tokens \in Nat /\ p.unbonding.shares \in Nat
  BY <1>1 DEF TokenPool
<1>3. /\ u \in DOMAIN stakes /\ CanTakeUnbonded(p, r)
      /\ pool' = [p EXCEPT !.unbonding = w, !.vault_amount = p.vault_amount - t]
      /\ stakes' = [stakes EXCEPT ![u].unbonding = @ - r.shares]
      /\ vault' = vault - t
      /\ unbondings' = Drop(unbondings, k)
      /\ UNCHANGED <<weights, max_weight, votes, clock>>
  BY <1>0 DEF withdraw_unbonded
<1>4. /\ k \in Users \X Seeds /\ r.shares \in Nat /\ t \in Nat /\ w \in TokenPool
      /\ t <= p.unbonding.tokens /\ ShareKept(pool.unbonding, w)
  BY <1>3, UnbondingTaken
<1>5. w.tokens = p.unbonding.tokens - t /\ w.shares = p.unbonding.shares - r.shares
  BY DEF withdrawn
<1>6. /\ stakes[u].bonded \in Nat /\ stakes[u].unbonding \in Nat /\ stakes[u] \in StakeAccount
      /\ stakes \in [DOMAIN stakes -> StakeAccount] /\ weights \in [DOMAIN stakes -> Nat]
      /\ \A v \in DOMAIN stakes : weights[v] = stakes[v].bonded
      /\ u \in Users /\ clock \in Nat /\ max_weight = pool.bonded.shares
  BY <1>3 DEF StakingInv, StakingTypeOK, StakeAccount, PoolAgrees
<1>7. pool.unbonding.shares = Held(DOMAIN unbondings) /\ Held(UnbondingsOf(u)) = stakes[u].unbonding
  BY <1>3, <1>6 DEF StakingInv, PoolAgrees, UnbondingIsOwned, Held
<1>8. /\ DOMAIN unbondings' = DOMAIN unbondings \ {k}
      /\ IsFiniteSet(DOMAIN unbondings') /\ unbondings' \in [DOMAIN unbondings' -> UnbondingAccount]
      /\ Held(DOMAIN unbondings)' = Held(DOMAIN unbondings) - r.shares
      /\ Held(UnbondingsOf(u))' = Held(UnbondingsOf(u)) - r.shares
      /\ \A v : v # u => Held(UnbondingsOf(v))' = Held(UnbondingsOf(v))
      /\ Held(UnbondingsOf(u))' \in Nat
  <2>1. StakingTypeOK
    BY DEF StakingInv
  <2> HIDE DEF Held
  <2> QED BY <1>3, <2>1, UnbondingDropped
<1> HIDE DEF p, r, t, w, u, Held
<1>9. /\ pool' \in StakePool /\ pool'.bonded = p.bonded
      /\ pool'.unbonding = w /\ pool'.vault_amount = vault - t
  <2> DEFINE x == vault - t
  <2>1. pool' = [[p EXCEPT !.unbonding = w] EXCEPT !.vault_amount = x] /\ x \in Nat
    BY <1>1, <1>2, <1>3, <1>4
  <2> HIDE DEF x
  <2>2. /\ pool' \in StakePool /\ pool'.bonded = p.bonded
        /\ pool'.unbonding = w /\ pool'.vault_amount = x
    BY <1>1, <1>4, <2>1 DEF StakePool
  <2> QED BY <2>2 DEF x
<1>10. stakes' = [stakes EXCEPT ![u] = new]
  BY <1>3
<1>11. new \in StakeAccount /\ new.bonded = stakes[u].bonded
       /\ new.unbonding = stakes[u].unbonding - r.shares
  BY <1>4, <1>6, <1>7, <1>8 DEF StakeAccount
<1> HIDE DEF new
<1>12. /\ weights' \in [DOMAIN stakes -> Nat]
       /\ \A v \in DOMAIN stakes : weights'[v] = stakes'[v].bonded
  BY <1>3, <1>6, <1>10, <1>11
<1>13. StakingInv'
  <2>1. /\ vault' \in Nat /\ pool'.vault_amount = pool'.bonded.tokens + pool'.unbonding.tokens
        /\ pool'.vault_amount <= vault' /\ max_weight' = pool'.bonded.shares
        /\ pool'.bonded.shares = pool.bonded.shares + (new.bonded - stakes[u].bonded)
        /\ new.bonded >= stakes[u].bonded
    BY <1>1, <1>2, <1>3, <1>4, <1>5, <1>6, <1>9, <1>11
  <2>2. /\ Held(DOMAIN unbondings)' = pool'.unbonding.shares
        /\ Held(UnbondingsOf(u))' = new.unbonding
    BY <1>1, <1>5, <1>7, <1>8, <1>9, <1>11
  <2>3. DOMAIN unbondings' \subseteq Users \X Seeds /\ clock' \in Nat /\ votes' = votes
    BY <1>3, <1>6, <1>8 DEF StakingInv, StakingTypeOK
  <2> QED BY <1>3, <1>8, <1>9, <1>10, <1>11, <1>12, <2>1, <2>2, <2>3, StakeStep
<1>14. ShareKept(pool.bonded, pool'.bonded)
  <2>1. ASSUME NEW S \in Nat, NEW a \in Nat, NEW b \in Nat, a <= b PROVE b * S >= a * S
    BY <2>1
  <2> QED BY <1>1, <1>2, <1>9, <2>1 DEF ShareKept, Grown, TokenPool
<1> QED BY <1>4, <1>9, <1>13, <1>14 DEF ValueKept

\* An unbonding is cancelled.
LEMMA CancelUnbondStep ==
  ASSUME StakingInv, PoolExists, NEW k \in DOMAIN unbondings, cancel_unbond(k[1], k[2])
  PROVE  StakingInv' /\ ValueKept
<1> DEFINE p == updated
           u == k[1]
           r == unbondings[k]
           t == Unbonded(p, r)
           w == withdrawn(p.unbonding, r.shares, t)
           d == deposited(p.bonded, t)
           n == with_tokens_down(p.bonded, t)
           new == [bonded |-> stakes[u].bonded + n, unbonding |-> stakes[u].unbonding - r.shares]
<1>0. k = <<k[1], k[2]>>
  BY DEF StakingInv, StakingTypeOK
<1>1. /\ p \in StakePool /\ p.bonded \in TokenPool /\ p.unbonding \in TokenPool
      /\ p.bonded.shares = pool.bonded.shares
      /\ p.unbonding = pool.unbonding /\ p.vault_amount = vault
      /\ p.bonded.tokens + p.unbonding.tokens = vault
      /\ Grown(pool.bonded, p.bonded) /\ vault \in Nat
  BY Updated
<1>2. /\ p.bonded.tokens \in Nat /\ p.bonded.shares \in Nat
      /\ p.unbonding.tokens \in Nat /\ p.unbonding.shares \in Nat
  BY <1>1 DEF TokenPool
<1>3. /\ u \in DOMAIN stakes /\ CanTakeUnbonded(p, r)
      /\ pool' = [p EXCEPT !.unbonding = w, !.bonded = d]
      /\ stakes' = [stakes EXCEPT ![u] = new]
      /\ unbondings' = Drop(unbondings, k)
      /\ weights' = [weights EXCEPT ![u] = stakes'[u].bonded] /\ max_weight' = pool'.bonded.shares
      /\ UNCHANGED <<vault, votes, clock>>
  BY <1>0 DEF cancel_unbond, rebond, WeightsUpdated
<1>4. /\ k \in Users \X Seeds /\ r.shares \in Nat /\ t \in Nat /\ w \in TokenPool
      /\ t <= p.unbonding.tokens /\ ShareKept(pool.unbonding, w)
  BY <1>3, UnbondingTaken
<1>5. /\ w.tokens = p.unbonding.tokens - t /\ w.shares = p.unbonding.shares - r.shares
      /\ d.tokens = p.bonded.tokens + t /\ d.shares = p.bonded.shares + n
  BY DEF withdrawn, deposited
<1>6. /\ stakes[u].bonded \in Nat /\ stakes[u].unbonding \in Nat /\ stakes[u] \in StakeAccount
      /\ stakes \in [DOMAIN stakes -> StakeAccount] /\ weights \in [DOMAIN stakes -> Nat]
      /\ \A v \in DOMAIN stakes : weights[v] = stakes[v].bonded
      /\ u \in Users /\ clock \in Nat
  BY <1>3 DEF StakingInv, StakingTypeOK, StakeAccount, PoolAgrees
<1>7. pool.unbonding.shares = Held(DOMAIN unbondings) /\ Held(UnbondingsOf(u)) = stakes[u].unbonding
  BY <1>3, <1>6 DEF StakingInv, PoolAgrees, UnbondingIsOwned, Held
<1>8. /\ DOMAIN unbondings' = DOMAIN unbondings \ {k}
      /\ IsFiniteSet(DOMAIN unbondings') /\ unbondings' \in [DOMAIN unbondings' -> UnbondingAccount]
      /\ Held(DOMAIN unbondings)' = Held(DOMAIN unbondings) - r.shares
      /\ Held(UnbondingsOf(u))' = Held(UnbondingsOf(u)) - r.shares
      /\ \A v : v # u => Held(UnbondingsOf(v))' = Held(UnbondingsOf(v))
      /\ Held(UnbondingsOf(u))' \in Nat
  <2>1. StakingTypeOK
    BY DEF StakingInv
  <2> HIDE DEF Held
  <2> QED BY <1>3, <2>1, UnbondingDropped
<1>9. n \in Nat /\ d \in TokenPool /\ ShareKept(pool.bonded, d)
  BY <1>1, <1>4, Conversions, KeptByDeposit
<1> HIDE DEF p, r, t, w, d, n, u, Held
<1>10. /\ pool' \in StakePool /\ pool'.bonded = d
       /\ pool'.unbonding = w /\ pool'.vault_amount = vault
  BY <1>1, <1>3, <1>4, <1>9 DEF StakePool
<1>11. new \in StakeAccount /\ new.bonded = stakes[u].bonded + n
       /\ new.unbonding = stakes[u].unbonding - r.shares
  BY <1>4, <1>6, <1>7, <1>8, <1>9 DEF StakeAccount
<1> HIDE DEF new
<1>12. /\ weights' \in [DOMAIN stakes -> Nat]
       /\ \A v \in DOMAIN stakes : weights'[v] = stakes'[v].bonded
  <2>1. stakes'[u] = new /\ \A v \in DOMAIN stakes : v # u => stakes'[v] = stakes[v]
    BY <1>3, <1>6
  <2>2. new.bonded \in Nat
    BY <1>11 DEF StakeAccount
  <2>3. weights' = [weights EXCEPT ![u] = new.bonded]
    BY <1>3, <2>1
  <2> QED BY <1>3, <1>6, <2>1, <2>2, <2>3
<1>13. StakingInv'
  <2>1. /\ vault' \in Nat /\ pool'.vault_amount = pool'.bonded.tokens + pool'.unbonding.tokens
        /\ pool'.vault_amount <= vault'
        /\ pool'.bonded.shares = pool.bonded.shares + (new.bonded - stakes[u].bonded)
        /\ new.bonded >= stakes[u].bonded
    BY <1>1, <1>2, <1>3, <1>4, <1>5, <1>6, <1>9, <1>10, <1>11
  <2>2. /\ Held(DOMAIN unbondings)' = pool'.unbonding.shares
        /\ Held(UnbondingsOf(u))' = new.unbonding
    BY <1>1, <1>5, <1>7, <1>8, <1>10, <1>11
  <2>3. DOMAIN unbondings' \subseteq Users \X Seeds /\ clock' \in Nat /\ votes' = votes
    BY <1>3, <1>6, <1>8 DEF StakingInv, StakingTypeOK
  <2> QED BY <1>3, <1>8, <1>10, <1>11, <1>12, <2>1, <2>2, <2>3, StakeStep
<1> QED BY <1>4, <1>9, <1>10, <1>13 DEF ValueKept

\* The authority withdraws.
LEMMA WithdrawBondedStep ==
  ASSUME StakingInv, PoolExists, NEW a \in Nat, withdraw_bonded(a)
  PROVE  StakingInv'
<1> DEFINE p == updated
           b == (a * p.bonded.tokens) \div p.vault_amount
           x == diluted(p.bonded, b)
           y == diluted(p.unbonding, a - b)
           z == p.vault_amount - a
<1>1. /\ p \in StakePool /\ p.bonded \in TokenPool /\ p.unbonding \in TokenPool
      /\ p.bonded.shares = pool.bonded.shares
      /\ p.unbonding = pool.unbonding /\ p.vault_amount = vault
      /\ p.bonded.tokens + p.unbonding.tokens = vault /\ vault \in Nat
  BY Updated
<1>2. /\ p.bonded.tokens \in Nat /\ p.bonded.shares \in Nat
      /\ p.unbonding.tokens \in Nat /\ p.unbonding.shares \in Nat
  BY <1>1 DEF TokenPool
<1>3. /\ p.vault_amount > 0 /\ a <= p.vault_amount
      /\ b <= p.bonded.tokens /\ a - b <= p.unbonding.tokens
      /\ pool' = [p EXCEPT !.bonded = x, !.unbonding = y, !.vault_amount = z]
      /\ vault' = vault - a
      /\ UNCHANGED <<stakes, weights, max_weight, unbondings, votes, clock>>
  BY DEF withdraw_bonded
<1>4. b \in Nat
  <2>1. a * p.bonded.tokens \in Nat
    BY <1>2
  <2> QED BY <1>1, <1>3, <2>1, DivNat
<1> HIDE DEF b, p
<1>5. /\ x \in TokenPool /\ x.tokens = p.bonded.tokens - b /\ x.shares = p.bonded.shares
      /\ y \in TokenPool /\ y.tokens = p.unbonding.tokens - (a - b) /\ y.shares = p.unbonding.shares
      /\ z \in Nat /\ z = vault - a
  BY <1>1, <1>2, <1>3, <1>4 DEF diluted, TokenPool
<1> HIDE DEF x, y, z
<1>6. /\ pool' \in StakePool /\ pool'.bonded = x /\ pool'.unbonding = y /\ pool'.vault_amount = z
  BY <1>1, <1>3, <1>5 DEF StakePool
<1>7. PoolExists'
  BY <1>6 DEF PoolExists, StakePool
<1>8. /\ pool'.vault_amount = pool'.bonded.tokens + pool'.unbonding.tokens
      /\ pool'.vault_amount <= vault' /\ vault' \in Nat
      /\ pool'.bonded.shares = pool.bonded.shares /\ pool'.unbonding.shares = pool.unbonding.shares
  BY <1>1, <1>2, <1>3, <1>4, <1>5, <1>6
<1>9. BondedShares' = BondedShares /\ UnbondingShares' = UnbondingShares
      /\ \A u : UnbondingsOf(u)' = UnbondingsOf(u)
  BY <1>3 DEF BondedShares, UnbondingShares, UnbondingsOf
<1>10. StakingTypeOK'
  BY <1>3, <1>6, <1>8 DEF StakingInv, StakingTypeOK
<1>11. UnbondingIsOwned'
  BY <1>3, <1>9 DEF StakingInv, UnbondingIsOwned
<1>12. PoolAgrees'
  BY <1>3, <1>8, <1>9 DEF StakingInv, PoolAgrees
<1>13. VotesAreBacked'
  BY <1>3 DEF StakingInv, VotesAreBacked
<1> QED BY <1>7, <1>10, <1>11, <1>12, <1>13 DEF StakingInv, NoPoolYet

\* A stake account is opened.
LEMMA OpenStep ==
  ASSUME StakingInv, NEW u \in Users, init_stake_account(u)
  PROVE  StakingInv' /\ ValueKept
<1>1. /\ PoolExists /\ u \notin DOMAIN stakes
      /\ stakes' = Put(stakes, u, NewStake) /\ weights' = Put(weights, u, 0)
      /\ UNCHANGED <<pool, vault, max_weight, unbondings, votes, clock>>
  BY DEF init_stake_account
<1> DEFINE S == DOMAIN stakes
<1>2. /\ DOMAIN stakes' = S \cup {u} /\ IsFiniteSet(S) /\ IsFiniteSet(S \cup {u})
      /\ stakes'[u] = NewStake /\ \A v \in S : stakes'[v] = stakes[v]
      /\ weights'[u] = 0 /\ \A v \in S : weights'[v] = weights[v]
      /\ DOMAIN weights' = S \cup {u}
  BY <1>1, FS_AddElement DEF Put, StakingInv, StakingTypeOK
<1>3. NewStake \in StakeAccount /\ NewStake.bonded = 0 /\ NewStake.unbonding = 0
  BY DEF NewStake, StakeAccount
<1>4. StakingTypeOK'
  <2>1. stakes' \in [DOMAIN stakes' -> StakeAccount]
    BY <1>1, <1>2, <1>3 DEF Put, StakingInv, StakingTypeOK
  <2>2. weights' \in [DOMAIN stakes' -> Nat]
    BY <1>1, <1>2 DEF Put, StakingInv, StakingTypeOK
  <2> QED BY <1>1, <1>2, <2>1, <2>2 DEF StakingInv, StakingTypeOK
<1>5. /\ UnbondingShares' = UnbondingShares /\ \A v : UnbondingsOf(v)' = UnbondingsOf(v)
      /\ PoolExists'
  BY <1>1 DEF UnbondingShares, UnbondingsOf, PoolExists
<1>6. UnbondingIsOwned'
  <2> SUFFICES ASSUME NEW v \in Users
               PROVE  SumOver(UnbondingShares, UnbondingsOf(v)) =
                        IF v \in S \cup {u} THEN stakes'[v].unbonding ELSE 0
    BY <1>2, <1>5 DEF UnbondingIsOwned
  <2>1. SumOver(UnbondingShares, UnbondingsOf(v)) = IF v \in S THEN stakes[v].unbonding ELSE 0
    BY DEF StakingInv, UnbondingIsOwned
  <2> QED BY <1>1, <1>2, <1>3, <2>1
<1>7. SumOver(BondedShares, DOMAIN stakes)' = SumOver(BondedShares, DOMAIN stakes)
  <2> DEFINE f == BondedShares
             g == BondedShares'
  <2>1. /\ \A v \in S : f[v] \in Nat /\ g[v] = f[v]
        /\ g[u] = 0
    BY <1>2, <1>3 DEF BondedShares, StakingInv, StakingTypeOK, StakeAccount
  <2>2. SumOver(BondedShares, DOMAIN stakes)' = SumOver(g, S \cup {u})
    BY <1>2
  <2> HIDE DEF f, g
  <2>3. SumOver(g, S \cup {u}) = SumOver(g, S) + g[u]
    BY <1>1, <1>2, <2>1, SumAdd
  <2>4. SumOver(f, S) = SumOver(g, S) /\ SumOver(f, S) \in Nat
    BY <1>2, <2>1, SumSame, SumNat
  <2> QED BY <2>1, <2>2, <2>3, <2>4 DEF f
<1>8. PoolAgrees'
  BY <1>1, <1>2, <1>3, <1>5, <1>7 DEF StakingInv, PoolAgrees
<1>9. VotesAreBacked'
  BY <1>1, <1>2 DEF StakingInv, VotesAreBacked
<1>10. ValueKept
  BY <1>1, Updated DEF ValueKept, ShareKept, StakePool, TokenPool
<1> QED BY <1>4, <1>5, <1>6, <1>8, <1>9, <1>10 DEF StakingInv, NoPoolYet

\* An empty stake account is closed.
LEMMA CloseStep ==
  ASSUME StakingInv, NEW u \in DOMAIN stakes, close_stake_account(u)
  PROVE  StakingInv' /\ ValueKept
<1>1. /\ stakes[u] = NewStake
      /\ stakes' = Drop(stakes, u) /\ weights' = Drop(weights, u)
      /\ UNCHANGED <<pool, vault, max_weight, unbondings, votes, clock>>
  BY DEF close_stake_account
<1> DEFINE S == DOMAIN stakes
<1>2. /\ DOMAIN stakes' = S \ {u} /\ IsFiniteSet(S) /\ IsFiniteSet(S \ {u})
      /\ \A v \in S \ {u} : stakes'[v] = stakes[v]
      /\ \A v \in S \ {u} : weights'[v] = weights[v]
  BY <1>1, FS_Subset DEF Drop, StakingInv, StakingTypeOK
<1>3. stakes[u].bonded = 0 /\ stakes[u].unbonding = 0 /\ PoolExists
  BY <1>1 DEF NewStake, StakingInv, NoPoolYet
<1>4. StakingTypeOK'
  <2>1. stakes' \in [DOMAIN stakes' -> StakeAccount]
    BY <1>1, <1>2 DEF Drop, StakingInv, StakingTypeOK
  <2>2. weights' \in [DOMAIN stakes' -> Nat]
    BY <1>1, <1>2 DEF Drop, StakingInv, StakingTypeOK
  <2> QED BY <1>1, <1>2, <2>1, <2>2 DEF StakingInv, StakingTypeOK
<1>5. /\ UnbondingShares' = UnbondingShares /\ \A v : UnbondingsOf(v)' = UnbondingsOf(v)
      /\ PoolExists'
  BY <1>1, <1>3 DEF UnbondingShares, UnbondingsOf, PoolExists
<1>6. UnbondingIsOwned'
  <2> SUFFICES ASSUME NEW v \in Users
               PROVE  SumOver(UnbondingShares, UnbondingsOf(v)) =
                        IF v \in S \ {u} THEN stakes'[v].unbonding ELSE 0
    BY <1>2, <1>5 DEF UnbondingIsOwned
  <2>1. SumOver(UnbondingShares, UnbondingsOf(v)) = IF v \in S THEN stakes[v].unbonding ELSE 0
    BY DEF StakingInv, UnbondingIsOwned
  <2> QED BY <1>2, <1>3, <2>1
<1>7. SumOver(BondedShares, DOMAIN stakes)' = SumOver(BondedShares, DOMAIN stakes)
  <2> DEFINE f == BondedShares
             g == BondedShares'
  <2>1. /\ \A v \in S : f[v] \in Nat
        /\ \A v \in S \ {u} : g[v] = f[v]
        /\ f[u] = 0
    BY <1>2, <1>3 DEF BondedShares, StakingInv, StakingTypeOK, StakeAccount
  <2>2. SumOver(BondedShares, DOMAIN stakes)' = SumOver(g, S \ {u})
    BY <1>2
  <2> HIDE DEF f, g
  <2>3. SumOver(f, S) = SumOver(f, S \ {u}) + f[u]
    BY <1>2, <2>1, SumRemove
  <2>4. SumOver(f, S \ {u}) = SumOver(g, S \ {u}) /\ SumOver(f, S \ {u}) \in Nat
    BY <1>2, <2>1, SumSame, SumNat
  <2> QED BY <2>1, <2>2, <2>3, <2>4 DEF f
<1>8. PoolAgrees'
  BY <1>1, <1>2, <1>3, <1>5, <1>7 DEF StakingInv, PoolAgrees
<1>9. VotesAreBacked'
  BY <1>1, <1>2, <1>3 DEF StakingInv, VotesAreBacked, StakingTypeOK
<1>10. ValueKept
  BY <1>1, <1>3, Updated DEF ValueKept, ShareKept, StakePool, TokenPool
<1> QED BY <1>4, <1>5, <1>6, <1>8, <1>9, <1>10 DEF StakingInv, NoPoolYet

\* Steps that leave accounts and pool alone: authentication, the clock, a donation, and
\* the votes of governance.
LEMMA QuietStep ==
  ASSUME StakingInv, UNCHANGED <<pool, stakes, weights, max_weight, unbondings>>,
         vault' \in Nat, vault <= vault', clock' \in Nat, votes' \in [Users -> Nat],
         \A u \in Users : \/ votes'[u] \in {0, votes[u]}
                          \/ u \in DOMAIN weights /\ votes'[u] = weights[u]
  PROVE  StakingInv' /\ ValueKept
<1>1. StakingTypeOK' /\ NoPoolYet' /\ UnbondingIsOwned'
  BY DEF StakingInv, StakingTypeOK, NoPoolYet, PoolExists, UnbondingIsOwned, UnbondingShares,
         UnbondingsOf
<1>2. PoolAgrees'
  <2> SUFFICES ASSUME PoolExists PROVE PoolAgrees'
    BY DEF PoolAgrees, PoolExists
  <2>1. pool.vault_amount <= vault'
    BY Updated DEF StakingInv, PoolAgrees, StakePool
  <2> QED BY <2>1 DEF StakingInv, PoolAgrees, PoolExists, BondedShares, UnbondingShares
<1>3. VotesAreBacked'
  <2> SUFFICES ASSUME NEW u \in Users, votes'[u] > 0
               PROVE  u \in DOMAIN stakes /\ stakes[u].bonded >= votes'[u]
    BY DEF VotesAreBacked
  <2>1. CASE votes'[u] = votes[u]
    BY <2>1 DEF StakingInv, VotesAreBacked
  <2>2. CASE u \in DOMAIN weights /\ votes'[u] = weights[u]
    <3>1. u \in DOMAIN stakes /\ PoolExists /\ weights[u] \in Nat
      BY <2>2 DEF StakingInv, StakingTypeOK, NoPoolYet
    <3>2. weights[u] = stakes[u].bonded
      BY <3>1 DEF StakingInv, PoolAgrees
    <3> QED BY <2>2, <3>1, <3>2
  <2> QED BY <2>1, <2>2
<1>4. ValueKept
  BY Updated DEF ValueKept, ShareKept, StakePool, TokenPool
<1> QED BY <1>1, <1>2, <1>3, <1>4 DEF StakingInv

\* The pool is created.
LEMMA InitPoolStep ==
  ASSUME StakingInv, init_pool
  PROVE  StakingInv' /\ ValueKept
<1>1. /\ ~PoolExists /\ max_weight' = 0
      /\ pool' = [bonded |-> NoTokens, unbonding |-> NoTokens, vault_amount |-> 0]
      /\ UNCHANGED <<vault, stakes, weights, unbondings, votes, clock>>
  BY DEF init_pool
<1>2. /\ pool' \in StakePool /\ pool'.vault_amount = 0
      /\ pool'.bonded.tokens = 0 /\ pool'.bonded.shares = 0
      /\ pool'.unbonding.tokens = 0 /\ pool'.unbonding.shares = 0
  BY <1>1 DEF NoTokens, StakePool, TokenPool
<1>3. PoolExists'
  BY <1>2 DEF PoolExists, StakePool
<1>4. DOMAIN stakes = {} /\ DOMAIN unbondings = {}
  BY <1>1 DEF StakingInv, NoPoolYet
<1>5. StakingTypeOK' /\ UnbondingIsOwned' /\ VotesAreBacked'
  BY <1>1, <1>2 DEF StakingInv, StakingTypeOK, UnbondingIsOwned, UnbondingShares, UnbondingsOf,
                    VotesAreBacked
<1>6. SumOver(BondedShares, DOMAIN stakes)' = 0 /\ SumOver(UnbondingShares, DOMAIN unbondings)' = 0
  <2>1. DOMAIN stakes' = {} /\ DOMAIN unbondings' = {}
    BY <1>1, <1>4
  <2> QED BY <2>1, SumEmpty
<1>7. PoolAgrees'
  BY <1>1, <1>2, <1>4, <1>6 DEF PoolAgrees, StakingInv, StakingTypeOK
<1> QED BY <1>1, <1>3, <1>5, <1>7 DEF StakingInv, NoPoolYet, ValueKept

\* Stake is unbonded, all of it or an amount of tokens.
LEMMA UnbondStakeStep ==
  ASSUME StakingInv, NEW u \in DOMAIN stakes, NEW seed \in Seeds, NEW all \in BOOLEAN,
         NEW t \in Nat, unbond_stake(u, seed, all, t)
  PROVE  StakingInv' /\ ValueKept
<1> DEFINE b == updated.bonded
<1>1. PoolExists /\ votes[u] = 0 /\ <<u, seed>> \notin DOMAIN unbondings
      /\ Priced(b).shares > 0 /\ WeightsUpdated(u) /\ UNCHANGED <<vault, votes, clock>>
  BY DEF unbond_stake, NoOutstandingVotes, StakingInv, NoPoolYet
<1>2. b \in TokenPool /\ stakes[u].bonded \in Nat
  BY <1>1, Updated DEF StakingInv, StakingTypeOK, StakeAccount
<1>3. /\ with_shares(b, stakes[u].bonded) \in Nat /\ with_tokens_up(b, t) \in Nat
  BY <1>1, <1>2, Conversions
<1>4. b.tokens > 0 => /\ with_shares(b, stakes[u].bonded) * b.shares <= b.tokens * stakes[u].bonded
                      /\ t * b.shares <= b.tokens * with_tokens_up(b, t)
  BY <1>1, <1>2, FairPrice
<1>5. CASE all
  <2>1. Unbond(u, seed, stakes[u].bonded, with_shares(b, stakes[u].bonded))
    BY <1>5 DEF unbond_stake
  <2> QED BY <1>1, <1>2, <1>3, <1>4, <2>1, UnbondStep
<1>6. CASE ~all
  <2>1. Unbond(u, seed, with_tokens_up(b, t), t)
    BY <1>6 DEF unbond_stake
  <2> QED BY <1>1, <1>2, <1>3, <1>4, <2>1, UnbondStep
<1> QED BY <1>5, <1>6

\* Every step of staking.
LEMMA StakingStep ==
  ASSUME StakingInv, StakingNext
  PROVE  /\ StakingInv'
         /\ ValueKept \/ \E a \in Stakes : withdraw_bonded(a)
<1>0. vault \in Nat /\ clock \in Nat /\ votes \in [Users -> Nat] /\ weights \in [DOMAIN stakes -> Nat]
  BY DEF StakingInv, StakingTypeOK
<1>1. CASE AuthNext \/ Tick
  <2>1. /\ UNCHANGED <<pool, vault, stakes, weights, max_weight, unbondings, votes>>
        /\ clock' = clock \/ clock' = clock + 1
    BY <1>1 DEF AuthNext, create_user_auth, authenticate, Tick, poolVars
  <2>2. clock' \in Nat /\ vault' \in Nat /\ vault <= vault' /\ votes' \in [Users -> Nat]
    BY <1>0, <2>1
  <2> QED BY <2>1, <2>2, QuietStep
<1>2. ASSUME NEW a \in Donations, donate(a)
      PROVE  StakingInv' /\ ValueKept
  <2>1. /\ UNCHANGED <<pool, stakes, weights, max_weight, unbondings, votes, clock>>
        /\ vault' \in Nat /\ vault <= vault' /\ votes' \in [Users -> Nat]
    BY <1>0, <1>2, StakingAssumption DEF donate
  <2> QED BY <1>0, <2>1, QuietStep
<1>3. ASSUME NEW u \in Users, cast_vote(u) \/ relinquish_vote(u)
      PROVE  StakingInv' /\ ValueKept
  <2>1. /\ UNCHANGED <<pool, vault, stakes, weights, max_weight, unbondings, clock>>
        /\ \/ votes' = [votes EXCEPT ![u] = 0]
           \/ u \in DOMAIN weights /\ votes' = [votes EXCEPT ![u] = weights[u]]
    BY <1>3 DEF cast_vote, relinquish_vote, poolVars
  <2>2. /\ votes' \in [Users -> Nat]
        /\ \A v \in Users : \/ votes'[v] \in {0, votes[v]}
                            \/ v \in DOMAIN weights /\ votes'[v] = weights[v]
    BY <1>0, <2>1
  <2>3. vault' \in Nat /\ vault <= vault' /\ clock' \in Nat
    BY <1>0, <2>1
  <2> QED BY <2>1, <2>2, <2>3, QuietStep
<1>4. CASE StakeNext
  <2>1. CASE init_pool
    BY <2>1, InitPoolStep
  <2>2. CASE \E u \in Users : init_stake_account(u)
    BY <2>2, OpenStep
  <2>3. ASSUME NEW u \in DOMAIN stakes, NEW t \in Stakes, add_stake(u, t)
        PROVE  StakingInv' /\ ValueKept
    <3>1. PoolExists /\ t \in Nat
      BY StakingAssumption DEF StakingInv, NoPoolYet
    <3> QED BY <2>3, <3>1, AddStakeStep DEF add_stake
  <2>4. ASSUME NEW u \in DOMAIN stakes, NEW seed \in Seeds,
               unbond_stake(u, seed, TRUE, 0) \/ \E t \in Stakes : unbond_stake(u, seed, FALSE, t)
        PROVE  StakingInv' /\ ValueKept
    <3>1. Stakes \subseteq Nat /\ 0 \in Nat
      BY StakingAssumption
    <3>2. CASE unbond_stake(u, seed, TRUE, 0)
      BY <3>1, <3>2, UnbondStakeStep
    <3>3. ASSUME NEW t \in Stakes, unbond_stake(u, seed, FALSE, t)
          PROVE  StakingInv' /\ ValueKept
      BY <3>1, <3>3, UnbondStakeStep
    <3> QED BY <2>4, <3>2, <3>3
  <2>5. ASSUME NEW u \in DOMAIN stakes, close_stake_account(u)
        PROVE  StakingInv' /\ ValueKept
    BY <2>5, CloseStep
  <2>6. ASSUME NEW k \in DOMAIN unbondings,
               withdraw_unbonded(k[1], k[2]) \/ cancel_unbond(k[1], k[2])
        PROVE  StakingInv' /\ ValueKept
    <3>1. PoolExists
      BY DEF StakingInv, NoPoolYet
    <3> QED BY <2>6, <3>1, WithdrawUnbondedStep, CancelUnbondStep
  <2>7. ASSUME PoolExists, NEW a \in Stakes, withdraw_bonded(a)
        PROVE  StakingInv'
    <3>1. a \in Nat
      BY StakingAssumption
    <3> QED BY <2>7, <3>1, WithdrawBondedStep
  <2> QED BY <1>4, <2>1, <2>2, <2>3, <2>4, <2>5, <2>6, <2>7 DEF StakeNext
<1>5. CASE GovernanceNext
  BY <1>3, <1>5 DEF GovernanceNext
<1> QED BY <1>1, <1>2, <1>4, <1>5 DEF StakingNext

-----------------------------------------------------------------------------
(* Vesting *)

Vesting == [target_amount : Nat, distributed : Nat, begin_at : Nat, end_at : Nat, vault : Nat]

\* what RewardsCovered says of an award or a distribution at time c
VestsBy(t, c) ==
  /\ t.vault >= t.target_amount - t.distributed
  /\ t.distributed <= t.target_amount
  /\ t.distributed > 0 =>
       \/ (t.distributed - 1) * (t.end_at - t.begin_at) < t.target_amount * (c - t.begin_at)
       \/ t.end_at <= c

\* The larger of two numbers.
LEMMA MaxOfTwo ==
  ASSUME NEW a \in Int, NEW b \in Int
  PROVE  Max({a, b}) = IF a >= b THEN a ELSE b
<1> DEFINE m == IF a >= b THEN a ELSE b
<1>1. m \in {a, b} /\ \A y \in {a, b} : m >= y
  OBVIOUS
<1>2. ASSUME NEW x \in {a, b}, \A y \in {a, b} : x >= y PROVE x = m
  BY <1>2
<1> QED BY <1>1, <1>2 DEF Max

\* Time only adds to what is due.
LEMMA VestsLater ==
  ASSUME NEW t \in Vesting, NEW c \in Nat, VestsBy(t, c)
  PROVE  VestsBy(t, c + 1)
<1> DEFINE T == t.target_amount
           x == c - t.begin_at
           l == (t.distributed - 1) * (t.end_at - t.begin_at)
<1>1. T \in Nat /\ x \in Int /\ t.end_at \in Nat /\ l \in Int
  BY DEF Vesting
<1>2. (c + 1) - t.begin_at = x + 1
  BY DEF Vesting
<1>d. t.distributed > 0 => l < T * x \/ t.end_at <= c
  BY DEF VestsBy
<1> HIDE DEF T, x, l
<1>3. T * (x + 1) = T * x + T /\ T * x \in Int
  <2>1. \A a \in Int, b \in Int : a * (b + 1) = a * b + a /\ a * b \in Int
    OBVIOUS
  <2> QED BY <1>1, <2>1
<1>4. l < T * x \/ t.end_at <= c => l < T * (x + 1) \/ t.end_at <= c + 1
  BY <1>1, <1>3
<1>5. t.distributed > 0 =>
         l < T * ((c + 1) - t.begin_at) \/ t.end_at <= c + 1
  BY <1>d, <1>2, <1>4
<1>6. t.vault >= t.target_amount - t.distributed /\ t.distributed <= t.target_amount
  BY DEF VestsBy
<1>7. t.distributed > 0 =>
        \/ (t.distributed - 1) * (t.end_at - t.begin_at) < t.target_amount * ((c + 1) - t.begin_at)
        \/ t.end_at <= c + 1
  BY <1>5 DEF T, l
<1> QED BY <1>6, <1>7 DEF VestsBy

\* A release pays what is due and no more, whatever was released before.
LEMMA Releases ==
  ASSUME NEW t \in Vesting, clock \in Nat, VestsBy(t, clock),
         CanDistribute(t), t.vault >= ToDistribute(t)
  PROVE  /\ ToDistribute(t) \in Nat
         /\ Distribute(t) \in Vesting /\ VestsBy(Distribute(t), clock)
<1> DEFINE T == t.target_amount
           R == Remaining(t)
           S == Span(t)
           q == (R * T) \div S
           D == distributed_amount(t)
           B == t.begin_at
           E == t.end_at
<1>1. T \in Nat /\ t.distributed \in Nat /\ B \in Nat /\ E \in Nat /\ t.vault \in Nat
  BY DEF Vesting
<1>2. R = IF E >= clock THEN E - clock ELSE 0
  <2>1. Max({0, E - clock}) = IF 0 >= E - clock THEN 0 ELSE E - clock
    BY <1>1, MaxOfTwo
  <2> QED BY <1>1, <2>1 DEF Remaining
<1>3. S = IF E > B THEN E - B ELSE 1
  <2>1. Max({1, E - B}) = IF 1 >= E - B THEN 1 ELSE E - B
    BY <1>1, MaxOfTwo
  <2> QED BY <1>1, <2>1 DEF Span
<1>4. D = T - q
  BY DEF distributed_amount
<1>5. D >= t.distributed /\ E >= B /\ ToDistribute(t) = D - t.distributed
  BY DEF CanDistribute, ToDistribute
<1>6. Distribute(t) = [[t EXCEPT !.distributed = D] EXCEPT !.vault = t.vault - (D - t.distributed)]
  BY <1>5 DEF Distribute
<1>7. t.vault >= T - t.distributed
  BY DEF VestsBy
<1>8. t.vault >= D - t.distributed
  BY <1>5
<1> HIDE DEF T, R, S, q, D, B, E
<1>9. R \in Nat /\ S \in Nat \ {0}
  BY <1>1, <1>2, <1>3
<1>10. R * T \in Nat /\ q \in Nat /\ S * q <= R * T /\ R * T < S * q + S
  <2>1. R * T \in Nat
    BY <1>1, <1>9
  <2> QED BY <1>9, <2>1, Floor DEF q
<1>11. D \in Nat /\ D <= T
  BY <1>1, <1>4, <1>5, <1>10
<1> DEFINE v == t.vault - (D - t.distributed)
<1>12. v \in Nat /\ v >= T - D /\ D - t.distributed \in Nat
  BY <1>1, <1>5, <1>7, <1>8, <1>11
<1>13. Distribute(t) = [[t EXCEPT !.distributed = D] EXCEPT !.vault = v]
  BY <1>6
<1> HIDE DEF v
<1>14. /\ Distribute(t) \in Vesting
       /\ Distribute(t).vault = v /\ Distribute(t).distributed = D
       /\ Distribute(t).target_amount = T /\ Distribute(t).begin_at = B /\ Distribute(t).end_at = E
  BY <1>11, <1>12, <1>13 DEF Vesting, T, B, E
<1>15. D > 0 => (D - 1) * (E - B) < T * (clock - B) \/ E <= clock
  <2> SUFFICES ASSUME D > 0, E > clock PROVE (D - 1) * (E - B) < T * (clock - B)
    BY <1>1
  <2>1. R = E - clock /\ R >= 1
    BY <1>1, <1>2
  <2>2. E > B
    <3> SUFFICES ASSUME E = B PROVE FALSE
      BY <1>1, <1>5
    <3>1. S = 1
      BY <1>1, <1>3
    <3>2. q >= R * T /\ R * T >= T
      BY <1>1, <1>9, <1>10, <2>1, <3>1
    <3> QED BY <1>1, <1>4, <1>10, <3>2
  <2>3. S = E - B
    BY <1>1, <1>3, <2>2
  <2>4. (D - 1) * S = T * S - q * S - S
    BY <1>1, <1>4, <1>9, <1>10
  <2>5. clock - B = S - R /\ T * (S - R) = T * S - T * R
    BY <1>1, <1>9, <2>1, <2>3
  <2>6. q * S = S * q /\ T * R = R * T /\ T * S \in Nat /\ S * q \in Nat
    BY <1>1, <1>9, <1>10
  <2>7. (D - 1) * S < T * (S - R)
    BY <1>9, <1>10, <2>4, <2>5, <2>6
  <2> QED BY <2>3, <2>5, <2>7
<1>16. VestsBy(Distribute(t), clock)
  BY <1>11, <1>12, <1>14, <1>15 DEF VestsBy
<1> QED BY <1>5, <1>12, <1>14, <1>16

-----------------------------------------------------------------------------
(* Recipient lists *)

Entries == [recipient : Users, amount : Nat]

\* the amounts of a list
Amounts(entries) == [i \in DOMAIN entries |-> entries[i].amount]

\* Amounts are numbers, and so is their total.
LEMMA TotalNat ==
  ASSUME NEW s \in Seq(Entries)
  PROVE  /\ DOMAIN s = 1 .. Len(s) /\ Len(s) \in Nat /\ IsFiniteSet(1 .. Len(s))
         /\ \A i \in 1 .. Len(s) : s[i] \in Entries /\ Amounts(s)[i] = s[i].amount /\ s[i].amount \in Nat
         /\ Total(s) = SumOver(Amounts(s), 1 .. Len(s)) /\ Total(s) \in Nat
<1>1. DOMAIN s = 1 .. Len(s) /\ Len(s) \in Nat
  OBVIOUS
<1>2. \A i \in 1 .. Len(s) : s[i] \in Entries /\ Amounts(s)[i] = s[i].amount /\ s[i].amount \in Nat
  <2> SUFFICES ASSUME NEW i \in 1 .. Len(s)
               PROVE  s[i] \in Entries /\ Amounts(s)[i] = s[i].amount /\ s[i].amount \in Nat
    OBVIOUS
  <2>1. s[i] \in Entries
    BY <1>1
  <2>2. s[i].amount \in Nat
    BY <2>1 DEF Entries
  <2>3. Amounts(s)[i] = s[i].amount
    BY <1>1 DEF Amounts
  <2> QED BY <2>1, <2>2, <2>3
<1>3. IsFiniteSet(1 .. Len(s))
  BY <1>1, FS_Interval
<1>4. Total(s) = SumOver(Amounts(s), 1 .. Len(s))
  BY <1>1 DEF Total, Amounts
<1>5. SumOver(Amounts(s), 1 .. Len(s)) \in Nat
  BY <1>2, <1>3, SumNat
<1> QED BY <1>1, <1>2, <1>3, <1>4, <1>5

\* The parts of a list add up.
LEMMA TotalOfParts ==
  ASSUME NEW s \in Seq(Entries), NEW e \in Seq(Entries)
  PROVE  s \o e \in Seq(Entries) /\ Total(s \o e) = Total(s) + Total(e)
<1> DEFINE a == s \o e
<1>1. /\ a \in Seq(Entries) /\ Len(a) = Len(s) + Len(e)
      /\ \A i \in 1 .. Len(s) : a[i] = s[i]
      /\ \A i \in 1 .. Len(e) : a[Len(s) + i] = e[i]
  OBVIOUS
<1>2. /\ \A i \in 1 .. Len(a) : Amounts(a)[i] = a[i].amount
      /\ \A i \in 1 .. Len(s) : Amounts(s)[i] = s[i].amount /\ s[i].amount \in Int
      /\ \A i \in 1 .. Len(e) : Amounts(e)[i] = e[i].amount /\ e[i].amount \in Int
  <2>1. \A i \in 1 .. Len(a) : Amounts(a)[i] = a[i].amount
    BY <1>1, TotalNat
  <2>2. \A i \in 1 .. Len(s) : Amounts(s)[i] = s[i].amount /\ s[i].amount \in Nat
    BY TotalNat
  <2>3. \A i \in 1 .. Len(e) : Amounts(e)[i] = e[i].amount /\ e[i].amount \in Nat
    BY TotalNat
  <2> HIDE DEF a
  <2> QED BY <2>1, <2>2, <2>3
<1> HIDE DEF a
<1>3. /\ \A i \in 1 .. Len(s) : Amounts(a)[i] = Amounts(s)[i] /\ Amounts(s)[i] \in Int
      /\ \A i \in 1 .. Len(e) : Amounts(a)[Len(s) + i] = Amounts(e)[i] /\ Amounts(e)[i] \in Int
  <2>1. Len(s) \in Nat /\ Len(e) \in Nat
    OBVIOUS
  <2>2. /\ \A i \in 1 .. Len(s) : i \in 1 .. Len(a)
        /\ \A i \in 1 .. Len(e) : Len(s) + i \in 1 .. Len(a)
    BY <1>1, <2>1
  <2> QED BY <1>1, <1>2, <2>2
<1>4. Total(a) = Total(s) + Total(e)
  <2>1. Len(s) \in Nat /\ Len(e) \in Nat
    OBVIOUS
  <2>2. SumOver(Amounts(a), 1 .. Len(s) + Len(e))
          = SumOver(Amounts(s), 1 .. Len(s)) + SumOver(Amounts(e), 1 .. Len(e))
    <3> DEFINE m == Len(s)
               n == Len(e)
               A == Amounts(a)
               S == Amounts(s)
               E == Amounts(e)
    <3>1. Joined(A, S, m, E, n)
      BY <1>3, <2>1 DEF Joined
    <3> HIDE DEF m, n, A, S, E
    <3>2. SumOver(A, 1 .. m + n) = SumOver(S, 1 .. m) + SumOver(E, 1 .. n)
      BY <3>1, SumParts
    <3> QED BY <3>2 DEF m, n, A, S, E
  <2> QED BY <1>1, <2>2, TotalNat
<1> QED BY <1>1, <1>4 DEF a

\* A claimed entry is worth nothing any more.
LEMMA TotalAfterClaim ==
  ASSUME NEW s \in Seq(Entries), NEW i \in DOMAIN s, NEW z, z = [s EXCEPT ![i].amount = 0]
  PROVE  /\ z \in Seq(Entries) /\ Total(z) = Total(s) - s[i].amount
         /\ s[i].amount \in Nat /\ (IsSorted(s) => IsSorted(z))
<1> DEFINE F == Amounts(s)
           G == Amounts(z)
           n == Len(s)
           v == [s[i] EXCEPT !.amount = 0]
<1>1. /\ DOMAIN s = 1 .. n /\ n \in Nat /\ IsFiniteSet(1 .. n) /\ i \in 1 .. n
      /\ \A j \in 1 .. n : s[j] \in Entries /\ F[j] = s[j].amount /\ s[j].amount \in Nat
      /\ Total(s) = SumOver(F, 1 .. n)
  BY TotalNat
<1>2. v \in Entries /\ v.amount = 0 /\ v.recipient = s[i].recipient
  BY <1>1 DEF Entries
<1>3. z = [s EXCEPT ![i] = v]
  OBVIOUS
<1> HIDE DEF v, F, G
<1>4. z \in Seq(Entries) /\ Len(z) = n /\ z[i] = v /\ \A j \in 1 .. n : j # i => z[j] = s[j]
  BY <1>1, <1>2, <1>3
<1>5. /\ Total(z) = SumOver(G, 1 .. n)
      /\ \A j \in 1 .. n : G[j] = z[j].amount
  BY <1>4, TotalNat DEF G
<1>6. G[i] = 0 /\ \A j \in (1 .. n) \ {i} : G[j] = F[j]
  BY <1>1, <1>2, <1>4, <1>5
<1>7. SumOver(G, 1 .. n) = SumOver(F, 1 .. n) + (G[i] - F[i])
  BY <1>1, <1>6, SumChange, SMTT(40)
<1>8. Total(s) \in Nat
  BY TotalNat
<1>9. \A j \in 1 .. n : z[j].recipient = s[j].recipient
  BY <1>2, <1>4
<1>10. IsSorted(s) => IsSorted(z)
  BY <1>1, <1>4, <1>9 DEF IsSorted
<1> QED BY <1>1, <1>4, <1>5, <1>6, <1>7, <1>8, <1>10

\* The end of a list from its entry b on.
LEMMA EndOfList ==
  ASSUME NEW S, NEW a \in Seq(S), NEW b \in 1 .. Len(a)
  PROVE  /\ Len(SubSeq(a, b, Len(a))) = Len(a) - b + 1
         /\ \A x \in 1 .. Len(a) - b + 1 : SubSeq(a, b, Len(a))[x] = a[b + x - 1]
<1>1. Len(a) \in Nat
  OBVIOUS
<1> QED BY <1>1

\* Checking a part from the last entry before it keeps the whole sorted.
LEMMA SortedWhole ==
  ASSUME NEW s \in Seq(Entries), NEW e \in Seq(Entries), IsSorted(s), SortedFrom(s \o e, Len(s))
  PROVE  IsSorted(s \o e)
<1> DEFINE a == s \o e
           m == Len(s)
           b == IF m = 0 THEN 1 ELSE m
<1>1. /\ a \in Seq(Entries) /\ Len(a) = m + Len(e) /\ m \in Nat /\ Len(e) \in Nat
      /\ \A j \in 1 .. m : a[j] = s[j]
  OBVIOUS
<1>2. b \in Nat /\ b >= 1 /\ (b = m \/ b = 1)
  BY <1>1
<1>3. IsSorted(SubSeq(a, b, Len(a)))
  BY DEF SortedFrom
<1> SUFFICES ASSUME NEW i \in 1 .. Len(a) - 1 PROVE a[i].recipient <= a[i + 1].recipient
  BY DEF IsSorted
<1> HIDE DEF a, m
<1>4. CASE i < m
  <2>1. a[i] = s[i] /\ a[i + 1] = s[i + 1] /\ i \in 1 .. m - 1
    BY <1>1, <1>4
  <2> QED BY <2>1 DEF IsSorted, m
<1>5. CASE i >= m
  <2>0. i >= b
    BY <1>1, <1>5
  <2> DEFINE c == SubSeq(a, b, Len(a))
             j == i - b + 1
  <2> HIDE DEF b
  <2>1. Len(c) = Len(a) - b + 1 /\ \A x \in 1 .. Len(a) - b + 1 : c[x] = a[b + x - 1]
    <3>1. b \in 1 .. Len(a)
      BY <1>1, <1>2, <2>0
    <3> QED BY <1>1, <3>1, EndOfList
  <2> HIDE DEF c
  <2>2. /\ j \in 1 .. Len(c) - 1 /\ b + j - 1 = i /\ b + (j + 1) - 1 = i + 1
        /\ j \in 1 .. Len(a) - b + 1 /\ j + 1 \in 1 .. Len(a) - b + 1
    BY <1>1, <1>2, <2>0, <2>1
  <2> HIDE DEF j
  <2>3. c[j] = a[i] /\ c[j + 1] = a[i + 1]
    BY <2>1, <2>2
  <2>4. c[j].recipient <= c[j + 1].recipient
    BY <1>3, <2>2 DEF IsSorted, c
  <2> QED BY <2>3, <2>4
<1> QED BY <1>1, <1>4, <1>5

-----------------------------------------------------------------------------
(* The rewards program *)

Airdrop == [recipients : Seq(Entries), reward_total : Nat, finalized : BOOLEAN,
            expire_at : Nat, vault : Nat]

\* the airdrops of which RewardsCovered holds, and the vesting accounts by time c
CoveredAirdrops ==
  {a \in Airdrop : /\ IsSorted(a.recipients) /\ a.reward_total = Total(a.recipients)
                   /\ a.finalized => a.vault >= a.reward_total}
Vested(c) == {t \in Vesting : VestsBy(t, c)}

RewardAccounts ==
  /\ airdrops \in [DOMAIN airdrops -> CoveredAirdrops]
  /\ awards \in [DOMAIN awards -> Vested(clock)]
  /\ distributions \in [DOMAIN distributions -> Vested(clock)]

RewardsInv == StakingInv /\ RewardAccounts

\* Accounts are created, written and closed one at a time.
LEMMA OneAccount ==
  ASSUME NEW S, NEW f, f \in [DOMAIN f -> S], NEW k, NEW v \in S
  PROVE  /\ Put(f, k, v) \in [DOMAIN Put(f, k, v) -> S]
         /\ Drop(f, k) \in [DOMAIN Drop(f, k) -> S]
         /\ [f EXCEPT ![k] = v] \in [DOMAIN [f EXCEPT ![k] = v] -> S]
BY DEF Put, Drop

\* Only the clock's own step moves it.
LEMMA ClockStep ==
  ASSUME StakingNext PROVE clock' = clock \/ clock' = clock + 1
BY DEF StakingNext, AuthNext, create_user_auth, authenticate, Tick, donate, GovernanceNext,
       cast_vote, relinquish_vote, StakeNext, init_pool, init_stake_account, add_stake,
       unbond_stake, close_stake_account, withdraw_unbonded, cancel_unbond, withdraw_bonded

\* Staking leaves the reward accounts alone, and time only adds to what is due.
LEMMA StakingKeepsRewards ==
  ASSUME RewardsInv, StakingNext, UNCHANGED <<airdrops, awards, distributions>>
  PROVE  RewardAccounts'
<1>1. clock \in Nat
  BY DEF RewardsInv, StakingInv, StakingTypeOK
<1>2. Vested(clock) \subseteq Vested(clock')
  <2>1. CASE clock' = clock
    BY <2>1
  <2>2. CASE clock' = clock + 1
    <3>1. \A t \in Vested(clock) : t \in Vested(clock + 1)
      BY <1>1, VestsLater DEF Vested
    <3> QED BY <2>2, <3>1
  <2> QED BY <2>1, <2>2, ClockStep
<1>3. /\ airdrops' \in [DOMAIN airdrops' -> CoveredAirdrops]
      /\ awards' \in [DOMAIN awards' -> Vested(clock)]
      /\ distributions' \in [DOMAIN distributions' -> Vested(clock)]
  BY DEF RewardsInv, RewardAccounts
<1> HIDE DEF Vested
<1>4. /\ awards' \in [DOMAIN awards' -> Vested(clock')]
      /\ distributions' \in [DOMAIN distributions' -> Vested(clock')]
  BY <1>2, <1>3
<1>5. Vested(clock)' = Vested(clock') /\ CoveredAirdrops' = CoveredAirdrops
  BY DEF Vested, CoveredAirdrops
<1> QED BY <1>3, <1>4, <1>5 DEF RewardAccounts

\* A step of the rewards program that does not stake.
LEMMA RewardFrame ==
  ASSUME RewardsInv, UNCHANGED stakingVars, RewardAccounts'
  PROVE  RewardsInv' /\ ValueKept
<1>1. vault \in Nat /\ clock \in Nat /\ votes \in [Users -> Nat]
  BY DEF RewardsInv, StakingInv, StakingTypeOK
<1>2. /\ UNCHANGED <<pool, stakes, weights, max_weight, unbondings>>
      /\ vault' = vault /\ clock' = clock /\ votes' = votes
  BY DEF stakingVars
<1>3. vault' \in Nat /\ vault <= vault' /\ clock' \in Nat /\ votes' \in [Users -> Nat]
  BY <1>1, <1>2
<1>4. StakingInv' /\ ValueKept
  BY <1>2, <1>3, QuietStep DEF RewardsInv
<1> QED BY <1>4 DEF RewardsInv

\* Airdrops.
LEMMA AirdropStep ==
  ASSUME RewardsInv, AirdropNext
  PROVE  RewardsInv' /\ ValueKept
<1> DEFINE C == CoveredAirdrops
<1>0. /\ airdrops \in [DOMAIN airdrops -> C] /\ clock \in Nat
      /\ awards \in [DOMAIN awards -> Vested(clock)]
      /\ distributions \in [DOMAIN distributions -> Vested(clock)]
  BY DEF RewardsInv, RewardAccounts, StakingInv, StakingTypeOK
<1>f. ASSUME airdrops' \in [DOMAIN airdrops' -> C], UNCHANGED <<stakingVars, awards, distributions>>
      PROVE  RewardsInv' /\ ValueKept
  <2>1. RewardAccounts'
    <3>1. /\ awards' \in [DOMAIN awards' -> Vested(clock)] /\ clock' = clock
          /\ distributions' \in [DOMAIN distributions' -> Vested(clock)]
      BY <1>0, <1>f DEF stakingVars
    <3>2. Vested(clock)' = Vested(clock) /\ CoveredAirdrops' = C
      BY <3>1 DEF Vested, CoveredAirdrops
    <3> QED BY <1>f, <3>1, <3>2 DEF RewardAccounts
  <2> QED BY <1>f, <2>1, RewardFrame
<1>d. ASSUME NEW d \in DOMAIN airdrops
      PROVE  /\ airdrops[d] \in Airdrop /\ IsSorted(airdrops[d].recipients)
             /\ airdrops[d].reward_total = Total(airdrops[d].recipients)
             /\ airdrops[d].finalized => airdrops[d].vault >= airdrops[d].reward_total
             /\ airdrops[d].recipients \in Seq(Entries)
             /\ airdrops[d].reward_total \in Nat /\ airdrops[d].vault \in Nat
  <2>1. airdrops[d] \in C
    BY <1>0
  <2> QED BY <2>1 DEF CoveredAirdrops, Airdrop
<1>1. ASSUME NEW d \in Airdrops, NEW e \in Expiries, airdrop_create(d, e)
      PROVE  RewardsInv' /\ ValueKept
  <2> DEFINE a == [recipients |-> <<>>, reward_total |-> 0, finalized |-> FALSE,
                   expire_at |-> e, vault |-> 0]
  <2>1. airdrops' = Put(airdrops, d, a) /\ UNCHANGED <<stakingVars, awards, distributions>>
    BY <1>1 DEF airdrop_create
  <2>2. a \in Airdrop
    BY RewardsAssumption DEF Airdrop
  <2>3. Total(<<>>) = 0
    <3>1. DOMAIN <<>> = {}
      OBVIOUS
    <3> QED BY <3>1, SumEmpty DEF Total
  <2>4. IsSorted(<<>>)
    BY DEF IsSorted
  <2>5. a \in C
    BY <2>2, <2>3, <2>4 DEF CoveredAirdrops
  <2> HIDE DEF a, C
  <2>6. airdrops' \in [DOMAIN airdrops' -> C]
    BY <1>0, <2>1, <2>5, OneAccount
  <2> QED BY <1>f, <2>1, <2>6
<1>2. ASSUME NEW d \in DOMAIN airdrops, NEW p \in Uploads, airdrop_add_recipients(d, p[1], p[2])
      PROVE  RewardsInv' /\ ValueKept
  <2> DEFINE e == p[2]
             a == airdrops[d]
             s == a.recipients
             total == a.reward_total + Total(e)
             b == [[a EXCEPT !.recipients = s \o e] EXCEPT !.reward_total = total]
  <2>1. /\ Len(s) = p[1] /\ ~a.finalized /\ SortedFrom(s \o e, p[1])
        /\ airdrops' = [airdrops EXCEPT ![d].recipients = s \o e, ![d].reward_total = @ + Total(e)]
        /\ UNCHANGED <<stakingVars, awards, distributions>>
    BY <1>2 DEF airdrop_add_recipients
  <2>2. airdrops' = [airdrops EXCEPT ![d] = b]
    BY <1>0, <2>1
  <2>3. e \in Seq(Entries) /\ s \in Seq(Entries) /\ a \in Airdrop /\ IsSorted(s)
        /\ a.reward_total = Total(s)
    BY <1>d, RewardsAssumption DEF Entries
  <2>4. /\ s \o e \in Seq(Entries) /\ Total(s \o e) = total /\ total \in Nat
    BY <2>3, TotalOfParts, TotalNat
  <2>5. IsSorted(s \o e)
    BY <2>1, <2>3, SortedWhole
  <2> DEFINE l == s \o e
  <2> HIDE DEF e, a, s, total, l
  <2>6. b = [[a EXCEPT !.recipients = l] EXCEPT !.reward_total = total]
    BY DEF l
  <2>7. l \in Seq(Entries) /\ Total(l) = total /\ IsSorted(l)
    BY <2>4, <2>5 DEF l
  <2> HIDE DEF b
  <2>8. b \in Airdrop /\ b.recipients = l /\ b.reward_total = total /\ b.finalized = a.finalized
    BY <2>3, <2>4, <2>6, <2>7 DEF Airdrop
  <2>9. b \in C
    BY <2>1, <2>7, <2>8 DEF CoveredAirdrops
  <2> HIDE DEF C
  <2>10. airdrops' \in [DOMAIN airdrops' -> C]
    BY <1>0, <2>2, <2>9, OneAccount
  <2> QED BY <1>f, <2>1, <2>10
<1>3. ASSUME NEW d \in DOMAIN airdrops, airdrop_finalize(d)
      PROVE  RewardsInv' /\ ValueKept
  <2> DEFINE a == airdrops[d]
             b == [a EXCEPT !.finalized = TRUE]
  <2>1. /\ a.vault >= a.reward_total /\ airdrops' = [airdrops EXCEPT ![d] = b]
        /\ UNCHANGED <<stakingVars, awards, distributions>>
    BY <1>3 DEF airdrop_finalize
  <2>2. b \in C
    BY <1>d, <2>1 DEF CoveredAirdrops, Airdrop
  <2> HIDE DEF b, C
  <2>3. airdrops' \in [DOMAIN airdrops' -> C]
    BY <1>0, <2>1, <2>2, OneAccount
  <2> QED BY <1>f, <2>1, <2>3
<1>4. ASSUME NEW d \in DOMAIN airdrops, PoolExists, NEW i \in DOMAIN airdrops[d].recipients,
             NEW r \in Users, NEW u \in Users, airdrop_claim(d, r, i, u)
      PROVE  RewardsInv' /\ ValueKept
  <2> DEFINE a == airdrops[d]
             s == a.recipients
             n == s[i].amount
             z == [s EXCEPT ![i].amount = 0]
             total == a.reward_total - n
             left == a.vault - n
             b == [[[a EXCEPT !.recipients = z] EXCEPT !.reward_total = total] EXCEPT !.vault = left]
  <2>0. airdrops' = [airdrops EXCEPT ![d] = [a EXCEPT !.recipients[i].amount = 0,
                                                      !.reward_total = @ - n,
                                                      !.vault = @ - n]]
    BY <1>4 DEF airdrop_claim
  <2>1. /\ a.finalized /\ a.vault >= n /\ AddStake(u, n)
        /\ UNCHANGED <<others, awards, distributions>>
    BY <1>4 DEF airdrop_claim
  <2>2. [a EXCEPT !.recipients[i].amount = 0, !.reward_total = @ - n, !.vault = @ - n] = b
    BY <1>d DEF Airdrop
  <2>3. airdrops' = [airdrops EXCEPT ![d] = b]
    BY <2>0, <2>2
  <2>4. s \in Seq(Entries) /\ a \in Airdrop /\ a.reward_total = Total(s) /\ a.vault \in Nat
        /\ IsSorted(s) /\ a.vault >= a.reward_total /\ a.finalized
    BY <1>d, <2>1
  <2>5. z \in Seq(Entries) /\ Total(z) = Total(s) - n /\ n \in Nat /\ IsSorted(z)
    BY <2>4, TotalAfterClaim
  <2>6. Total(z) \in Nat /\ Total(s) \in Nat
    BY <2>4, <2>5, TotalNat
  <2> HIDE DEF a, s, n, z
  <2>7. total \in Nat /\ total = Total(z) /\ left \in Nat /\ left >= total
    BY <2>1, <2>4, <2>5, <2>6
  <2> HIDE DEF total, left
  <2>8. b \in Airdrop /\ b.recipients = z /\ b.reward_total = total /\ b.vault = left
    BY <2>4, <2>5, <2>7 DEF Airdrop
  <2> HIDE DEF b
  <2>9. b \in C
    BY <2>5, <2>7, <2>8 DEF CoveredAirdrops
  <2>10. StakingInv' /\ ValueKept
    BY <1>4, <2>1, <2>5, AddStakeStep DEF others, RewardsInv
  <2>11. RewardAccounts'
    <3>1. CoveredAirdrops' = C
      BY DEF CoveredAirdrops
    <3>2. clock' = clock /\ Vested(clock)' = Vested(clock)
      BY <2>1 DEF others, Vested
    <3> HIDE DEF C
    <3>3. airdrops' \in [DOMAIN airdrops' -> C]
      BY <1>0, <2>3, <2>9, OneAccount
    <3> QED BY <1>0, <2>1, <3>1, <3>2, <3>3 DEF RewardAccounts
  <2> QED BY <2>10, <2>11 DEF RewardsInv
<1>5. ASSUME NEW d \in DOMAIN airdrops, airdrop_close(d)
      PROVE  RewardsInv' /\ ValueKept
  <2>1. airdrops' = Drop(airdrops, d) /\ UNCHANGED <<stakingVars, awards, distributions>>
    BY <1>5 DEF airdrop_close
  <2>2. airdrops[d] \in C
    BY <1>0
  <2> HIDE DEF C
  <2>3. airdrops' \in [DOMAIN airdrops' -> C]
    BY <1>0, <2>1, <2>2, OneAccount
  <2> QED BY <1>f, <2>1, <2>3
<1>6. ASSUME NEW d \in DOMAIN airdrops, NEW n \in Funds, fund_airdrop(d, n)
      PROVE  RewardsInv' /\ ValueKept
  <2> DEFINE a == airdrops[d]
             b == [a EXCEPT !.vault = @ + n]
  <2>1. airdrops' = [airdrops EXCEPT ![d] = b] /\ UNCHANGED <<stakingVars, awards, distributions>>
    BY <1>6 DEF fund_airdrop
  <2>2. n \in Nat
    BY RewardsAssumption
  <2>3. b \in Airdrop /\ b.recipients = a.recipients /\ b.reward_total = a.reward_total
        /\ b.finalized = a.finalized /\ b.vault = a.vault + n
    BY <1>d, <2>2 DEF Airdrop
  <2>4. b \in C
    <3>1. /\ IsSorted(a.recipients) /\ a.reward_total = Total(a.recipients)
          /\ a.finalized => a.vault >= a.reward_total
          /\ a.reward_total \in Nat /\ a.vault \in Nat
      BY <1>d
    <3> HIDE DEF a, b
    <3>2. b.finalized => b.vault >= b.reward_total
      BY <2>2, <2>3, <3>1
    <3> QED BY <2>3, <3>1, <3>2 DEF CoveredAirdrops
  <2> HIDE DEF b, C
  <2>5. airdrops' \in [DOMAIN airdrops' -> C]
    BY <1>0, <2>1, <2>4, OneAccount
  <2> QED BY <1>f, <2>1, <2>5
<1> QED BY <1>1, <1>2, <1>3, <1>4, <1>5, <1>6 DEF AirdropNext

\* Awards and distributions.
LEMMA VestingStep ==
  ASSUME RewardsInv, VestingNext
  PROVE  RewardsInv' /\ ValueKept
<1> DEFINE V == Vested(clock)
<1>0. /\ airdrops \in [DOMAIN airdrops -> CoveredAirdrops] /\ clock \in Nat
      /\ awards \in [DOMAIN awards -> V] /\ distributions \in [DOMAIN distributions -> V]
  BY DEF RewardsInv, RewardAccounts, StakingInv, StakingTypeOK
<1>a. ASSUME awards' \in [DOMAIN awards' -> V], distributions' \in [DOMAIN distributions' -> V],
             UNCHANGED <<airdrops, clock>>
      PROVE  RewardAccounts'
  <2>1. V' = V /\ CoveredAirdrops' = CoveredAirdrops
    BY <1>a DEF Vested, CoveredAirdrops
  <2> QED BY <1>0, <1>a, <2>1 DEF RewardAccounts
<1>f. ASSUME awards' \in [DOMAIN awards' -> V], distributions' \in [DOMAIN distributions' -> V],
             UNCHANGED <<stakingVars, airdrops>>
      PROVE  RewardsInv' /\ ValueKept
  <2>1. RewardAccounts' /\ UNCHANGED stakingVars
    BY <1>a, <1>f DEF stakingVars
  <2> QED BY <2>1, RewardFrame
<1>g. ASSUME NEW g \in Grants PROVE TokenDistribution(g) \in V
  <2>1. g[1] \in Nat /\ g[2] \in Nat /\ g[3] \in Nat
    BY RewardsAssumption
  <2> QED BY <2>1 DEF TokenDistribution, Vested, Vesting, VestsBy
<1>r. ASSUME NEW t \in V, CanDistribute(t), t.vault >= ToDistribute(t)
      PROVE  Distribute(t) \in V /\ ToDistribute(t) \in Nat
  BY <1>0, <1>r, Releases DEF Vested
<1> HIDE DEF V
<1>1. ASSUME NEW w \in Awards, NEW g \in Grants, award_create(w, g)
      PROVE  RewardsInv' /\ ValueKept
  <2>1. awards' = Put(awards, w, TokenDistribution(g)) /\ UNCHANGED <<stakingVars, airdrops, distributions>>
    BY <1>1 DEF award_create
  <2>2. awards' \in [DOMAIN awards' -> V]
    BY <1>0, <1>g, <2>1, OneAccount
  <2> QED BY <1>0, <1>f, <2>1, <2>2
<1>2. ASSUME PoolExists, NEW w \in DOMAIN awards, award_release(w)
      PROVE  RewardsInv' /\ ValueKept
  <2> DEFINE t == awards[w]
  <2>1. /\ CanDistribute(t) /\ t.vault >= ToDistribute(t) /\ AddStake(w[1], ToDistribute(t))
        /\ awards' = [awards EXCEPT ![w] = Distribute(t)]
        /\ UNCHANGED <<others, airdrops, distributions>>
    BY <1>2 DEF award_release
  <2>2. t \in V
    BY <1>0
  <2> HIDE DEF t
  <2>3. Distribute(t) \in V /\ ToDistribute(t) \in Nat
    BY <1>r, <2>1, <2>2
  <2>4. awards' \in [DOMAIN awards' -> V]
    BY <1>0, <2>1, <2>3, OneAccount
  <2>5. StakingInv' /\ ValueKept
    BY <1>2, <2>1, <2>3, AddStakeStep DEF others, RewardsInv
  <2>6. RewardAccounts'
    BY <1>0, <1>a, <2>1, <2>4 DEF others
  <2> QED BY <2>5, <2>6 DEF RewardsInv
<1>3. ASSUME NEW w \in DOMAIN awards, award_close(w) \/ award_revoke(w)
      PROVE  RewardsInv' /\ ValueKept
  <2>1. awards' = Drop(awards, w) /\ UNCHANGED <<stakingVars, airdrops, distributions>>
    BY <1>3 DEF award_close, award_revoke
  <2>2. awards[w] \in V
    BY <1>0
  <2>3. awards' \in [DOMAIN awards' -> V]
    BY <1>0, <2>1, <2>2, OneAccount
  <2> QED BY <1>0, <1>f, <2>1, <2>3
<1>4. ASSUME NEW d \in Distributions, NEW g \in Grants, distribution_create(d, g)
      PROVE  RewardsInv' /\ ValueKept
  <2>1. /\ distributions' = Put(distributions, d, TokenDistribution(g))
        /\ UNCHANGED <<stakingVars, airdrops, awards>>
    BY <1>4 DEF distribution_create
  <2>2. distributions' \in [DOMAIN distributions' -> V]
    BY <1>0, <1>g, <2>1, OneAccount
  <2> QED BY <1>0, <1>f, <2>1, <2>2
<1>5. ASSUME NEW d \in DOMAIN distributions, distribution_release(d)
      PROVE  RewardsInv' /\ ValueKept
  <2> DEFINE t == distributions[d]
  <2>1. /\ CanDistribute(t) /\ t.vault >= ToDistribute(t)
        /\ distributions' = [distributions EXCEPT ![d] = Distribute(t)]
        /\ UNCHANGED <<stakingVars, airdrops, awards>>
    BY <1>5 DEF distribution_release
  <2>2. t \in V
    BY <1>0
  <2> HIDE DEF t
  <2>3. Distribute(t) \in V
    BY <1>r, <2>1, <2>2
  <2>4. distributions' \in [DOMAIN distributions' -> V]
    BY <1>0, <2>1, <2>3, OneAccount
  <2> QED BY <1>0, <1>f, <2>1, <2>4
<1>6. ASSUME NEW d \in DOMAIN distributions, distribution_close(d)
      PROVE  RewardsInv' /\ ValueKept
  <2>1. distributions' = Drop(distributions, d) /\ UNCHANGED <<stakingVars, airdrops, awards>>
    BY <1>6 DEF distribution_close
  <2>2. distributions[d] \in V
    BY <1>0
  <2>3. distributions' \in [DOMAIN distributions' -> V]
    BY <1>0, <2>1, <2>2, OneAccount
  <2> QED BY <1>0, <1>f, <2>1, <2>3
<1> QED BY <1>1, <1>2, <1>3, <1>4, <1>5, <1>6 DEF VestingNext

-----------------------------------------------------------------------------
(* The theorems *)

\* Nothing is staked or promised at the start.
LEMMA RewardsInit == Init => RewardsInv
<1> SUFFICES ASSUME Init PROVE RewardsInv
  OBVIOUS
<1>1. /\ pool = <<>> /\ vault = 0 /\ stakes = <<>> /\ weights = <<>> /\ unbondings = <<>>
      /\ votes = [u \in Users |-> 0] /\ clock = 0
      /\ airdrops = <<>> /\ awards = <<>> /\ distributions = <<>>
  BY DEF Init, StakingInit
<1>2. DOMAIN <<>> = {} /\ IsFiniteSet({})
  BY FS_EmptySet
<1>3. \A S : <<>> \in [DOMAIN <<>> -> S]
  BY <1>2
<1>4. StakingTypeOK
  <2>1. stakes \in [DOMAIN stakes -> StakeAccount] /\ unbondings \in [DOMAIN unbondings -> UnbondingAccount]
        /\ weights \in [DOMAIN stakes -> Nat]
    BY <1>1, <1>3
  <2>2. votes \in [Users -> Nat] /\ clock \in Nat /\ vault \in Nat
    BY <1>1
  <2> QED BY <1>1, <1>2, <2>1, <2>2 DEF StakingTypeOK
<1>5. NoPoolYet /\ PoolAgrees
  BY <1>1, <1>2 DEF NoPoolYet, PoolAgrees, PoolExists
<1>6. UnbondingIsOwned
  <2>1. \A u : UnbondingsOf(u) = {}
    BY <1>1, <1>2 DEF UnbondingsOf
  <2>2. SumOver(UnbondingShares, {}) = 0
    BY SumEmpty
  <2> QED BY <1>1, <1>2, <2>1, <2>2 DEF UnbondingIsOwned
<1>7. VotesAreBacked
  BY <1>1 DEF VotesAreBacked
<1>8. RewardAccounts
  BY <1>1, <1>3 DEF RewardAccounts
<1> QED BY <1>4, <1>5, <1>6, <1>7, <1>8 DEF RewardsInv, StakingInv

\* Every step keeps the invariant; all but the authority's withdrawal keep the value of shares.
LEMMA RewardsStep ==
  RewardsInv /\ [Next]_vars =>
    /\ RewardsInv'
    /\ ValueKept \/ \E a \in Stakes : withdraw_bonded(a)
<1> SUFFICES ASSUME RewardsInv, [Next]_vars
             PROVE  RewardsInv' /\ (ValueKept \/ \E a \in Stakes : withdraw_bonded(a))
  OBVIOUS
<1>1. CASE StakingNext /\ UNCHANGED <<airdrops, awards, distributions>>
  BY <1>1, StakingStep, StakingKeepsRewards DEF RewardsInv
<1>2. CASE AirdropNext
  BY <1>2, AirdropStep
<1>3. CASE VestingNext
  BY <1>3, VestingStep
<1>4. CASE UNCHANGED vars
  <2>1. UNCHANGED stakingVars /\ UNCHANGED <<airdrops, awards, distributions, clock>>
    BY <1>4 DEF vars, stakingVars
  <2>2. RewardAccounts'
    <3>1. Vested(clock)' = Vested(clock) /\ CoveredAirdrops' = CoveredAirdrops
      BY <2>1 DEF Vested, CoveredAirdrops
    <3> QED BY <2>1, <3>1 DEF RewardsInv, RewardAccounts
  <2> QED BY <2>1, <2>2, RewardFrame
<1> QED BY <1>1, <1>2, <1>3, <1>4 DEF Next

\* In every reachable state of staking and rewards the invariant holds: every account has
\* its type, stake accounts belong to a pool, and the sums of shares agree for each user.
THEOREM RewardsInvAlways == Spec => []RewardsInv
<1>1. RewardsInv /\ [Next]_vars => RewardsInv'
  BY RewardsStep
<1> QED BY <1>1, RewardsInit, PTL DEF Spec

\* Whatever the order of stakes, rewards, unbondings, cancellations, donations and
\* withdrawals, with rounding: the pool's tokens are in the vault, and the shares of the
\* accounts are the shares of the pools.
THEOREM SharesAndTokensAlwaysAgree == Spec => []SharesAndTokensAgree
<1>1. RewardsInv => SharesAndTokensAgree
  <2> SUFFICES ASSUME RewardsInv, PoolExists PROVE SharesAndTokensAgree
    BY DEF SharesAndTokensAgree
  <2>1. pool \in StakePool
    BY Updated DEF RewardsInv
  <2>2. pool.bonded.tokens >= 0 /\ pool.unbonding.tokens >= 0
    BY <2>1 DEF StakePool, TokenPool
  <2>3. \A u \in DOMAIN stakes : stakes[u].unbonding = SumOver(UnbondingShares, UnbondingsOf(u))
    BY DEF RewardsInv, StakingInv, StakingTypeOK, UnbondingIsOwned
  <2> QED BY <2>2, <2>3 DEF SharesAndTokensAgree, RewardsInv, StakingInv, PoolAgrees
<1> QED BY <1>1, RewardsInvAlways, PTL

\* A vote that governance counts is backed by as many bonded shares.
THEOREM VotesAlwaysBacked == Spec => []VotesAreBacked
<1>1. RewardsInv => VotesAreBacked
  BY DEF RewardsInv, StakingInv
<1> QED BY <1>1, RewardsInvAlways, PTL

\* No step of staking or rewards lowers the value of a share, but the withdrawal of bonded
\* tokens by the authority.
THEOREM StakeNeverDiluted == Spec => StakeNotDiluted
<1>1. ASSUME RewardsInv, [Next]_vars
      PROVE  [PoolExists /\ ~(\E a \in Stakes : withdraw_bonded(a)) =>
                ShareKept(pool.bonded, pool'.bonded)
                  /\ ShareKept(pool.unbonding, pool'.unbonding)]_stakingVars
  BY <1>1, RewardsStep DEF ValueKept
<1> QED BY <1>1, RewardsInvAlways, PTL DEF Spec, StakeNotDiluted

\* Recipient lists are sorted however they were uploaded, a finalized airdrop holds what is
\* left to claim, and awards and distributions have released what was due and hold the rest.
THEOREM RewardsAlwaysCovered == Spec => []RewardsCovered
<1>1. RewardsInv => RewardsCovered
  <2> SUFFICES ASSUME RewardsInv PROVE RewardsCovered
    OBVIOUS
  <2>1. \A d \in DOMAIN airdrops : airdrops[d] \in CoveredAirdrops
    BY DEF RewardsInv, RewardAccounts
  <2>2. \A t \in {awards[w] : w \in DOMAIN awards} \cup {distributions[d] : d \in DOMAIN distributions} :
          t \in Vested(clock)
    BY DEF RewardsInv, RewardAccounts
  <2>3. \A d \in DOMAIN airdrops :
          /\ IsSorted(airdrops[d].recipients)
          /\ airdrops[d].reward_total = Total(airdrops[d].recipients)
          /\ airdrops[d].finalized => airdrops[d].vault >= airdrops[d].reward_total
    BY <2>1 DEF CoveredAirdrops
  <2>4. \A t \in {awards[w] : w \in DOMAIN awards} \cup {distributions[d] : d \in DOMAIN distributions} :
          VestsBy(t, clock)
    BY <2>2 DEF Vested
  <2> QED BY <2>3, <2>4 DEF RewardsCovered, VestsBy
<1> QED BY <1>1, RewardsInvAlways, PTL
=============================================================================
