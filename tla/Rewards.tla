------------------------------- MODULE Rewards -------------------------------
(***************************************************************************)
(* The rewards program (programs/rewards) with the staking program it      *)
(* calls: airdrops and awards are paid out as stake, through add_stake,    *)
(* distributions as tokens.  Awards and distributions vest linearly.       *)
(*                                                                         *)
(* A recipient list is uploaded in parts and closed by finalize; the token *)
(* program closes only an empty account.                                   *)
(***************************************************************************)
EXTENDS Staking, Sequences

CONSTANTS
  Airdrops,         \* accounts for an airdrop
  Uploads,          \* parts of a recipient list: start index and entries
  Expiries,         \* expiration times asked for
  Funds,            \* amounts sent to a reward vault
  MaxRecipients,
  Grants,           \* schedules asked for: amount, begin, end
  Awards,           \* awards, by stake account and seed
  Distributions,    \* seeds of distributions
  MaxRewards        \* bound: airdrops, awards and distributions at a time

ASSUME RewardsAssumption ==
  /\ Expiries \subseteq Nat /\ Funds \subseteq Nat /\ MaxRecipients \in Nat /\ MaxRewards \in Nat
  /\ Grants \subseteq Nat \X Nat \X Nat
  /\ Awards \subseteq Users \X Seeds
  /\ Uploads \subseteq Nat \X Seq([recipient : Users, amount : Nat])

VARIABLES
  airdrops,         \* the Airdrop accounts with the tokens of their vaults
  awards,           \* the Award accounts with the tokens of their vaults
  distributions     \* the Distribution accounts with the tokens of their vaults

vars == <<stakingVars, airdrops, awards, distributions>>
others == <<auth, unbondings, votes, clock>>

Room == Cardinality(DOMAIN airdrops) + Cardinality(DOMAIN awards) + Cardinality(DOMAIN distributions) < MaxRewards

-----------------------------------------------------------------------------
(* Airdrops *)

airdrop_create(d, expire_at) ==
  /\ Room /\ d \notin DOMAIN airdrops
  /\ airdrops' = Put(airdrops, d, [recipients |-> <<>>, reward_total |-> 0, finalized |-> FALSE,
                                   expire_at |-> expire_at, vault |-> 0])
  /\ UNCHANGED <<stakingVars, awards, distributions>>

Total(entries) == SumOver([i \in DOMAIN entries |-> entries[i].amount], DOMAIN entries)
IsSorted(entries) ==
  \A i \in 1 .. Len(entries) - 1 : entries[i].recipient <= entries[i + 1].recipient

\* Slip: the order is checked within the part only.
SortedFrom_part(all, start) == IsSorted(SubSeq(all, start + 1, Len(all)))

\* the order is checked from the last entry of the part before
SortedFrom(all, start) ==
  IsSorted(SubSeq(all, IF start = 0 THEN 1 ELSE start, Len(all)))

airdrop_add_recipients(d, start_index, entries) ==
  LET a == airdrops[d]
      all == a.recipients \o entries
  IN  /\ Len(a.recipients) = start_index
      /\ ~a.finalized
      /\ Len(all) <= MaxRecipients
      /\ SortedFrom(all, start_index)
      /\ airdrops' = [airdrops EXCEPT ![d].recipients = all, ![d].reward_total = @ + Total(entries)]
      /\ UNCHANGED <<stakingVars, awards, distributions>>

airdrop_finalize(d) ==
  /\ airdrops[d].vault >= airdrops[d].reward_total
  /\ airdrops' = [airdrops EXCEPT ![d].finalized = TRUE]
  /\ UNCHANGED <<stakingVars, awards, distributions>>

\* A binary search: any of the entries of the recipient.  The stake account
\* that is credited is the caller's choice.
airdrop_claim(d, recipient, i, u) ==
  LET a == airdrops[d]
      amount == a.recipients[i].amount
  IN  /\ a.expire_at > clock
      /\ a.finalized
      /\ a.recipients[i].recipient = recipient
      /\ a.vault >= amount
      /\ AddStake(u, amount)
      /\ airdrops' = [airdrops EXCEPT ![d] = [a EXCEPT !.recipients[i].amount = 0,
                                                       !.reward_total = @ - amount,
                                                       !.vault = @ - amount]]
      /\ UNCHANGED <<others, awards, distributions>>

airdrop_close(d) ==
  /\ airdrops[d].expire_at <= clock
  /\ airdrops' = Drop(airdrops, d)
  /\ UNCHANGED <<stakingVars, awards, distributions>>

\* a transfer to the reward vault, by anybody
fund_airdrop(d, a) ==
  /\ airdrops[d].vault + a <= MaxVault
  /\ airdrops' = [airdrops EXCEPT ![d].vault = @ + a]
  /\ UNCHANGED <<stakingVars, awards, distributions>>

-----------------------------------------------------------------------------
(* TokenDistribution *)

TokenDistribution(g) ==
  [target_amount |-> g[1], distributed |-> 0, begin_at |-> g[2], end_at |-> g[3], vault |-> g[1]]

Span(t) == Max({1, t.end_at - t.begin_at})

Remaining(t) == Max({0, t.end_at - clock})

distributed_amount(t) == t.target_amount - (Remaining(t) * t.target_amount) \div Span(t)

\* no checked subtraction fails: not before begin_at, and not with end before begin
CanDistribute(t) == t.end_at >= t.begin_at /\ distributed_amount(t) >= t.distributed

ToDistribute(t) == distributed_amount(t) - t.distributed

\* Slip: only the last release is remembered.
Distribute_last(t) == [t EXCEPT !.distributed = ToDistribute(t), !.vault = @ - ToDistribute(t)]

Distribute(t) == [t EXCEPT !.distributed = distributed_amount(t), !.vault = @ - ToDistribute(t)]

-----------------------------------------------------------------------------
(* Awards: vesting into a stake account *)

award_create(w, g) ==
  /\ Room /\ w \notin DOMAIN awards
  /\ awards' = Put(awards, w, TokenDistribution(g))
  /\ UNCHANGED <<stakingVars, airdrops, distributions>>

award_release(w) ==
  LET t == awards[w]
  IN  /\ CanDistribute(t) /\ t.vault >= ToDistribute(t)
      /\ AddStake(w[1], ToDistribute(t))
      /\ awards' = [awards EXCEPT ![w] = Distribute(t)]
      /\ UNCHANGED <<others, airdrops, distributions>>

award_close(w) ==
  /\ awards[w].end_at <= clock
  /\ awards[w].vault = 0
  /\ awards' = Drop(awards, w)
  /\ UNCHANGED <<stakingVars, airdrops, distributions>>

award_revoke(w) ==
  /\ awards' = Drop(awards, w)
  /\ UNCHANGED <<stakingVars, airdrops, distributions>>

-----------------------------------------------------------------------------
(* Distributions: vesting into a token account *)

distribution_create(d, g) ==
  /\ Room /\ d \notin DOMAIN distributions
  /\ distributions' = Put(distributions, d, TokenDistribution(g))
  /\ UNCHANGED <<stakingVars, airdrops, awards>>

distribution_release(d) ==
  LET t == distributions[d]
  IN  /\ CanDistribute(t) /\ t.vault >= ToDistribute(t)
      /\ distributions' = [distributions EXCEPT ![d] = Distribute(t)]
      /\ UNCHANGED <<stakingVars, airdrops, awards>>

distribution_close(d) ==
  /\ distributions[d].end_at <= clock
  /\ distributions[d].vault = 0
  /\ distributions' = Drop(distributions, d)
  /\ UNCHANGED <<stakingVars, airdrops, awards>>

-----------------------------------------------------------------------------
Init == StakingInit /\ airdrops = <<>> /\ awards = <<>> /\ distributions = <<>>

AirdropNext ==
  \/ \E d \in Airdrops, e \in Expiries : airdrop_create(d, e)
  \/ \E d \in DOMAIN airdrops :
       \/ \E p \in Uploads : airdrop_add_recipients(d, p[1], p[2])
       \/ airdrop_finalize(d)
       \/ PoolExists /\ \E i \in DOMAIN airdrops[d].recipients, r, u \in Users : airdrop_claim(d, r, i, u)
       \/ airdrop_close(d)
       \/ \E a \in Funds : fund_airdrop(d, a)

VestingNext ==
  \/ \E w \in Awards, g \in Grants : award_create(w, g)
  \/ \E w \in DOMAIN awards :
       (PoolExists /\ award_release(w)) \/ award_close(w) \/ award_revoke(w)
  \/ \E d \in Distributions, g \in Grants : distribution_create(d, g)
  \/ \E d \in DOMAIN distributions : distribution_release(d) \/ distribution_close(d)

Next == \/ StakingNext /\ UNCHANGED <<airdrops, awards, distributions>>
        \/ AirdropNext
        \/ VestingNext

Spec == Init /\ [][Next]_vars

release(d) == d \in DOMAIN distributions /\ distribution_release(d)

\* Time goes on, and somebody (anybody may) releases what has vested.
FairSpec ==
  /\ Spec
  /\ WF_vars(Tick /\ UNCHANGED <<airdrops, awards, distributions>>)
  /\ \A d \in Distributions : WF_vars(release(d))

-----------------------------------------------------------------------------
(* Properties *)

\* Nothing is promised that is not there: a recipient list is sorted as a whole,
\* however it was uploaded (the search for a claim relies on it), and a
\* finalized airdrop holds all that is left to claim.  An award or distribution
\* holds what it has not released, and has released no more than is due by the
\* clock, rounded up.
RewardsCovered ==
  /\ \A d \in DOMAIN airdrops :
       LET a == airdrops[d]
       IN  /\ IsSorted(a.recipients)
           /\ a.reward_total = Total(a.recipients)
           /\ a.finalized => a.vault >= a.reward_total
  /\ \A t \in {awards[w] : w \in DOMAIN awards} \cup {distributions[d] : d \in DOMAIN distributions} :
       /\ t.vault >= t.target_amount - t.distributed
       /\ t.distributed <= t.target_amount
       /\ t.distributed > 0 =>
            (t.distributed - 1) * (t.end_at - t.begin_at) < t.target_amount * (clock - t.begin_at)
             \/ t.end_at <= clock

\* A distribution whose end is not before its begin is paid out in full and
\* can then be closed: however often and whenever it was released before, the
\* steps add up to the whole amount.
DistributionPaysOut ==
  \A d \in Distributions :
    (d \in DOMAIN distributions /\ distributions[d].end_at \in distributions[d].begin_at .. MaxTime)
      ~> (d \notin DOMAIN distributions \/ distributions[d].vault = 0)
=============================================================================
