SPECIFICATION FairSpec
CONSTANTS
  Users = {1, 2}
  INIT_TOKEN_SCALE = 1
  INIT_SHARE_SCALE = 2
  UnbondPeriod = 1
  Seeds = {1}
  Stakes = {1}
  Donations = {1}
  MaxVault = 2
  MaxShares = 3
  MaxDiluted = 4
  MaxTime = 2
  Airdrops = {drop}
  Uploads <- MCUploads
  Expiries = {1}
  Funds = {2}
  MaxRecipients = 2
  Grants <- MCGrants
  Awards <- MCAwards
  Distributions = {dist}
  MaxRewards = 1
  drop = drop
  dist = dist
INVARIANTS
  SharesAndTokensAgree
  VotesAreBacked
  RewardsCovered
PROPERTIES
  StakeNotDiluted
  DistributionPaysOut
CHECK_DEADLOCK FALSE
