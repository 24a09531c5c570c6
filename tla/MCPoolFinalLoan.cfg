SPECIFICATION SpecPool
CONSTANTS
  Users = {u1, u2}
  ONE = 20
  Configs <- LendingOnly
  Week = 1
  Year = 1
  Terms <- MCTerms
  Changes <- MCChanges
  MaxPoolTokens = 3
  MaxLoanNotes = 4
  MaxTime = 1
INVARIANTS FinalLoanRepayable
SYMMETRY UserSymmetry
