SPECIFICATION CondenseSpec
CONSTANTS
  Builders <- LargeBuilders
  MaxBuilders = 4
  HEADER_SIZE = 2
  ACCOUNT_SIZE = 2
  MAX_TX_SIZE = 20
PROPERTY CondenseAnswers
