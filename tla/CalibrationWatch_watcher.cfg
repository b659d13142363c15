\* Two writes of the game, each with or without a campaign and a pair; two upsets.
CONSTANTS
  MaxWrites = 2
  MaxCampaigns = 2
  MaxPairs = 2
  MaxUpsets = 2
SPECIFICATION FairSpec
INVARIANTS JournalDeduplicated ReceiptMeansImport
PROPERTIES ReceiptsKept CatchesUp
CHECK_DEADLOCK FALSE
