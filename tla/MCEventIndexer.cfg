CONSTANTS
  Poller = {p1, p2}
  Airdrop = {a1}
  EventNames = {"airdrop_created", "recipient_added", "token_claimed", "airdrop_expired", "other"}
  PollLimit = 2
  None = None
  MaxLedger = 3
  LedgerCap = 1
  MaxLag = 1
  MaxFaults = 1
SPECIFICATION FairSpec
INVARIANTS NoEventSkipped ProjectionsReflectCursor
PROPERTY CatchesUp
