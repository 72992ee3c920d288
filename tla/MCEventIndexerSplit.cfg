CONSTANTS
  Poller = {p1}
  Airdrop = {a1}
  EventNames = {"airdrop_created", "recipient_added", "token_claimed", "airdrop_expired"}
  PollLimit = 2
  None = None
  MaxLedger = 2
  LedgerCap = 3
  MaxLag = 0
  MaxFaults = 0
SPECIFICATION Spec
INVARIANT NoEventSkipped
