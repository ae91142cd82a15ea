\* One market, whose book is asked for again and refused.
CONSTANTS
  MarketIds = {b1}
  MaxRequests = 2
  Window = 2
  StaleAfter = 1
  RefreshMin = 1
  IdleAfter = 4
  MaxChanges = 1
  MaxFrames = 1
  MaxFeedTroubles = 1
  FeedTroubles = {"refused"}
SPECIFICATION FeedSpec
CHECK_DEADLOCK FALSE
INVARIANTS LiveVouches
