CONSTANTS
  Askers = {c1, c2}
  TTL = 3
  Retry = 1
  MaxFailures = 3
  YfPause = 2
  MaxVersion = 2
  MaxEvictions = 1
SPECIFICATION FeedsSpec
PROPERTIES
  KnownGoodKept
  NeverOlder
  OneRequestPerTTL
  FeedCatchesUp
