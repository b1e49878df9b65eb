SPECIFICATION Spec
CONSTANTS
  Assets <- MCAssets
  Markets <- MCMarkets
  Feeds <- MCFeeds
  EnvFiles <- MCEnvFiles
  Present <- MCPresent
  Plans <- MCPlans
  MaxFaults = 2
INVARIANT EnvNamesASetUpSystem
INVARIANT NothingPaidTwice
PROPERTY TestnetGetsThrough
CHECK_DEADLOCK FALSE
