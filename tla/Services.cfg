SPECIFICATION Spec
CONSTANTS
  t1 = t1
  t2 = t2
  r1 = r1
  r2 = r2
  u1 = u1
  u2 = u2
  u3 = u3
  a1 = a1
  a2 = a2
  c1 = c1
  c2 = c2
  v1 = v1
  v2 = v2
  market = market
  f1 = f1
  f2 = f2
  h1 = h1
  h2 = h2
  Voters <- MCVoters
  Targets <- MCTargets
  Types <- MCTypes
  Weight = 100
  TotalPower = 600
  VotingPeriod = 2
  PauseDelay = 1
  AllocationDelay = 3
  Delay = 2
  MaxProposals = 2
  MaxSequence = 4
  Feeds <- MCFeeds
  QuotePrices <- MCQuotePrices
  BuiltInPrices <- MCBuiltInPrices
  MaxStaleness = 1
  MaxFeeds = 3
  Holders <- MCHolders
  FaucetLimit = 1
  MaxAmount = 2
  MaxSupply = 2
  Titles <- MCTitles
  Seeds <- MCSeeds
  MaxId = 3
  MaxVotes = 2
  MaxLoads = 2
  MaxFailures = 1
  MaxRestarts = 1
  FeedPrices <- MCFeedPrices
  SeedPrices <- MCSeedPrices
  DefaultPrice = 1050
  Requests <- MCRequests
  MaxMoves = 1
  MaxPublished = 2
  Users <- MCUsers
  MaxAsks = 2
  MaxMishaps = 2
  Auctions <- MCAuctions
  Cycles <- MCCycles
  MaxCollateral = 2
  MaxTroubles = 1
CONSTRAINT MCConstraint
SYMMETRY Symmetry
INVARIANT TypeOK
INVARIANT ExecutedWasDue
INVARIANT ReadsAnswer
INVARIANT TokensConserved
INVARIANT VotesCount
INVARIANT ProposalsKept
INVARIANT PriceDrift
INVARIANT FaucetPays
INVARIANT FilledOnce
CHECK_DEADLOCK FALSE
