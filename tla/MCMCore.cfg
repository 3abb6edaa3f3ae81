CONSTANTS
  Blocks <- AllBlocks
  Confs <- AllConfs
  MaxTickers = 4
SPECIFICATION MCSpec
INVARIANTS TypeOK JoinBarrier NoSharedTicker EndDayConcurrency ConfiguredOrder
PROPERTIES EnvStable ImplementsLifecycle EveryMarketDay MarketDayOnce Termination
