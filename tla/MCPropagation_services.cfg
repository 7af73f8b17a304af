\* Two services that are started, stopped and started again; connections break.
SPECIFICATION FairSpec
CONSTANTS
  Instances = {i1, i2}
  production = production
  Env = {production}
  Key = {dark_mode, rate_limit}
  MaxPublished = 2
  MaxStarts = 2
  MaxFaults = 1
\* All services may be stopped for good.
CHECK_DEADLOCK FALSE
INVARIANTS
  TypeOK
  QuietOnceStopped
  HearsInOrder
PROPERTIES
  HearsWhatIsSent
  StopReturns
  StopIsNear
