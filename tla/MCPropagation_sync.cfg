\* One service whose connection breaks once.
SPECIFICATION FairSpec
CONSTANTS
  Instances = {i1}
  production = production
  Env = {production}
  Key = {dark_mode}
  MaxPublished = 1
  MaxStarts = 1
  MaxFaults = 1
\* The service may be stopped for good.
CHECK_DEADLOCK FALSE
PROPERTIES
  SubscribedAgain
