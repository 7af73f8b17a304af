\* One user asks, editors change up to two rules and the switch.
SPECIFICATION Spec
CONSTANTS
  NotANumber = NotANumber
  Value <- MCValue
  Number <- MCNumber
  Contains <- MCContains
  Hash <- MCHash
  Contexts <- MCContexts
  TargetingRule <- MCRules
  MaxRules = 2
INVARIANTS
  TypeOK
  RolloutBounds
  MoreContextKeepsMatch
PROPERTIES
  StaysIn
