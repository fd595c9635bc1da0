SPECIFICATION FairSpec
CONSTANTS
  Configs <- MCConfigs
  Reviewers = 2
  Nodes = 2
  MaxContinuations = 2
  LossyGoals <- MCLossy
INVARIANTS
  DeliveredIsFounded
  GoalSettled
PROPERTIES
  PipelineEnds
