SPECIFICATION FairSpec
CONSTANTS
  Params <- MCParams
  UserLists <- MCLists
  FoundLists <- MCGroupFound
  Host <- MCHost
INVARIANTS SharesPartitionList SharesBalanced HostsExclusive NothingForgotten OptimizedIsFilter
PROPERTIES SharesStable Completes ImplementsUcdbMerge
