CONSTANTS
  MaxWorkers = 4
  MaxRange = 5
  SemLimit = 2
  HartLists <- MCHartLists
SPECIFICATION FairSpec
INVARIANTS
  HelpersOnlyRunInsideCall
  NoHelperOutlivesPool
PROPERTIES
  ImplementsParallelFor
  CallsReturn
  CreateAndDestroyFinish
