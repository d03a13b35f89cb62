\* Ten small components, one per behaviour.
SPECIFICATION HelpersSpec
CONSTANTS
  t1 = t1
  t2 = t2
  t3 = t3
  t4 = t4
  v1 = v1
  v2 = v2
  i1 = i1
  i2 = i2
  i3 = i3
  p1 = p1
  p2 = p2
  p3 = p3
  Empty = Empty
  Threads = {t1, t2, t3}
  Values <- TwoValues
  Options <- Callers
  MaxWait = 2
  Models = {i1, i2}
  Savers = {p1, p2}
  Contents <- TwoValues
  Nothing = Nothing
  MaxCalls = 3
  MaxInterrupted = 1
  Calls <- EveryCall
  Permanent = TRUE
  FaultKinds <- AllFaults
  MaxFaults = 2
  Users = {t1, t2, t3, t4}
  Instances = {i1, i2, i3}
  WaitingInstances = {i2}
  InstanceOf <- WithAndDecorated
  Processes = {p1, p2, p3}
  Creators = {p1, p2}
  Workers = {t1, t2}
  ShardNumbers = {0, 1}
  NoShard = Empty
  RowNumbers = {1, 2, 3, 4, 5, 6}
  FirstRows = {2, 3, 5, 6}
  BatchSize = 2
  MaxRowChanges = 2
  Programs = {p1, p2}
  Emulators <- TwoEmulators
  Unwaited = {"tasks"}
  PortOffsets = {0, 1}
  NoProgram = Empty
  Ids <- SomeKeys
  Wanted = {1, 2, 3, 4}
  NoBound = Empty
  MaxTableChanges = 1
\* A component that has done its work leaves nothing to do.
CHECK_DEADLOCK FALSE
INVARIANTS
  QueuedOnlyAfterCommit NoEntityLeft ExcludesUnlessStolen NothingLeftBehind
  SecretsAgree OnlyTasksEnter IndexIsOwn BatchesSeeEverything AnsweredByOwn
  EveryRowHasItsShard SearchFindsStored
PROPERTIES
  CommittedCallRuns ThievesGetIn ImplementsMutex RunnerDrains StartEnds
