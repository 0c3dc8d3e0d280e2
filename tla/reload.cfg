SPECIFICATION Spec
CONSTANTS
  t1 = t1
  t2 = t2
  host = host
  nobody = nobody
  Threads <- MCThreads
  Host = host
  NoOwner = nobody
  MaxWrites = 3
  MaxGen = 3
  Leftover <- MCLeftover
  QueueBlocks = FALSE
INVARIANTS
  TypeOK
  NoUseAfterFree
  OneModulePerThread
  LiveModuleUsable
  NoModuleLeak
  ReloadOkNotStale
