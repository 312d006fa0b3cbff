SPECIFICATION Spec
CONSTANTS
  Threads = {main, other}
  Main = main
  Nobody = nobody
  PothosDir = pothosDir
  MaxMakes = 2
  first = first
  second = second
  third = third
  bad = bad
  doc1 = doc1
  doc2 = doc2
  block1 = block1
  block2 = block2
  dir1 = dir1
  dir2 = dir2
  Files = {first, second, third, bad}
  Entries = {doc1, doc2, block1, block2}
  Docs <- MCDocs
  Factories <- MCFactories
  ModulePaths <- MCModulePaths
  WellFormed <- MCWellFormed
  Refused = {doc2}
  Dirs = {pothosDir, dir1, dir2}
  MaxLoads = 2
CHECK_DEADLOCK FALSE
INVARIANTS TypeOK RemovalLeavesNothing DeinitBeforeFinalise
  EntriesAccounted PathGrowthBounded
PROPERTIES LeftoversStay UnreadyOnlyIfRaced DiesOnlyAfterRemoval FactoriesReturn
