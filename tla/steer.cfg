CONSTANTS
  Ifaces = {eth8, eth9}
  CpuLists <- ListsChecked
  Possible = 3
  MaxCpus = 3
  Hashes <- HashesChecked
  Objects = {o1, o2, o3}
  NoObject = NoObject
SPECIFICATION SSpec
CHECK_DEADLOCK TRUE
INVARIANTS AttachedSteers FailureLeavesNothing DetachCleans
PROPERTY SessionOnOneCpu
SYMMETRY Symmetric
