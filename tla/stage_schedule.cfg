SPECIFICATION StageSpec
SYMMETRY Symmetric
CONSTANTS
  x = x
  y = y
  rx = rx
  ry = ry
  i = i
  j = j
  ri = ri
  rj = rj
  OutermostName = outermost
  Definitions <- All
  RVarNames = {rx, ry, ri, rj}
  FreshNames = {i, j, ri, rj}
  Factors = {2, 3}
  Tails = {"Auto", "RoundUp", "GuardWithIf", "ShiftInwards"}
  ForTypes = {"serial", "parallel"}
  Enabled = {"split", "fuse", "rename", "reorder", "mark", "split and mark", "allow", "tile", "gpu single thread", "rfactor"}
  Overlooked = {}
INVARIANTS LoopsAreLeaves EveryPointComputed NothingRecomputed StaysInDomain ReductionOrderKept PartialsMerged
CHECK_DEADLOCK FALSE
