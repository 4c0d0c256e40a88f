SPECIFICATION Spec
CONSTANTS
  NoList = NoList
  Writers = {w1, w2}
  Documents <- MCDocuments
  Version = 1
  MaxControls = 2
  Trees <- MCTrees
  MaxSaves = 3
INVARIANTS LoadedWasSaved SavedIsLoadable MemoryAccounted
