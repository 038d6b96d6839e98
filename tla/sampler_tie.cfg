SPECIFICATION Spec
CONSTANTS
  Base <- KBase
  Shapes <- KShapes
  MaxOps = 3
  Sources <- KSources
  PageSize = 2
  Calls <- KCalls
  MaxCalls = 2
  NoCall = NoCall
  Garbage = Garbage
  Zero = Zero
  Layers = 2
  MaxSeq = 3
  Inputs <- KInputs
  Failed = Failed
  Threads = {t1, t2}
  Accelerators = 2
  MaxRuntimes = 4
  MaxStorages = 2
  Batches <- KTieBatches
  BlockDim = 4
  Grain = 4
  One = 2
  Exp <- KExp
  MaxFloat = 5000
  Infinite = Infinite
  NotANumber = NotANumber
INVARIANT TopKTopPHonoured
CHECK_DEADLOCK FALSE
