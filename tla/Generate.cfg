SPECIFICATION Spec
CONSTANTS
  Tokens = {1, 2, 3}
  Eog = {3}
  Prompted = {1}
  PromptLen = 3
  NPredict = 5
  NCtx = 7
  Batch = 2
  UBatch = 1
  Keep = 1
  KMin = 1
  KMax = 2
  CacheK = 1
  Folds = {0, 3}
  RsSeqs = {0, 1}
INVARIANTS Lossless ContextMatches TakesBack WithinBounds
PROPERTIES Terminates
CHECK_DEADLOCK FALSE
