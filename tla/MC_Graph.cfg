\* The passes' tools, one part at a time.
SPECIFICATION MCSpec
CHECK_DEADLOCK FALSE
INVARIANTS
  IndicesTrue
  GraphsCompared
  ViewsShowElements
  ConversionsKeep
  KernelsCompute
