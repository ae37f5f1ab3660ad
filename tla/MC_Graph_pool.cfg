\* A Conv, and a Pool that something other than a Conv reads.
SPECIFICATION PoolSpec
CHECK_DEADLOCK FALSE
INVARIANT NeverPanics
