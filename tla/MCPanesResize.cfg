CONSTANT Sizes <- MCFewSizes
SPECIFICATION Spec
INVARIANT ResizeReachesLayout
CHECK_DEADLOCK FALSE
