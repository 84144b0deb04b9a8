CONSTANT Sizes <- MCSizes
SPECIFICATION Spec
INVARIANTS TypeOK LayoutFollows PanesFit KeysAsDocumented
PROPERTY BackDescends
CHECK_DEADLOCK FALSE
