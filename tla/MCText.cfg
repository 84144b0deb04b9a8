SPECIFICATION Spec
CONSTANTS
    Contents <- MCContents
    Plain <- MCPlain
    Width = 4
INVARIANTS TypeOK LinesFit NothingLost
PROPERTIES HiddenStaysHidden Terminates
CHECK_DEADLOCK FALSE
