SPECIFICATION Spec
CONSTANTS
    MaxLength = 4
    MaxPasses = 2
    Texts <- MCTexts
INVARIANTS PassIsClean NumbersAreHeard
PROPERTY SecondPassChangesNothing
CHECK_DEADLOCK FALSE
