\* Two fields fill the state; a third takes the place of one of them.
CONSTANTS
    Fields <- ThreeFields
    Values = {on}
    MaxFields = 2
    MaxPublished = 3
SPECIFICATION Spec
CHECK_DEADLOCK FALSE
INVARIANTS
    AppliesToItsBase
