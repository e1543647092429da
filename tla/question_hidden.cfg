SPECIFICATION Spec
CONSTANTS
    Titles = {"scope", "limits"}
    MaxItems = 4
INVARIANT
    NewQuestionsShow
CHECK_DEADLOCK FALSE
