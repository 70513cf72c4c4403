SPECIFICATION Spec
CONSTANTS
    Forms <- AllForms
    Texts <- AllTexts
    Ticks <- Boxes
INVARIANTS SentDataIsDeclared RefusalIsExplained FailedFieldsAreWatched MarksAgree
