SPECIFICATION QuerySpec
CONSTANTS
    Asked <- MCAsked
    Words <- MCWords
    Params <- MCParams
    Height <- MCHeight
    MaxText = 5
INVARIANTS
    SelectsWhatItSays
    UnclosedRefused
CHECK_DEADLOCK FALSE
