SPECIFICATION Spec
CONSTANTS
    Scenarios <- AllPairs
    Shapes <- Orders
    Openings <- Begin3
    Inputs <- Contents
    MaxCount = 4
    MaxAnswers = 2
INVARIANTS DeltasFindTheirBlock AnswerIntact StreamedAsFolded RequestIntact
PROPERTIES IsAnAnswer
CHECK_DEADLOCK FALSE
