SPECIFICATION Spec
CONSTANTS
    Scenarios <- AllPairs
    Shapes <- TextBetweenCalls
    Openings <- Begin3
    Inputs <- Contents
    MaxCount = 4
    MaxAnswers = 1
INVARIANTS DeltasFindTheirBlock
CHECK_DEADLOCK FALSE
