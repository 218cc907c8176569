\* Every frame of up to four candles of eleven kinds, and three ways to go on.
SPECIFICATION Spec
CONSTANTS
    Frames <- MCFrames
    Tails <- MCTails
    Rules <- MCRules
    NoPrice = NoPrice
    NoPosition = NoPosition
    MaxCandles = 4
INVARIANT NoLookahead
INVARIANT ExitsAtFirstTouch
INVARIANT SignalsAreTaken
CHECK_DEADLOCK FALSE
