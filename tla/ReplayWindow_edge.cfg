SPECIFICATION WindowSpec
CONSTANTS
    Words = 3
    WordBits = 2
    MaxCounter = 9
INVARIANT NeverAcceptedTwice
