CONSTANTS
    Word = {word0, word1, word2}
    Zero = word0
    NoWord = NoWord
    C_DEPTH = 3
    DEPTH <- MCDepth
    Idle = Idle
SPECIFICATION PathSpec
INVARIANTS OutputsAsFed FramesWellFormed
PROPERTIES OfferStable ImplementsQueue PathsDrain
CHECK_DEADLOCK FALSE
