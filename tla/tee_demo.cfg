\* Up to three options, answers that are empty, a status word, full ones, and
\* ones that overrun resp.
\* The program stops.
SPECIFICATION FairSpec
CONSTANTS
    MaxOptions = 3
    BIG_INT_LENGTH = 256
    AnswerLens = {0, 2, 9, 120}
    MaxChannels = 2
INVARIANTS
    GivenBack
    Toggled
    ShortBufferOnlyAtStart
PROPERTIES
    Ends
CHECK_DEADLOCK FALSE
