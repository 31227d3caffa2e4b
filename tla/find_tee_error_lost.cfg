\* The TEE fails with its own codes, which are large as a uint32_t.
SPECIFICATION Spec
CONSTANTS
    Calls = {c1, c2}
    Uids = {"system", "other"}
    CardAnswers <- Answers
    BufferLen = 100
    TeecErrors <- TwoErrors
    TaErrors = {5}
    MaxContexts = 2
    MaxSessions = 2
    MaxBlocks = 4
    TeeFaults = TRUE
INVARIANT NoErrorMeansAnswered
