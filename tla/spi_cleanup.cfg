\* Two concurrent calls; the TEE has room for one session and three blocks,
\* so that each call can use up what the other needs, and may fail anyway.
SPECIFICATION FairSpec
CONSTANTS
    Calls = {c1, c2}
    Uids = {"system", "other"}
    CardAnswers <- Answers
    BufferLen = 100
    TeecErrors <- TwoErrors
    TaErrors = {5}
    MaxContexts = 2
    MaxSessions = 1
    MaxBlocks = 3
    TeeFaults = TRUE
INVARIANTS
    NothingLeaked
    LegalMeansAnswered
PROPERTIES
    FinalizeAfterRelease
    ExchangeImplemented
