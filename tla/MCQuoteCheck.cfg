\* Clauses of up to five words, every way in which words can recur among them.
SPECIFICATION QuoteSpec
CONSTANTS
    NoWord = NoWord
    not = not
    may = may
    own = own
    sell = sell
    Words <- FourWords
    Polarity <- TwoForce
    Slack = 1
    MaxWords = 5
INVARIANTS
    VerbatimAccepted
    ForceChangeReported
\* The quote is written once.
CHECK_DEADLOCK FALSE
