\* Of the clause "own sell not", the quote "own not sell" is not reported.
SPECIFICATION QuoteSpec
CONSTANTS
    NoWord = NoWord
    not = not
    may = may
    own = own
    sell = sell
    Words <- ThreeWords
    Polarity <- OneForce
    Slack = 1
    MaxWords = 3
INVARIANTS
    EveryForceChangeReported
CHECK_DEADLOCK FALSE
