\* Texts of up to five lines: a header, a stub, a clause over a page header, an
\* appendix.  A clause of two lines can be too long for one chunk.
SPECIFICATION Spec
CONSTANTS
    None = None
    murabahah = murabahah
    sale = sale
    on_item_2 = on_item_2
    Standards <- TwoStandards
    Titles <- ThreeTitles
    Plausible <- TwoPlausible
    Paths <- TwoPaths
    Lines <- TwelveLines
    Selections <- SomeSelections
    MaxLines = 5
    MinClauseChars = 3
    MinClauses = 1
    MaxChunk = 6
    Overlap = 2
INVARIANTS
    EntryIsOneRun
    LongestKept
    TitleByMajority
    CitationsResolve
    NothingLostBetweenParts
    PartsFit
\* The command ends.
CHECK_DEADLOCK FALSE
