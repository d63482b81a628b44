\* A header, an opener, the same header again: the page break ends the clause.
SPECIFICATION Spec
CONSTANTS
    None = None
    murabahah = murabahah
    sale = sale
    on_item_2 = on_item_2
    Standards <- TwoStandards
    Titles <- ThreeTitles
    Plausible <- TwoPlausible
    Paths <- TwoPaths
    Lines <- TwelveLines
    Selections <- SomeSelections
    MaxLines = 4
    MinClauseChars = 3
    MinClauses = 1
    MaxChunk = 6
    Overlap = 2
PROPERTIES
    RunningHeadersHarmless
CHECK_DEADLOCK FALSE
