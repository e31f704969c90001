SPECIFICATION Spec
CONSTANTS
    NULL = NULL
    NaN = NaN
    Blank = Blank
    likely = likely  unlikely = unlikely
    empty = empty  split = split
    Articles = {likely, unlikely, empty, split}
    Paragraphs <- MCParagraphs
    Title <- MCTitle
    Content <- MCContent
    Probability <- MCProbability
    EnvValues = {NULL, NaN, 0, 30, 40, 60, 100, 150}
INVARIANTS
    PaidOnlyForLikelyArticles
    ReclassifyKeepsAccepted
CHECK_DEADLOCK FALSE
