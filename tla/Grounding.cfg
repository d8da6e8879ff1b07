CONSTANTS
    Tags = {"div", "svg", "li"}
    DropTags = {"svg"}
    MaxDepth = 4
    Words = {"w1", "w2"}
    MaxCandidates = 3
    TopK = 2
    Cap = 1
    JaccardNum = 1
    JaccardDen = 2
    MinQuote = 1
    MaxQuote = 2
    Jobs = {"search", "rerank", "extract", "cite"}
    AllowedEngines = {"google"}
    MinResults = 2
    MaxItems = 2
    Sites = {"s1", "s2", "s3"}
    LargeSites = {"s1"}
    MaxResults = 4
    Alphabet = {"a", "A", "aacute", "accent", "space"}
    MaxText = 4
    MaxQuoted = 2
    Claims = {c1, c2}
SPECIFICATION Spec
INVARIANTS
    SuppressionExact
    SearchComplete
    RerankExact
    CitationsSliced
    CitationsClassified
CHECK_DEADLOCK FALSE
