SPECIFICATION Spec
CONSTANTS
    NrPages = 16
    MaxOrder = 5
    Pools <- MCPools
    Meta = "meta"
    Lpages <- MCLpages
    Objs <- MCObjs
    SpanInfoSized = {"c"}
    LargeSizes = {5}
    MaxLarge = 1
    MaxSpans = 2
    HPage = 8
    QSize = 2
    IncLimit = 1
INVARIANTS
    PagesAccounted
    CheckIsExact
    SpansListed
    QueuedSpansStay
    DescriptorsHeld
