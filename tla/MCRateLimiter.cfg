SPECIFICATION Spec
CONSTANTS
    c1 = c1
    c2 = c2
    p = p
    Caller <- CallerDef
    Proxy <- ProxyDef
    Paths <- PathsDef
    Forged <- ForgedDef
    Boot <- BootDef
    Limit = 2
    Window = 4
    Second = 2
    MaxTime = 9
SYMMETRY Symmetry
INVARIANT TypeOK
INVARIANT RateIsBounded
INVARIANT MemoryIsBounded
PROPERTY PatienceIsRewarded
