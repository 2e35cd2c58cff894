SPECIFICATION FairSpec
CONSTANTS
    p = p
    q = q
    x = x
    y = y
    Paths = {p, q}
    Base <- BaseOf
    NoName = ""
    Unsafe = {"a b"}
    Places = {x, y}
    NoNotify = NoNotify
    NoConfig = NoConfig
    Configs <- AllConfigs
    Burst = 3
    CanFail = {"bind", "notify"}
INVARIANTS
    TypeOK
PROPERTIES
    RestartsSettle
    Heals
