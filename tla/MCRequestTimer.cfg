\* a timeout of three ticks, two retries, up to three stray datagrams
SPECIFICATION Spec
CONSTANTS
    Timeout = 3
    Retries = 2
    MaxIgnored = 3
INVARIANTS
    TypeOK
    ElapsedBounded
    NoEarlyTimeout
