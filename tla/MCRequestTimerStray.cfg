\* one stray datagram is enough to outlast the timeout
SPECIFICATION Spec
CONSTANTS
    Timeout = 2
    Retries = 0
    MaxIgnored = 1
INVARIANTS
    PerRequestTimeout
