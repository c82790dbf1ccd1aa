CONSTANTS
    Handlers = {h1, h2, h3}
    Ttl = 3
    MaxQuery = 2
SPECIFICATION GpuSpec
SYMMETRY HandlerSymmetry
INVARIANTS CachedIsRecent
