SPECIFICATION Spec
CONSTANTS
    Urls = {u1, u2}
    Sweeps = {s1, s2}
    MaxScrapes = 2
    MaxPages = 1
    None = None
    Events = {"crash", "refuse", "slow", "nopage", "nodata", "nokey", "forget", "create", "patch", "review", "primary", "extract", "delete"}
    MaxEvents = 2
    Alone = {"create"}
    Rows = {r1, r2}
    Admins = {a1, a2}
    MaxSearches = 1
    MaxAttempts = 2
CHECK_DEADLOCK FALSE
SYMMETRY Interchangeable
INVARIANTS OnePrimary UrlsAreUnique ConfirmedIsExtracted VotesAreCounted ScrapesBounded
