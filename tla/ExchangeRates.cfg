SPECIFICATION CacheSpec
CONSTANTS
    Workers = {w1, w2}
    Ops = {"refresh", "dialog", "panel", "delete", "convert", "pay"}
    Fetched = {100}
    Typed = {100, 120}
    RedisFails = TRUE
    Variants = {"v1", "v2"}
    Category <- MCCategory
    Postings <- MCPostings
    Threshold = 1
    Writers = {w1, w2}
    Readers = {r1}
    Ttl = 1
    MaxRows = 2
    MaxEvictions = 1
INVARIANTS
    FrozenWasOnRecord
    
    
PROPERTIES
    StaleRatesExpire
    PagesCatchUp
