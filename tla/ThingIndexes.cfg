\* Two writers, one text with and without a provider's parts, one publisher, both stores.
SPECIFICATION Spec
CONSTANTS
    Things = {t1}
    Texts = {x}
    Bindings = {}
    Unbound = unbound
    Origins = {o1}
    Manual = manual
    Absent = absent
    Writers = {w1, w2}
    Publishers = {p1}
    Limit = 2
    MaxEvents = 2
    MaxFaults = 1
    VectorStores = {}
    GraphStores = {graphs}
    BatchSize = 2
CHECK_DEADLOCK FALSE
INVARIANTS
    CatalogRecorded
PROPERTIES
    ShowsOnlyCommitted
    Converges
