\* Two workers serving reads, adds, updates (with and without the digest
\* of an earlier read) and deletes, every error path of the handlers.
CONSTANTS
    c1 = c1
    c2 = c2
    p1 = p1
    st = st
    Clients = {c1, c2}
    Ids = {p1, st}
    Absent = Absent
    None = None
    BadData = BadData
    InitConfig <- MCInitConfig
    NewPlugins <- MCNewPlugins
    UpdateReqs <- MCUpdateReqs
    AddTypes = {"dns", "standalone"}
    MaxCalls = 5
SPECIFICATION Spec
INVARIANT TypeOK
PROPERTY StoreRefined
\* the workers stop once MaxCalls requests have been served
CHECK_DEADLOCK FALSE
