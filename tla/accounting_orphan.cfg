\* A removed and re-added user with a connection that outlives the removal.
CONSTANTS
    vless = vless
    hy2 = hy2
    None = None
    Users = {u1}
    Tags = {vless}
    IdTags = {}
    PanelCount = 1
    PanelOf <- OnePanel
    Conns = {c1, c2}
    Storages = {s1, s2}
    MaxBytes = 2
    MaxFaults = 0
SPECIFICATION Spec
INVARIANT NoUnreportableTraffic
