\* One inbound and one client; two connections of one user race.
CONSTANTS
    vless = vless
    hy2 = hy2
    None = None
    Users = {u1}
    Tags = {vless}
    IdTags = {}
    PanelCount = 1
    PanelOf <- OnePanel
    Conns = {c1, c2}
    Storages = {s1, s2}
    MaxBytes = 2
    MaxFaults = 1
SPECIFICATION Spec
SYMMETRY Symmetry
INVARIANTS TypeOK CommittedWithinCounted 
PROPERTY ImplementsLedger
