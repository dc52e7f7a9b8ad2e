\* One user on both inbounds of a node whose clients are pushed to in turn.  No symmetry: a liveness property is checked.
CONSTANTS
    vless = vless
    hy2 = hy2
    None = None
    Users = {u1}
    Tags = {vless, hy2}
    IdTags = {hy2}
    PanelCount = 2
    PanelOf <- TwoPanels
    Conns = {c1}
    Storages = {s1, s2}
    MaxBytes = 1
    MaxFaults = 1
SPECIFICATION FairSpec
INVARIANTS CommitOnlyAfterDelivery NoDoubleBilling
PROPERTY EventuallyBilled
