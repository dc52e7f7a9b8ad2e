\* Two connections with one source label, both directions racing with the closes.
\* No symmetry: a liveness property is checked.
CONSTANTS
    c1 = c1
    c2 = c2
    device = device
    other = other
    label = label
    Nobody = Nobody
    Conns = {c1, c2}
    Dirs = {up, down}
    RefKeys = {device, other, label}
    KeysOf <- SameLabel
    Sizes = {2}
    Threshold = 3
    MaxSeen = 4
SPECIFICATION FairSpec
INVARIANTS TypeOK RefsMatchSessions NoLeakedSession 
PROPERTIES ImplementsOnlineDevices ClosedIsReleased
