\* Two nodes, devices changing at any time, refused and lost pushes.
\* No symmetry: a liveness property is checked.
CONSTANTS
    t1 = t1
    t2 = t2
    p1 = p1
    p2 = p2
    Users = {u1}
    Tags = {t1, t2}
    Ips = {a, b}
    Clients = {p1, p2}
    PanelOf <- OneTagEach
    MaxFaults = 1
SPECIFICATION FairAliveSpec
INVARIANTS AliveTypeOK LastAliveIsShown PushIsOneSnapshot
PROPERTY StableDevicesAreShown
