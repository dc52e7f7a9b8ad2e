\* Every flag combination, the ones that lose traffic or panic included.
CONSTANTS
    Labels = {l1, l2}
    NoLabel = NoLabel
    Configs <- AllConfigs
    MaxBytes = 1
    Ids = {1, 2}
    Ips = {a1, a2}
    MaxEntries = 3
SPECIFICATION StackSpec
INVARIANTS TypeOK CommittedIsRouted NothingMisrouted AliveIsRouted FetchedIsUnion
SYMMETRY Symmetry
