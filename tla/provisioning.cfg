\* Every mode, 121 pairs of node records, two faults or installations.
CONSTANTS
    s1 = s1
    s2 = s2
    d1 = d1
    d2 = d2
    None = None
    Absent = Absent
    Empty = Empty
    Torn = Torn
    Tags <- SmallTags
    LowerCase <- Lower
    Options <- SmallOptions
    Records <- SmallRecords
    MaxFaults = 2
SPECIFICATION Spec
INVARIANTS TypeOK  RulesReachTheirOutbound OneSectionIsKept
 
