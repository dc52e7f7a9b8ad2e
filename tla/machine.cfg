\* Two interfaces and three changes of the host.
CONSTANTS
    Interfaces = {i1, i2}
    Modulus = 8
    MaxElapsed = 1
    MaxEvents = 3
    None = None
SPECIFICATION Spec
INVARIANTS TypeOK LoadIsAShare UsedWithinTotal SpeedsAddUp
PROPERTY QuietTotalsAreShown
