\* Two nodes and mapped labels.
CONSTANTS
    Labels = {l1, l2}
    NoLabel = NoLabel
    Configs <- MappedTwoNodes
    MaxBytes = 1
SPECIFICATION Spec
INVARIANT PushReturns
