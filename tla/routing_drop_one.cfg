\* Two labels, one of them dropped.
CONSTANTS
    Labels = {l1, l2}
    NoLabel = NoLabel
    Configs <- DropOneLabel
    MaxBytes = 1
SPECIFICATION Spec
INVARIANT OnlyDroppedAreSuppressed
