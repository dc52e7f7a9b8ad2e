\* Secrets and limits change hands, updates fail, one connection.
CONSTANTS
    vless = vless
    ss = ss
    u1 = u1
    u2 = u2
    None = None
    Inbounds = {vless, ss}
    IdInbounds = {ss}
    Ids = {u1, u2}
    SecretsOf <- EitherSecret
    LimitsOf <- LimitsOfFirst
    Named = TRUE
    Conns = {c1}
    Gens = {g1, g2}
    MaxFaults = 1
SPECIFICATION Spec
INVARIANTS TypeOK HeldLimiterIsCurrent AppliedExactly LimitReachesEveryInbound
CONSTRAINT Retried
SYMMETRY Symmetry
