SPECIFICATION OpFairSpec
CONSTANTS
    Validators = {v1, v2}
    Exclusives = {e1, e2}
    Syncs = {s1, s2}
    Writers = {w1, w2}
    InvigGens = {ig}
    ExamGens = {eg}
    exclusiveOpRetries = 5
INVARIANTS GuardCounts ExclusiveAlone
PROPERTIES WriteAdmittedWhenQuiet ImplementsExclusion SyncAnswered
