SPECIFICATION Spec
CONSTANTS
    old = old
    new = new
    Patches = {old, new}
    Supersedes <- Replaces
    Challenges = {c1, c2}
    Manifests = {m1, m2}
    Evidence = {e1}
    Quotas = {0, 1, 2}
    MaxConfig = 2
    None = None
SYMMETRY Symmetry
INVARIANTS
    UsedIsConsented
    QuotaHolds

    
