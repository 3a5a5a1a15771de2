SPECIFICATION InstalledSpec
CONSTANTS
    Proc = {w1, w2}
    Mortal = {w1}
    Thread = {t1, t2}
    Package <- Versions
    Variant = {v1,v2}
    Manifests <- SkillOfVersion
    None = None
    Commands = 2
    WellFormedName <- CrawlOnly
    WellFormedVersion <- FirstVersion
    Source <- Directories
    Damage <- Damages
    Added <- AddedFile
INVARIANTS
    TypeOK
    DamageIsLocal
    RefreshedServerIsCurrent
    PackagesAreFaithful
PROPERTY ServerSettles
CHECK_DEADLOCK FALSE
