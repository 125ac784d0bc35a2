SPECIFICATION Spec
CONSTANTS
    n1 = n1
    n2 = n2
    n3 = n3
    c1 = c1
    c2 = c2
    svc = svc
    app = app
    none = none
    Lab = Lab
    NoCluster = none
    Nodes = {n1, n2, n3}
    Clusters = {c1}
    Addons = {svc, app}
    KCluster <- PoolKCluster
    Existing = {n3}
    ClusterType <- OneHarvester
    CreateNode <- OneCreator
    ClusterServices <- OneServices
    ClusterAddons <- OneServices
    NodeAddons <- PoolNodeAddons
    Mapped = {}
    Scripts = {svc, app}
    Misfits = {}
    MaxParallel = 2
INVARIANTS
    ReportTruthful
    CreatorFirst
PROPERTIES
    ReportedVmUntouched
