SPECIFICATION Spec
CONSTANTS
    n1 = n1
    n2 = n2
    n3 = n3
    c1 = c1
    c2 = c2
    svc = svc
    app = app
    none = none
    Lab = Lab
    NoCluster = none
    Nodes = {n1, n2}
    Clusters = {c1, c2}
    Addons = {svc, app}
    KCluster <- TwoKCluster
    Existing = {}
    ClusterType <- TwoTypes
    CreateNode <- NoCreators
    ClusterServices <- TwoServices
    ClusterAddons <- TwoAddons
    NodeAddons <- TwoNodeAddons
    Mapped = {}
    Scripts = {svc, app}
    Misfits = {}
    MaxParallel = 0
INVARIANTS
    NoInstallOnUnprovisioned
    ExitZeroSound
    AddonsInOrder
    ClusterWorkReported
PROPERTIES
    Termination
