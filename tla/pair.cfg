\* Two missions that share a host and a golden image, patient clients.
CONSTANTS
    m1 = m1
    m2 = m2
    alpha = alpha
    bravo = bravo
    control = control
    storage = storage
    db = db
    gw = gw
    app = app
    h1 = h1
    h2 = h2
    golden1 = golden1
    gpuA = gpuA
    gpuB = gpuB
    NoName = NoName
    NoImage = NoImage
    NoPci = NoPci
    NoDomain = NoDomain
    Name = {alpha, bravo}
    Net = {control, storage}
    VM = {db, gw, app}
    Host = {h1}
    Image = {golden1}
    Pci = {gpuA, gpuB}
    Inventory <- TwoGpus
    PciAddresses <- Addresses
    Id = {m1, m2}
    Submitted <- DisjointMissions
    Backend = "ceph_rbd"
    UnitsPerMiB = 1
    MaxDeletes = 2
    MaxFaults = 1
    MaxSwallowed = 0
    MaxRestarts = 0
    ConfigFaults = {}
    Patient = TRUE
SPECIFICATION RetrySpec
CHECK_DEADLOCK FALSE
INVARIANTS
    RunningIsComplete
    DestroyedIsClean
PROPERTIES
    ImplementsLifecycle
    DeleteConverges
