\* A DELETE that arrives while the mission is being deployed.
CONSTANTS
    m1 = m1
    m2 = m2
    alpha = alpha
    bravo = bravo
    control = control
    storage = storage
    db = db
    gw = gw
    app = app
    h1 = h1
    h2 = h2
    golden1 = golden1
    gpuA = gpuA
    gpuB = gpuB
    NoName = NoName
    NoImage = NoImage
    NoPci = NoPci
    NoDomain = NoDomain
    Name = {alpha, bravo}
    Net = {control, storage}
    VM = {db, gw, app}
    Host = {h1}
    Image = {golden1}
    Pci = {gpuA, gpuB}
    Inventory <- TwoGpus
    PciAddresses <- Addresses
    Id = {m1}
    Submitted <- SmallMission
    Backend = "ceph_rbd"
    UnitsPerMiB = 1
    MaxDeletes = 1
    MaxFaults = 0
    MaxSwallowed = 0
    MaxRestarts = 0
    ConfigFaults = {}
    Patient = FALSE
SPECIFICATION Spec
CHECK_DEADLOCK FALSE
INVARIANT
    NothingAttached
