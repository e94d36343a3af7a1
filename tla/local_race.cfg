\* One mission on qcow2 files, clients that delete at any time, several DELETEs at once,
\* and a host that has GPUs but lists no address of them.
CONSTANTS
    m1 = m1
    m2 = m2
    alpha = alpha
    bravo = bravo
    control = control
    storage = storage
    db = db
    gw = gw
    app = app
    h1 = h1
    h2 = h2
    golden1 = golden1
    gpuA = gpuA
    gpuB = gpuB
    NoName = NoName
    NoImage = NoImage
    NoPci = NoPci
    NoDomain = NoDomain
    Name = {alpha, bravo}
    Net = {control, storage}
    VM = {db, gw, app}
    Host = {h1}
    Image = {golden1}
    Pci = {gpuA, gpuB}
    Inventory <- TwoGpus
    PciAddresses <- NoAddresses
    Id = {m1}
    Submitted <- PxeThenGpu
    Backend = "local_qcow2"
    UnitsPerMiB = 1
    MaxDeletes = 2
    MaxFaults = 1
    MaxSwallowed = 1
    MaxRestarts = 0
    ConfigFaults = {}
    Patient = FALSE
SPECIFICATION FairSpec
CHECK_DEADLOCK FALSE
INVARIANTS
    NotStranded
PROPERTIES
    ThreadsEnd
