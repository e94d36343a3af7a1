\* One mission, patient client, crashes, failed calls, swallowed libvirt errors and
\* repeated DELETEs.
CONSTANTS
    m1 = m1
    m2 = m2
    alpha = alpha
    bravo = bravo
    control = control
    storage = storage
    db = db
    gw = gw
    app = app
    h1 = h1
    h2 = h2
    golden1 = golden1
    gpuA = gpuA
    gpuB = gpuB
    NoName = NoName
    NoImage = NoImage
    NoPci = NoPci
    NoDomain = NoDomain
    Name = {alpha, bravo}
    Net = {control, storage}
    VM = {db, gw, app}
    Host = {h1, h2}
    Image = {golden1}
    Pci = {gpuA, gpuB}
    Inventory <- OneGpuHost
    PciAddresses <- Addresses
    Id = {m1, m2}
    Submitted <- OneMission
    Backend = "ceph_rbd"
    UnitsPerMiB = 1
    MaxDeletes = 3
    MaxFaults = 2
    MaxSwallowed = 2
    MaxRestarts = 1
    ConfigFaults = {"unreadable", "incomplete"}
    Patient = TRUE
SPECIFICATION Spec
CHECK_DEADLOCK FALSE
INVARIANTS
    TypeOK
    RunningIsComplete
    DestroyedIsClean
    DestroyedLeavesDomains
    NothingAttached
    GpusDistinctInMission
    GpuAvailable
PROPERTIES
    TeardownFailsOnlyByFault
    ImplementsLifecycle
