\* An operator writes too few addresses into the mission's own section of them.
CONSTANTS
    mission = mission
    alpha = alpha
    bravo = bravo
    db = db
    gpu = gpu
    app = app
    web = web
    control = control
    storage = storage
    h1 = h1
    h2 = h2
    h3 = h3
    NoHost = NoHost
    NoMacs = NoMacs
    NoDoc = NoDoc
    Piece <- Pieces
    Name <- Names
    VM <- Vms
    Net <- Nets
    Rank <- Ranks
    Octets = 256
    MissionOctet <- SameOctet
    RouterHash <- RouterHashes
    Host <- Hosts
    HostOrder <- Order
    Inventories <- HostFiles
    FileOrder <- RoleOrder
    SpareVm <- Spare
    Cpu <- Cpus
    Memory <- Memories
    GpuVms <- Gpus
    NetOrder <- Networks
    VlanOf <- VlanIds
    Vlans = {356}
    Placeholder = 2
    MacLists <- Lists
    MaxEdits = 1
    MaxRuns = 1
SPECIFICATION Spec
CHECK_DEADLOCK FALSE
INVARIANT
    AcceptedCanSucceed
