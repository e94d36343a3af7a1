\* The generator, an operator who edits and renames its file, and two missions.
CONSTANTS
    mission = mission
    alpha = alpha
    bravo = bravo
    db = db
    gpu = gpu
    app = app
    web = web
    control = control
    storage = storage
    h1 = h1
    h2 = h2
    h3 = h3
    NoHost = NoHost
    NoMacs = NoMacs
    NoDoc = NoDoc
    Piece <- Pieces
    Name <- Names
    VM <- Vms
    Net <- Nets
    Rank <- Ranks
    Octets = 3
    MissionOctet <- SameOctet
    RouterHash <- RouterHashes
    Host <- Hosts
    HostOrder <- Order
    Inventories <- HostFiles
    FileOrder <- RoleOrder
    SpareVm <- Spare
    Cpu <- Cpus
    Memory <- Memories
    GpuVms <- Gpus
    NetOrder <- Networks
    VlanOf <- VlanIds
    Vlans = {101}
    Placeholder = 2
    MacLists <- Lists
    MaxEdits = 2
    MaxRuns = 2
SYMMETRY SwapNames
SPECIFICATION Spec
CHECK_DEADLOCK FALSE
INVARIANTS
    TypeOK
    GeneratedDeploys
    FallbackDistinct
    PinnedAddresses
    LoadersAgree
