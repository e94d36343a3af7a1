------------------------------- MODULE Cluster -------------------------------
(***************************************************************************)
(* The three backends the management service drives: the OVN northbound    *)
(* database, the Ceph RBD pool (or a directory of qcow2 files) and the     *)
(* libvirt daemon of each compute host. Their code is not in the           *)
(* repository; what is stated here is the part of their behaviour that     *)
(* management/clients/*.py relies on, one operator per call, and when that *)
(* call raises an exception.                                               *)
(*                                                                         *)
(* OVN objects are named by tuples instead of strings joined with "-":     *)
(* the model is about missions whose joined names do not coincide.         *)
(***************************************************************************)
EXTENDS Naturals, Sequences, FiniteSets

CONSTANTS
    Name,       \* mission names
    Net,        \* network names
    VM,         \* VM names
    Host,       \* host names a placement may mention
    Image,      \* golden images
    Pci,        \* PCI addresses of GPUs
    NoName, NoImage, NoPci, NoDomain,
    Backend,    \* the storage backend of cluster.yaml
    UnitsPerMiB \* how the hypervisor counts the memory in a domain's XML: 1 when it
                \* keeps the unit of the definition, 1024 when it reports KiB

ASSUME BackendAssumption == Backend \in {"ceph_rbd", "local_qcow2"}

ASSUME UnitsAssumption == UnitsPerMiB \in Nat \ {0}

ASSUME NullAssumption ==
    /\ NoName \notin Name
    /\ NoImage \notin Image
    /\ NoPci \notin Pci

VARIABLES
    routers,      \* mission names that have a logical router
    routerPorts,  \* <<mission, network>>: router ports
    switches,     \* <<mission, network>>: logical switches
    peerPorts,    \* <<mission, network>>: switch ports that peer with a router port
    vmPorts,      \* <<mission, vm, network>>: switch ports of VM interfaces
    golden,       \* image -> how far its golden snapshot is
    clones,       \* vm name -> the image its linked clone was made from
    domains       \* <<host, vm name>> -> the libvirt domain of that name, or NoDomain

ovn == <<routers, routerPorts, switches, peerPorts, vmPorts>>
rbd == <<golden, clones>>
cluster == <<ovn, rbd, domains>>

\* A libvirt domain. Its uuid is derived from mission and VM name, so the mission
\* name tells domains of one name apart. "persistent" is whether it is defined
\* (an undefined one that still runs is transient), "disk" whether it has a
\* linked-clone disk.
Domain == [owner : Name, pci : Pci \cup {NoPci}, disk : BOOLEAN,
           persistent : BOOLEAN, running : BOOLEAN]

ASSUME NoDomainAssumption == NoDomain \notin Domain

ClusterTypeOK ==
    /\ routers \subseteq Name
    /\ routerPorts \subseteq Name \X Net
    /\ switches \subseteq Name \X Net
    /\ peerPorts \subseteq Name \X Net
    /\ vmPorts \subseteq Name \X VM \X Net
    /\ golden \in [Image -> {"none", "created", "protected"}]
    /\ clones \in [VM -> Image \cup {NoImage}]
    /\ domains \in [Host \X VM -> Domain \cup {NoDomain}]

ClusterInit ==
    /\ routers = {} /\ routerPorts = {} /\ switches = {}
    /\ peerPorts = {} /\ vmPorts = {}
    /\ golden = [i \in Image |-> "none"]
    /\ clones = [v \in VM |-> NoImage]
    /\ domains = [hv \in Host \X VM |-> NoDomain]

----------------------------------------------------------------------------
(* OVN. Additions pass may_exist=True and deletions if_exists=True, so they *)
(* raise only when the row they hang from is missing.                       *)

LrAdd(n) == routers' = routers \cup {n}

LsAdd(n, net) == switches' = switches \cup {<<n, net>>}

LrpAdd(n, net) == routerPorts' = routerPorts \cup {<<n, net>>}

PeerAdd(n, net) == peerPorts' = peerPorts \cup {<<n, net>>}

LspAdd(n, v, net) == vmPorts' = vmPorts \cup {<<n, v, net>>}

LspDel(n, v, net) == vmPorts' = vmPorts \ {<<n, v, net>>}

\* Rows that only a switch (a router) refers to go with it.
LsDel(n, net) ==
    /\ switches' = switches \ {<<n, net>>}
    /\ peerPorts' = peerPorts \ {<<n, net>>}
    /\ vmPorts' = {p \in vmPorts : ~(p[1] = n /\ p[3] = net)}

LrDel(n) ==
    /\ routers' = routers \ {n}
    /\ routerPorts' = {p \in routerPorts : p[1] # n}

----------------------------------------------------------------------------
(* Storage.                                                                 *)

SetGolden(image, s) == golden' = [golden EXCEPT ![image] = s]

SetClone(v, image) == clones' = [clones EXCEPT ![v] = image]

CloneExists(v) == clones[v] # NoImage

\* A running domain keeps a watch on the image it uses, and RBD refuses to remove
\* an image that has watchers.
InUse(v) == \E h \in Host : /\ domains[<<h, v>>] # NoDomain
                            /\ domains[<<h, v>>].running
                            /\ domains[<<h, v>>].disk

\* Whether the path in the domain XML names a disk that exists. The XML of the
\* qcow2 backend names <dir>/<vm>.qcow2 while the clone is <dir>/<vm>_clone.qcow2.
DiskPresent(v) == Backend = "ceph_rbd" /\ CloneExists(v)

----------------------------------------------------------------------------
(* libvirt.                                                                 *)

Defined(h, v) == domains[<<h, v>>] # NoDomain

OwnedBy(h, v, n) == Defined(h, v) /\ domains[<<h, v>>].owner = n

Running(h, v) == Defined(h, v) /\ domains[<<h, v>>].running

\* defineXML: a second domain of the same name is refused, the same domain is
\* redefined. A running one keeps its live devices.
DefineXML(h, v, n, pci, disk) ==
    domains' = [domains EXCEPT ![<<h, v>>] =
        IF Running(h, v)
          THEN [@ EXCEPT !.persistent = TRUE]
          ELSE [owner |-> n, pci |-> pci, disk |-> disk,
                persistent |-> TRUE, running |-> FALSE]]

\* create() starts a domain whose disk exists and whose GPU no other running
\* domain of the host holds.
CanStart(h, v, n) ==
    /\ OwnedBy(h, v, n)
    /\ ~Running(h, v)
    /\ domains[<<h, v>>].disk => DiskPresent(v)
    /\ domains[<<h, v>>].pci # NoPci =>
         \A w \in VM : Running(h, w) => domains[<<h, w>>].pci # domains[<<h, v>>].pci

Start(h, v) == domains' = [domains EXCEPT ![<<h, v>>].running = TRUE]

\* destroy() stops a domain; a transient one is gone with that.
Stop(h, v) ==
    domains' = [domains EXCEPT ![<<h, v>>] =
        IF @.persistent THEN [@ EXCEPT !.running = FALSE] ELSE NoDomain]

\* undefine() drops the definition; a running domain stays as a transient one.
Undefine(h, v) ==
    domains' = [domains EXCEPT ![<<h, v>>] =
        IF @.running THEN [@ EXCEPT !.persistent = FALSE] ELSE NoDomain]
==============================================================================
