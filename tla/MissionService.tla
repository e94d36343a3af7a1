---------------------------- MODULE MissionService ----------------------------
(***************************************************************************)
(* The mission management service: the in-memory mission store, the POST   *)
(* and DELETE handlers of the REST API, and the background functions that  *)
(* deploy a mission and tear it down. Background functions are synchronous,*)
(* so each runs in a thread of its own and they interleave at every store  *)
(* access and backend call; one action below is one such access or call.   *)
(*                                                                         *)
(* <<m, 0>> is the thread that deploys mission m, <<m, k>> the one of the  *)
(* k-th DELETE of m. pc says which call a thread is about to make and idx  *)
(* the position in the loop the call stands in.                            *)
(*                                                                         *)
(* Log entries, error texts and response bodies are left out, and so are   *)
(* the requests the API refuses (they change nothing).                     *)
(***************************************************************************)
EXTENDS Cluster, Placement

CONSTANTS
    Id,            \* the missions that may be submitted (their uuids)
    Submitted,     \* Id -> the specification submitted as that mission
    Inventory,     \* known host -> [cpus, memory_mb, gpus]
    PciAddresses,  \* host -> the sequence of its gpu_pci_addresses
    MaxDeletes,    \* bound: DELETE requests per mission
    MaxFaults,     \* bound: backend calls that raise for a reason of their own
    MaxSwallowed,  \* bound: libvirt errors destroy_and_undefine swallows
    MaxRestarts,   \* bound: crashes of the service
    ConfigFaults,  \* what may be wrong with cluster.yaml when it is read
    Patient        \* whether clients delete a mission only when nothing works on it

MissionSpec == [name : Name, networks : Seq(Net), vms : Seq(VM),
                ports : Seq(VM \X Net), image : [VM -> Image \cup {NoImage}],
                gpu : SUBSET VM, cpu : [VM -> Nat], memory_mb : [VM -> Nat],
                placement : [VM -> Host]]

ASSUME SubmittedAssumption == Submitted \in [Id -> MissionSpec]

\* The VMs of a mission file are the keys of a mapping.
ASSUME VmsAssumption ==
    \A m \in Id : \A i, j \in DOMAIN Submitted[m].vms :
        Submitted[m].vms[i] = Submitted[m].vms[j] => i = j

ASSUME InventoryAssumption ==
    /\ DOMAIN Inventory \subseteq Host
    /\ PciAddresses \in [Host -> Seq(Pci)]

\* The addresses of one host are different devices.
ASSUME PciAssumption ==
    \A h \in Host : \A i, j \in DOMAIN PciAddresses[h] :
        PciAddresses[h][i] = PciAddresses[h][j] => i = j

ASSUME BoundsAssumption ==
    /\ MaxDeletes \in Nat /\ MaxFaults \in Nat
    /\ MaxSwallowed \in Nat /\ MaxRestarts \in Nat
    /\ ConfigFaults \subseteq {"unreadable", "incomplete"}
    /\ Patient \in BOOLEAN

DeployThread == Id \X {0}
TeardownThread == Id \X (1 .. MaxDeletes)
Thread == DeployThread \cup TeardownThread

MissionState == {"Pending", "DeployingNetworks", "CloningStorage", "DefiningVMs",
                 "Validating", "Running", "Error", "Destroying", "Destroyed"}

DeployLabel == {"add_router", "add_switch", "add_router_port", "add_peer_port",
                "add_vm_port", "provision_storage", "create_snap", "is_protected",
                "protect_snap", "list_clones", "clone", "qemu_img", "define",
                "start", "check_switches", "check_vm"}

TeardownLabel == {"lookup", "undefine", "remove_vm_port", "remove_switch",
                  "remove_disk", "unlink"}

Label == {"idle", "deploy", "teardown", "failing", "done"} \cup DeployLabel \cup TeardownLabel

VARIABLES
    status,   \* Id -> its MissionState in the store, or "absent"
    pc, idx,  \* thread -> next call, loop position
    gpuPool,  \* Id -> host -> GPU addresses its deployment has not handed out
    gpuOf,    \* Id -> VM -> the GPU address handed out to it
    valid,    \* Id -> whether validation has found no issue so far
    handle,   \* thread -> owner of the domain a teardown has looked up
    faults, swallowed, restarts   \* counters of the bounded events

locals == <<gpuPool, gpuOf, valid, handle>>
counters == <<faults, swallowed, restarts>>
vars == <<status, pc, idx, locals, counters, cluster>>

TypeOK ==
    /\ ClusterTypeOK
    /\ status \in [Id -> MissionState \cup {"absent"}]
    /\ pc \in [Thread -> Label]
    /\ idx \in [Thread -> Nat]
    /\ gpuPool \in [Id -> [Host -> Seq(Pci)]]
    /\ gpuOf \in [Id -> [VM -> Pci \cup {NoPci}]]
    /\ valid \in [Id -> BOOLEAN]
    /\ handle \in [Thread -> Name \cup {NoName}]
    /\ faults \in Nat /\ swallowed \in Nat /\ restarts \in Nat

ServiceInit ==
    /\ status = [m \in Id |-> "absent"]
    /\ pc = [t \in Thread |-> "idle"]
    /\ idx = [t \in Thread |-> 1]
    /\ gpuPool = [m \in Id |-> PciAddresses]
    /\ gpuOf = [m \in Id |-> [v \in VM |-> NoPci]]
    /\ valid = [m \in Id |-> TRUE]
    /\ handle = [t \in Thread |-> NoName]

Init ==
    /\ ClusterInit
    /\ ServiceInit
    /\ faults = 0 /\ swallowed = 0 /\ restarts = 0

----------------------------------------------------------------------------
(* The specification and the element of it a thread is at.                  *)

SpecOf(t) == Submitted[t[1]]
NameOf(t) == SpecOf(t).name

AtNet(t) == SpecOf(t).networks[idx[t]]
AtPort(t) == SpecOf(t).ports[idx[t]]
AtVm(t) == SpecOf(t).vms[idx[t]]
HostAt(t) == SpecOf(t).placement[AtVm(t)]
ImageAt(t) == SpecOf(t).image[AtVm(t)]

MoreNets(t) == idx[t] <= Len(SpecOf(t).networks)
MorePorts(t) == idx[t] <= Len(SpecOf(t).ports)
MoreVms(t) == idx[t] <= Len(SpecOf(t).vms)

At(t, label) == pc[t] = label

Goto(t, label, i) == /\ pc' = [pc EXCEPT ![t] = label]
                     /\ idx' = [idx EXCEPT ![t] = i]

\* The call raises: control goes to the "except" clause of the worker.
Raise(t) == Goto(t, "failing", 1)

Finish(t) == Goto(t, "done", 1)

\* MissionStore.update_state
UpdateState(t, s) == status' = [status EXCEPT ![t[1]] = s]

Ended(t) == pc[t] \in {"idle", "done"}

\* available.pop(0). The two variants record the list instead of its first address,
\* and do not remove it.
NextGpuList(m, h) == gpuPool[m][h]
PeekGpu(m, h) == UNCHANGED gpuPool

NextGpu(m, h) == Head(gpuPool[m][h])
PopGpu(m, h) == gpuPool' = [gpuPool EXCEPT ![m][h] = Tail(@)]

----------------------------------------------------------------------------
(* Plausible bugs: variants of actions below that the runs must reject.     *)

\* DELETE refuses a mission that is not Running.
DeleteRunningOnly(m, k) ==
    /\ status[m] = "Running"
    /\ At(<<m, k>>, "idle")
    /\ \A t \in Thread : t[1] = m => Ended(t)
    /\ Goto(<<m, k>>, "teardown", 1)
    /\ UNCHANGED <<status, locals, counters, cluster>>

\* The golden snapshot is taken but not protected.
SkipProtection(t) ==
    /\ At(t, "is_protected")
    /\ Goto(t, "list_clones", idx[t])
    /\ UNCHANGED <<status, locals, counters, cluster>>

\* A failed validation is reported but does not raise.
VerdictWithoutRaise(t) ==
    /\ At(t, "check_vm") /\ ~MoreVms(t)
    /\ IF valid[t[1]] THEN UpdateState(t, "Running") ELSE UNCHANGED status
    /\ Finish(t)
    /\ UNCHANGED <<locals, counters, cluster>>

\* Networking is torn down before the VMs.
TeardownNetworksFirst(t) ==
    /\ At(t, "teardown")
    /\ UpdateState(t, "Destroying")
    /\ Goto(t, "remove_vm_port", 1)
    /\ UNCHANGED <<locals, counters, cluster>>

\* The store is not told that teardown has begun.
TeardownUnannounced(t) ==
    /\ At(t, "teardown")
    /\ Goto(t, "lookup", 1)
    /\ UNCHANGED <<status, locals, counters, cluster>>

\* Teardown waits for the domain to appear instead of taking it for gone.
LookupWaits(t) ==
    /\ At(t, "lookup") /\ MoreVms(t) /\ Defined(HostAt(t), AtVm(t))
    /\ handle' = [handle EXCEPT ![t] = domains[<<HostAt(t), AtVm(t)>>].owner]
    /\ IF Running(HostAt(t), AtVm(t)) THEN Stop(HostAt(t), AtVm(t)) ELSE UNCHANGED domains
    /\ Goto(t, "undefine", idx[t])
    /\ UNCHANGED <<status, gpuPool, gpuOf, valid, counters, ovn, rbd>>

\* Port names without the mission's name.
RemovePortOfAll(t) ==
    /\ At(t, "remove_vm_port")
    /\ IF MorePorts(t)
         THEN /\ vmPorts' = {p \in vmPorts : <<p[2], p[3]>> # AtPort(t)}
              /\ Goto(t, "remove_vm_port", idx[t] + 1)
         ELSE Goto(t, "remove_switch", 1) /\ UNCHANGED vmPorts
    /\ UNCHANGED <<status, locals, counters, routers, routerPorts, switches, peerPorts,
                   rbd, domains>>

\* Switch names without the mission's name.
RemoveSwitchOfAll(t) ==
    /\ At(t, "remove_switch") /\ MoreNets(t)
    /\ switches' = {s \in switches : s[2] # AtNet(t)}
    /\ Goto(t, "remove_switch", idx[t] + 1)
    /\ UNCHANGED <<status, locals, counters, routers, routerPorts, peerPorts, vmPorts,
                   rbd, domains>>

\* A router name without the mission's name.
RemoveRouterOfAll(t) ==
    /\ At(t, "remove_switch") /\ ~MoreNets(t)
    /\ routers' = {} /\ routerPorts' = {}
    /\ Goto(t, "remove_disk", 1)
    /\ UNCHANGED <<status, locals, counters, switches, peerPorts, vmPorts, rbd, domains>>

\* Teardown leaves the router.
KeepRouter(t) ==
    /\ At(t, "remove_switch") /\ ~MoreNets(t)
    /\ Goto(t, "remove_disk", 1)
    /\ UNCHANGED <<status, locals, counters, cluster>>

\* An error of rbd is swallowed like those of libvirt.
RemoveBusySwallowed(t) ==
    /\ At(t, "remove_disk") /\ MoreVms(t) /\ ImageAt(t) # NoImage
    /\ Backend = "ceph_rbd"
    /\ IF CloneExists(AtVm(t)) /\ InUse(AtVm(t)) THEN UNCHANGED clones
                                                 ELSE SetClone(AtVm(t), NoImage)
    /\ Goto(t, "remove_disk", idx[t] + 1)
    /\ UNCHANGED <<status, locals, counters, ovn, golden, domains>>

\* A domain of the mission that is there already is taken for one that runs.
DefineIfAbsent(t) ==
    /\ At(t, "define") /\ MoreVms(t)
    /\ LET v == AtVm(t)
           h == HostAt(t)
       IN  /\ IF v \in SpecOf(t).gpu
                THEN /\ gpuPool[t[1]][h] # <<>> /\ PopGpu(t[1], h)
                     /\ gpuOf' = [gpuOf EXCEPT ![t[1]][v] = NextGpu(t[1], h)]
                ELSE UNCHANGED <<gpuPool, gpuOf>>
           /\ IF Defined(h, v)
                THEN Goto(t, "define", idx[t] + 1) /\ UNCHANGED domains
                ELSE /\ DefineXML(h, v, NameOf(t), gpuOf'[t[1]][v], ImageAt(t) # NoImage)
                     /\ Goto(t, "start", idx[t])
    /\ UNCHANGED <<status, valid, handle, counters, ovn, rbd>>

\* ImageNotFound is not caught.
RemoveMissingRaises(t) ==
    /\ At(t, "remove_disk") /\ MoreVms(t) /\ ImageAt(t) # NoImage
    /\ Backend = "ceph_rbd"
    /\ IF CloneExists(AtVm(t))
         THEN SetClone(AtVm(t), NoImage) /\ Goto(t, "remove_disk", idx[t] + 1)
         ELSE Raise(t) /\ UNCHANGED clones
    /\ UNCHANGED <<status, locals, counters, ovn, golden, domains>>

\* The disk of the last VM is forgotten.
DisksButLastRemoved(t) ==
    /\ At(t, "remove_disk") /\ idx[t] >= Len(SpecOf(t).vms)
    /\ UpdateState(t, "Destroyed")
    /\ Finish(t)
    /\ UNCHANGED <<locals, counters, cluster>>

\* fail() logs the error but leaves the state.
RecordInLogOnly(t) ==
    /\ At(t, "failing")
    /\ Finish(t)
    /\ UNCHANGED <<status, locals, counters, cluster>>

----------------------------------------------------------------------------
(* POST /missions and DELETE /missions/{id}.                                *)

\* The mission is registered before cluster.yaml is read: when reading it raises,
\* the mission is in the store and nothing will deploy it.
CreateMission(m) ==
    /\ status[m] = "absent"
    /\ Feasible(Submitted[m], Inventory)
    /\ status' = [status EXCEPT ![m] = "Pending"]
    /\ \/ Goto(<<m, 0>>, "deploy", 1)
       \/ "unreadable" \in ConfigFaults /\ Finish(<<m, 0>>)
    /\ UNCHANGED <<locals, counters, cluster>>

\* Threads of one mission take the numbers 1, 2, ... in the order of the requests.
DeleteMission(m, k) ==
    /\ status[m] # "absent"
    /\ At(<<m, k>>, "idle")
    /\ \A j \in 1 .. (k - 1) : ~At(<<m, j>>, "idle")
    /\ Patient => \A t \in Thread : t[1] = m => Ended(t)
    /\ Goto(<<m, k>>, "teardown", 1)
    /\ UNCHANGED <<status, locals, counters, cluster>>

----------------------------------------------------------------------------
(* deploy_mission                                                           *)

\* The two statements before the "try", which may end the thread, and the first
\* update_state in it.
DeployBegins(t) ==
    /\ At(t, "deploy")
    /\ \/ /\ UpdateState(t, "DeployingNetworks")
          /\ gpuPool' = [gpuPool EXCEPT ![t[1]] = PciAddresses]
          /\ Goto(t, "add_router", 1)
       \/ /\ "incomplete" \in ConfigFaults
          /\ Finish(t)
          /\ UNCHANGED <<status, gpuPool>>
    /\ UNCHANGED <<gpuOf, valid, handle, counters, cluster>>

AddRouter(t) ==
    /\ At(t, "add_router")
    /\ LrAdd(NameOf(t))
    /\ Goto(t, "add_switch", 1)
    /\ UNCHANGED <<status, locals, counters, routerPorts, switches, peerPorts, vmPorts,
                   rbd, domains>>

AddSwitch(t) ==
    /\ At(t, "add_switch") /\ MoreNets(t)
    /\ LsAdd(NameOf(t), AtNet(t))
    /\ Goto(t, "add_router_port", idx[t])
    /\ UNCHANGED <<status, locals, counters, routers, routerPorts, peerPorts, vmPorts,
                   rbd, domains>>

AddRouterPort(t) ==
    /\ At(t, "add_router_port")
    /\ \/ /\ NameOf(t) \in routers
          /\ LrpAdd(NameOf(t), AtNet(t))
          /\ Goto(t, "add_peer_port", idx[t])
       \/ /\ NameOf(t) \notin routers
          /\ Raise(t)
          /\ UNCHANGED routerPorts
    /\ UNCHANGED <<status, locals, counters, routers, switches, peerPorts, vmPorts,
                   rbd, domains>>

\* lsp_add of the peer port and lsp_set_options on it.
AddPeerPort(t) ==
    /\ At(t, "add_peer_port")
    /\ \/ /\ <<NameOf(t), AtNet(t)>> \in switches
          /\ PeerAdd(NameOf(t), AtNet(t))
          /\ Goto(t, "add_switch", idx[t] + 1)
       \/ /\ <<NameOf(t), AtNet(t)>> \notin switches
          /\ Raise(t)
          /\ UNCHANGED peerPorts
    /\ UNCHANGED <<status, locals, counters, routers, routerPorts, switches, vmPorts,
                   rbd, domains>>

NetworksDone(t) ==
    /\ At(t, "add_switch") /\ ~MoreNets(t)
    /\ Goto(t, "add_vm_port", 1)
    /\ UNCHANGED <<status, locals, counters, cluster>>

\* lsp_add and lsp_set_addresses for one interface.
AddVmPort(t) ==
    /\ At(t, "add_vm_port") /\ MorePorts(t)
    /\ LET v == AtPort(t)[1]
           net == AtPort(t)[2]
       IN  \/ /\ <<NameOf(t), net>> \in switches
              /\ LspAdd(NameOf(t), v, net)
              /\ Goto(t, "add_vm_port", idx[t] + 1)
           \/ /\ <<NameOf(t), net>> \notin switches
              /\ Raise(t)
              /\ UNCHANGED vmPorts
    /\ UNCHANGED <<status, locals, counters, routers, routerPorts, switches, peerPorts,
                   rbd, domains>>

PortsDone(t) ==
    /\ At(t, "add_vm_port") /\ ~MorePorts(t)
    /\ UpdateState(t, "CloningStorage")
    /\ Goto(t, "provision_storage", 1)
    /\ UNCHANGED <<locals, counters, cluster>>

\* PXE VMs have no disk: both storage loops pass over them.
SkipDiskless(t) ==
    /\ pc[t] \in {"provision_storage", "remove_disk"}
    /\ MoreVms(t) /\ ImageAt(t) = NoImage
    /\ Goto(t, pc[t], idx[t] + 1)
    /\ UNCHANGED <<status, locals, counters, cluster>>

\* ensure_golden_snapshot reads the snapshots of the image before it creates one.
ListSnaps(t) ==
    /\ At(t, "provision_storage") /\ MoreVms(t) /\ ImageAt(t) # NoImage
    /\ Backend = "ceph_rbd"
    /\ Goto(t, IF golden[ImageAt(t)] = "none" THEN "create_snap" ELSE "is_protected", idx[t])
    /\ UNCHANGED <<status, locals, counters, cluster>>

\* Creating a snapshot that exists by now raises ImageExists.
CreateSnap(t) ==
    /\ At(t, "create_snap")
    /\ \/ /\ golden[ImageAt(t)] = "none"
          /\ SetGolden(ImageAt(t), "created")
          /\ Goto(t, "is_protected", idx[t])
       \/ /\ golden[ImageAt(t)] # "none"
          /\ Raise(t)
          /\ UNCHANGED golden
    /\ UNCHANGED <<status, locals, counters, ovn, clones, domains>>

IsProtected(t) ==
    /\ At(t, "is_protected")
    /\ Goto(t, IF golden[ImageAt(t)] = "protected" THEN "list_clones" ELSE "protect_snap",
            idx[t])
    /\ UNCHANGED <<status, locals, counters, cluster>>

\* Protecting a snapshot that is protected by now raises ImageBusy.
ProtectSnap(t) ==
    /\ At(t, "protect_snap")
    /\ \/ /\ golden[ImageAt(t)] = "created"
          /\ SetGolden(ImageAt(t), "protected")
          /\ Goto(t, "list_clones", idx[t])
       \/ /\ golden[ImageAt(t)] # "created"
          /\ Raise(t)
          /\ UNCHANGED golden
    /\ UNCHANGED <<status, locals, counters, ovn, clones, domains>>

\* clone_golden_image leaves an image of that name alone, whatever it is a clone of.
ListClones(t) ==
    /\ At(t, "list_clones")
    /\ \/ CloneExists(AtVm(t)) /\ Goto(t, "provision_storage", idx[t] + 1)
       \/ ~CloneExists(AtVm(t)) /\ Goto(t, "clone", idx[t])
    /\ UNCHANGED <<status, locals, counters, cluster>>

\* RBD clones only from a protected snapshot, and only to a name that is free.
Clone(t) ==
    /\ At(t, "clone")
    /\ \/ /\ ~CloneExists(AtVm(t)) /\ golden[ImageAt(t)] = "protected"
          /\ SetClone(AtVm(t), ImageAt(t))
          /\ Goto(t, "provision_storage", idx[t] + 1)
       \/ /\ CloneExists(AtVm(t)) \/ golden[ImageAt(t)] # "protected"
          /\ Raise(t)
          /\ UNCHANGED clones
    /\ UNCHANGED <<status, locals, counters, ovn, golden, domains>>

\* _create_local_backing_clone: os.path.exists, then qemu-img create, which
\* overwrites a file that has appeared since.
LocalCloneExists(t) ==
    /\ At(t, "provision_storage") /\ MoreVms(t) /\ ImageAt(t) # NoImage
    /\ Backend = "local_qcow2"
    /\ \/ CloneExists(AtVm(t)) /\ Goto(t, "provision_storage", idx[t] + 1)
       \/ ~CloneExists(AtVm(t)) /\ Goto(t, "qemu_img", idx[t])
    /\ UNCHANGED <<status, locals, counters, cluster>>

QemuImgCreate(t) ==
    /\ At(t, "qemu_img")
    /\ SetClone(AtVm(t), ImageAt(t))
    /\ Goto(t, "provision_storage", idx[t] + 1)
    /\ UNCHANGED <<status, locals, counters, ovn, golden, domains>>

StorageDone(t) ==
    /\ At(t, "provision_storage") /\ ~MoreVms(t)
    /\ UpdateState(t, "DefiningVMs")
    /\ Goto(t, "define", 1)
    /\ UNCHANGED <<locals, counters, cluster>>

\* A GPU VM takes the first address left on its host; there may be none, since the
\* capacity check counts "gpus" and the pool is "gpu_pci_addresses".
NoFreeGpu(t) ==
    /\ At(t, "define") /\ MoreVms(t)
    /\ AtVm(t) \in SpecOf(t).gpu
    /\ gpuPool[t[1]][HostAt(t)] = <<>>
    /\ Raise(t)
    /\ UNCHANGED <<status, locals, counters, cluster>>

\* The address is popped and recorded before the domain is defined. defineXML
\* raises when the host has another domain of that name.
DefineVm(t) ==
    /\ At(t, "define") /\ MoreVms(t)
    /\ LET m == t[1]
           v == AtVm(t)
           h == HostAt(t)
       IN  /\ \/ /\ v \in SpecOf(t).gpu /\ gpuPool[m][h] # <<>>
                 /\ PopGpu(m, h)
                 /\ gpuOf' = [gpuOf EXCEPT ![m][v] = NextGpu(m, h)]
              \/ /\ v \notin SpecOf(t).gpu
                 /\ UNCHANGED <<gpuPool, gpuOf>>
           /\ \/ /\ ~Defined(h, v) \/ OwnedBy(h, v, NameOf(t))
                 /\ DefineXML(h, v, NameOf(t), gpuOf'[m][v], ImageAt(t) # NoImage)
                 /\ Goto(t, "start", idx[t])
              \/ /\ Defined(h, v) /\ ~OwnedBy(h, v, NameOf(t))
                 /\ Raise(t)
                 /\ UNCHANGED domains
    /\ UNCHANGED <<status, valid, handle, counters, ovn, rbd>>

StartVm(t) ==
    /\ At(t, "start")
    /\ \/ /\ CanStart(HostAt(t), AtVm(t), NameOf(t))
          /\ Start(HostAt(t), AtVm(t))
          /\ Goto(t, "define", idx[t] + 1)
       \/ /\ ~CanStart(HostAt(t), AtVm(t), NameOf(t))
          /\ Raise(t)
          /\ UNCHANGED domains
    /\ UNCHANGED <<status, locals, counters, ovn, rbd>>

VmsDone(t) ==
    /\ At(t, "define") /\ ~MoreVms(t)
    /\ UpdateState(t, "Validating")
    /\ Goto(t, "check_switches", 1)
    /\ UNCHANGED <<locals, counters, cluster>>

\* validate_networks
CheckSwitches(t) ==
    /\ At(t, "check_switches")
    /\ valid' = [valid EXCEPT ![t[1]] =
                   \A net \in Range(SpecOf(t).networks) : <<NameOf(t), net>> \in switches]
    /\ Goto(t, "check_vm", 1)
    /\ UNCHANGED <<status, gpuPool, gpuOf, handle, counters, cluster>>

\* validate_mission_deployment, one VM: a domain of that name must be listed on the
\* host, with this VM's MAC addresses, which are derived from the mission's name,
\* a host device exactly if it has a GPU, and its memory, compared as a number without
\* its unit. Nothing asks whether it runs.
MemoryShown(t) == SpecOf(t).memory_mb[AtVm(t)] * UnitsPerMiB

Matches(t) ==
    /\ MemoryShown(t) = SpecOf(t).memory_mb[AtVm(t)]
    /\ OwnedBy(HostAt(t), AtVm(t), NameOf(t))
    /\ AtVm(t) \in SpecOf(t).gpu <=> domains[<<HostAt(t), AtVm(t)>>].pci # NoPci

CheckVm(t) ==
    /\ At(t, "check_vm") /\ MoreVms(t)
    /\ valid' = [valid EXCEPT ![t[1]] = @ /\ Matches(t)]
    /\ Goto(t, "check_vm", idx[t] + 1)
    /\ UNCHANGED <<status, gpuPool, gpuOf, handle, counters, cluster>>

Verdict(t) ==
    /\ At(t, "check_vm") /\ ~MoreVms(t)
    /\ \/ valid[t[1]] /\ UpdateState(t, "Running") /\ Finish(t)
       \/ ~valid[t[1]] /\ Raise(t) /\ UNCHANGED status
    /\ UNCHANGED <<locals, counters, cluster>>

----------------------------------------------------------------------------
(* teardown_mission                                                         *)

TeardownBegins(t) ==
    /\ At(t, "teardown")
    /\ UpdateState(t, "Destroying")
    /\ \/ Goto(t, "lookup", 1)
       \/ "incomplete" \in ConfigFaults /\ Finish(t)
    /\ UNCHANGED <<locals, counters, cluster>>

\* destroy_and_undefine looks the domain up by the VM's name alone, and stops it.
LookupAndStop(t) ==
    /\ At(t, "lookup") /\ MoreVms(t)
    /\ \/ /\ ~Defined(HostAt(t), AtVm(t))
          /\ Goto(t, "lookup", idx[t] + 1)
          /\ UNCHANGED <<handle, domains>>
       \/ /\ Defined(HostAt(t), AtVm(t))
          /\ handle' = [handle EXCEPT ![t] = domains[<<HostAt(t), AtVm(t)>>].owner]
          /\ IF Running(HostAt(t), AtVm(t)) THEN Stop(HostAt(t), AtVm(t))
                                            ELSE UNCHANGED domains
          /\ Goto(t, "undefine", idx[t])
    /\ UNCHANGED <<status, gpuPool, gpuOf, valid, counters, ovn, rbd>>

\* undefine() of the domain that was looked up; when it is gone or transient the
\* error is swallowed.
UndefineVm(t) ==
    /\ At(t, "undefine")
    /\ IF /\ OwnedBy(HostAt(t), AtVm(t), handle[t])
          /\ domains[<<HostAt(t), AtVm(t)>>].persistent
         THEN Undefine(HostAt(t), AtVm(t))
         ELSE UNCHANGED domains
    /\ handle' = [handle EXCEPT ![t] = NoName]
    /\ Goto(t, "lookup", idx[t] + 1)
    /\ UNCHANGED <<status, gpuPool, gpuOf, valid, counters, ovn, rbd>>

\* destroy_and_undefine swallows every libvirtError, not only "not found": the
\* lookup may fail, or the domain may not stop, or its definition may stay.
SwallowedError(t) ==
    /\ swallowed < MaxSwallowed
    /\ swallowed' = swallowed + 1
    /\ \/ /\ At(t, "lookup") /\ MoreVms(t) /\ Defined(HostAt(t), AtVm(t))
          /\ \/ Goto(t, "lookup", idx[t] + 1) /\ UNCHANGED handle
             \/ /\ Running(HostAt(t), AtVm(t))
                /\ handle' = [handle EXCEPT ![t] = domains[<<HostAt(t), AtVm(t)>>].owner]
                /\ Goto(t, "undefine", idx[t])
       \/ /\ At(t, "undefine")
          /\ handle' = [handle EXCEPT ![t] = NoName]
          /\ Goto(t, "lookup", idx[t] + 1)
    /\ UNCHANGED <<status, gpuPool, gpuOf, valid, faults, restarts, cluster>>

VmsDestroyed(t) ==
    /\ At(t, "lookup") /\ ~MoreVms(t)
    /\ Goto(t, "remove_vm_port", 1)
    /\ UNCHANGED <<status, locals, counters, cluster>>

RemoveVmPort(t) ==
    /\ At(t, "remove_vm_port")
    /\ \/ /\ MorePorts(t)
          /\ LspDel(NameOf(t), AtPort(t)[1], AtPort(t)[2])
          /\ Goto(t, "remove_vm_port", idx[t] + 1)
       \/ /\ ~MorePorts(t)
          /\ Goto(t, "remove_switch", 1)
          /\ UNCHANGED vmPorts
    /\ UNCHANGED <<status, locals, counters, routers, routerPorts, switches, peerPorts,
                   rbd, domains>>

RemoveSwitch(t) ==
    /\ At(t, "remove_switch") /\ MoreNets(t)
    /\ LsDel(NameOf(t), AtNet(t))
    /\ Goto(t, "remove_switch", idx[t] + 1)
    /\ UNCHANGED <<status, locals, counters, routers, routerPorts, rbd, domains>>

RemoveRouter(t) ==
    /\ At(t, "remove_switch") /\ ~MoreNets(t)
    /\ LrDel(NameOf(t))
    /\ Goto(t, "remove_disk", 1)
    /\ UNCHANGED <<status, locals, counters, switches, peerPorts, vmPorts, rbd, domains>>

\* rbd remove: a missing image is fine, one in use raises ImageBusy.
RemoveClone(t) ==
    /\ At(t, "remove_disk") /\ MoreVms(t) /\ ImageAt(t) # NoImage
    /\ Backend = "ceph_rbd"
    /\ \/ /\ ~(CloneExists(AtVm(t)) /\ InUse(AtVm(t)))
          /\ SetClone(AtVm(t), NoImage)
          /\ Goto(t, "remove_disk", idx[t] + 1)
       \/ /\ CloneExists(AtVm(t)) /\ InUse(AtVm(t))
          /\ Raise(t)
          /\ UNCHANGED clones
    /\ UNCHANGED <<status, locals, counters, ovn, golden, domains>>

\* The file backend tests for the file and then removes it.
LocalDiskExists(t) ==
    /\ At(t, "remove_disk") /\ MoreVms(t) /\ ImageAt(t) # NoImage
    /\ Backend = "local_qcow2"
    /\ \/ CloneExists(AtVm(t)) /\ Goto(t, "unlink", idx[t])
       \/ ~CloneExists(AtVm(t)) /\ Goto(t, "remove_disk", idx[t] + 1)
    /\ UNCHANGED <<status, locals, counters, cluster>>

Unlink(t) ==
    /\ At(t, "unlink")
    /\ \/ /\ CloneExists(AtVm(t))
          /\ SetClone(AtVm(t), NoImage)
          /\ Goto(t, "remove_disk", idx[t] + 1)
       \/ /\ ~CloneExists(AtVm(t))
          /\ Raise(t)
          /\ UNCHANGED clones
    /\ UNCHANGED <<status, locals, counters, ovn, golden, domains>>

DisksRemoved(t) ==
    /\ At(t, "remove_disk") /\ ~MoreVms(t)
    /\ UpdateState(t, "Destroyed")
    /\ Finish(t)
    /\ UNCHANGED <<locals, counters, cluster>>

----------------------------------------------------------------------------
(* Failures                                                                 *)

\* The thread is inside the "try" and about to make a call that may raise: not at
\* the end of a loop, at a VM without a disk, or where errors are swallowed.
InCall(t) ==
    \/ pc[t] \in {"add_router", "add_router_port", "add_peer_port", "create_snap",
                  "is_protected", "protect_snap", "list_clones", "clone", "qemu_img",
                  "start", "check_switches", "remove_switch", "unlink"}
    \/ pc[t] = "add_switch" /\ MoreNets(t)
    \/ pc[t] \in {"add_vm_port", "remove_vm_port"} /\ MorePorts(t)
    \/ pc[t] \in {"define", "check_vm", "lookup"} /\ MoreVms(t)
    \/ pc[t] \in {"provision_storage", "remove_disk"} /\ MoreVms(t) /\ ImageAt(t) # NoImage

\* A call raises for a reason of its own: connection, timeout, quota, bad override.
Fault(t) ==
    /\ faults < MaxFaults
    /\ InCall(t)
    /\ faults' = faults + 1
    /\ Raise(t)
    /\ UNCHANGED <<status, locals, swallowed, restarts, cluster>>

\* MissionStore.fail, from the "except" clause of either worker.
RecordFailure(t) ==
    /\ At(t, "failing")
    /\ UpdateState(t, "Error")
    /\ Finish(t)
    /\ UNCHANGED <<locals, counters, cluster>>

\* The service process ends and is started again: the store and every thread are
\* gone, the cluster is not. A mission can be submitted anew (as a new uuid).
Restart ==
    /\ restarts < MaxRestarts
    /\ restarts' = restarts + 1
    /\ status' = [m \in Id |-> "absent"]
    /\ pc' = [t \in Thread |-> "idle"]
    /\ idx' = [t \in Thread |-> 1]
    /\ gpuPool' = [m \in Id |-> PciAddresses]
    /\ gpuOf' = [m \in Id |-> [v \in VM |-> NoPci]]
    /\ valid' = [m \in Id |-> TRUE]
    /\ handle' = [t \in Thread |-> NoName]
    /\ UNCHANGED <<faults, swallowed, cluster>>

----------------------------------------------------------------------------
DeployNetworks(t) ==
    \/ DeployBegins(t) \/ AddRouter(t) \/ AddSwitch(t) \/ AddRouterPort(t)
    \/ AddPeerPort(t) \/ NetworksDone(t) \/ AddVmPort(t) \/ PortsDone(t)

DeployStorage(t) ==
    \/ ListSnaps(t) \/ CreateSnap(t) \/ IsProtected(t) \/ ProtectSnap(t)
    \/ ListClones(t) \/ Clone(t) \/ LocalCloneExists(t) \/ QemuImgCreate(t)
    \/ StorageDone(t)

DeployVms(t) ==
    \/ NoFreeGpu(t) \/ DefineVm(t) \/ StartVm(t) \/ VmsDone(t)
    \/ CheckSwitches(t) \/ CheckVm(t) \/ Verdict(t)

Deploy(t) == DeployNetworks(t) \/ DeployStorage(t) \/ DeployVms(t)

Teardown(t) ==
    \/ TeardownBegins(t) \/ LookupAndStop(t) \/ UndefineVm(t) \/ VmsDestroyed(t)
    \/ RemoveVmPort(t) \/ RemoveSwitch(t) \/ RemoveRouter(t)
    \/ RemoveClone(t) \/ LocalDiskExists(t) \/ Unlink(t) \/ DisksRemoved(t)

\* What a thread does of its own accord.
ThreadStep(t) == Deploy(t) \/ Teardown(t) \/ SkipDiskless(t) \/ RecordFailure(t)

Next ==
    \/ \E m \in Id : CreateMission(m)
    \/ \E m \in Id, k \in 1 .. MaxDeletes : DeleteMission(m, k)
    \/ \E t \in Thread : ThreadStep(t) \/ Fault(t) \/ SwallowedError(t)
    \/ Restart

Spec == Init /\ [][Next]_vars

\* Threads are scheduled and backend calls return.
FairSpec == Spec /\ \A t \in Thread : WF_vars(ThreadStep(t))
==============================================================================
