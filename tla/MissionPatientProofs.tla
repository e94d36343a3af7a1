------------------------- MODULE MissionPatientProofs -------------------------
(***************************************************************************)
(* What MissionService guarantees to patient clients, for any missions     *)
(* that share neither name nor VM, any inventory and any bounds: what      *)
(* Running and Destroyed say of a mission's resources, why a teardown      *)
(* fails only when a backend call fails of its own accord, and that the    *)
(* service implements MissionLifecycle.                                    *)
(***************************************************************************)
EXTENDS MissionResourceProofs

----------------------------------------------------------------------------
(* What a thread has achieved by the time it is at a label.                 *)

\* The labels after the networks, the ports and the disks of a deployment, and after the
\* VMs of a teardown.
AfterNets == {"add_vm_port"} \cup DiskLoop \cup VmLoop \cup CheckLoop
AfterPorts == DiskLoop \cup VmLoop \cup CheckLoop
AfterDisks == VmLoop \cup CheckLoop
PortsOut == {"remove_vm_port", "remove_switch", "remove_disk", "unlink"}

\* A deployment: the router, the networks before the current one, and as much of the
\* current one as was added; then all of them, and so on for ports, disks and VMs.
NetsKnown(t) ==
    /\ pc[t] \in DeployLabel \ {"add_router"} => MissionName(t[1]) \in routers
    /\ pc[t] \in NetLoop => \A j \in 1 .. Len(NetSeq(t[1])) :
                                j < idx[t] => NetUp(t[1], NetSeq(t[1])[j])
    /\ pc[t] \in {"add_router_port", "add_peer_port"} =>
           <<MissionName(t[1]), NetSeq(t[1])[idx[t]]>> \in switches
    /\ pc[t] = "add_peer_port" => <<MissionName(t[1]), NetSeq(t[1])[idx[t]]>> \in routerPorts
    /\ pc[t] \in AfterNets => \A net \in NetsOf(t[1]) : NetUp(t[1], net)

\* The ports likewise.
PortsKnown(t) ==
    /\ pc[t] = "add_vm_port" => \A j \in 1 .. Len(PortSeq(t[1])) :
                                    j < idx[t] => PortUp(t[1], PortSeq(t[1])[j])
    /\ pc[t] \in AfterPorts => \A p \in PortsOf(t[1]) : PortUp(t[1], p)

\* The disks.
DisksKnown(t) ==
    /\ pc[t] \in DiskLoop => \A j \in 1 .. Len(VmSeq(t[1])) :
                                 j < idx[t] => DiskUp(t[1], VmSeq(t[1])[j])
    /\ pc[t] \in AfterDisks => \A v \in VmsOf(t[1]) : DiskUp(t[1], v)

\* The VMs.
VmsKnown(t) ==
    /\ pc[t] \in VmLoop => \A j \in 1 .. Len(VmSeq(t[1])) :
                               j < idx[t] => VmUp(t[1], VmSeq(t[1])[j])
    /\ pc[t] \in CheckLoop => \A v \in VmsOf(t[1]) : VmUp(t[1], v)

\* All a deployment knows.
DeployKnows(t) == NetsKnown(t) /\ PortsKnown(t) /\ DisksKnown(t) /\ VmsKnown(t)

\* What a thread of a teardown knows of the VM it is about to undefine.
Stopped(t) ==
    pc[t] = "undefine" => /\ OwnedBy(HostAt(t), AtVm(t), handle[t])
                          /\ ~Running(HostAt(t), AtVm(t))

\* A teardown, when no error is swallowed: the VMs before the current one are gone, then
\* all of them.
TeardownKnows(t) ==
    /\ pc[t] \in {"lookup", "undefine"} => \A j \in 1 .. Len(VmSeq(t[1])) :
                                               j < idx[t] => VmGone(t[1], VmSeq(t[1])[j])
    /\ Stopped(t)
    /\ pc[t] \in PortsOut => \A v \in VmsOf(t[1]) : VmGone(t[1], v)

\* Whatever is swallowed: the ports before the current one are gone, then all of them; and
\* so on for networks and disks.
TidyKnown(t) ==
    /\ pc[t] = "remove_vm_port" => \A j \in 1 .. Len(PortSeq(t[1])) :
                                       j < idx[t] => ~PortUp(t[1], PortSeq(t[1])[j])
    /\ pc[t] \in PortsOut \ {"remove_vm_port"} => \A p \in VM \X Net : ~PortUp(t[1], p)
    /\ pc[t] = "remove_switch" => \A j \in 1 .. Len(NetSeq(t[1])) :
                                      j < idx[t] => NetGone(t[1], NetSeq(t[1])[j])
    /\ pc[t] \in {"remove_disk", "unlink"} =>
           /\ NoRows(t[1])
           /\ \A j \in 1 .. Len(VmSeq(t[1])) : j < idx[t] => DiskGone(t[1], VmSeq(t[1])[j])
    /\ pc[t] = "unlink" => Backend = "local_qcow2" /\ ~DiskGone(t[1], VmSeq(t[1])[idx[t]])

\* No row and no disk of the mission exists.
Tidy(m) == NoRows(m) /\ \A v \in VmsOf(m) : DiskGone(m, v)

\* A domain of a linked-clone VM has a disk, and while it runs the disk is there.
DisksHeld(m) ==
    \A v \in LinkedOf(m), h \in Host : Defined(h, v) =>
        /\ domains[<<h, v>>].disk
        /\ Running(h, v) => DiskPresent(v)

\* The inductive invariant of patient clients' missions.
ExtentInv ==
    /\ ControlInv
    /\ DomainsOwned
    /\ \A m \in Id : Contained(m) /\ DisksHeld(m)
    /\ \A t \in Thread : DeployKnows(t) /\ TidyKnown(t)
    /\ \A m \in Id : /\ status[m] = "Running" => Complete(m)
                     /\ status[m] = "Destroyed" => Tidy(m)

\* No domain has lost its definition.
Persistent == \A h \in Host, v \in VM : Defined(h, v) => domains[<<h, v>>].persistent

\* What more holds as long as no libvirt error was swallowed.
GoneInv ==
    /\ Persistent
    /\ \A t \in Thread : TeardownKnows(t)
    /\ \A m \in Id : status[m] = "Destroyed" => Bare(m)

PatientInv == ExtentInv /\ (swallowed = 0 => GoneInv)

\* provision_networks and add_vm_ports: each call adds the row its successors rely on.
LEMMA NetworksKnown ==
    ASSUME TypeInv, NEW t \in Thread, Adds, DeployKnows(t), DeployNetworks(t)
    PROVE  DeployKnows(t)'
  <1> USE DEF TypeInv
  <1> DEFINE m == t[1]
             nets == NetSeq(m)
             ports == PortSeq(m)
  <1>a. PICK i : i = idx[t]
    OBVIOUS
  <1>0. /\ m \in Id /\ NameOf(t) = MissionName(m) /\ idx[t] \in Nat /\ idx[t] # 0
        /\ nets \in Seq(Net) /\ ports \in Seq(VM \X Net)
    BY SpecTypes, SubmittedAssumption
       DEF NameOf, SpecOf, MissionName, TypeOK, IndexOK, MissionSpec, NetSeq, PortSeq
  <1>1. /\ MissionName(m) \in routers => MissionName(m) \in routers'
        /\ switches \subseteq switches' /\ routerPorts \subseteq routerPorts'
        /\ \A net : NetUp(m, net) => NetUp(m, net)'
        /\ \A p : PortUp(m, p) => PortUp(m, p)'
    BY <1>0, AddsKeep DEF Adds
  <1> USE DEF DeployKnows, NetsKnown, PortsKnown, DisksKnown, VmsKnown, AfterNets, AfterPorts,
              AfterDisks, NetLoop, DiskLoop, VmLoop, CheckLoop, DeployLabel
  <1>2. CASE DeployBegins(t)
    BY <1>2 DEF DeployBegins, Goto, Finish, TypeOK
  <1>3. CASE AddRouter(t)
    <2>1. pc'[t] = "add_switch" /\ idx'[t] = 1 /\ MissionName(m) \in routers'
      BY <1>0, <1>3 DEF AddRouter, Goto, LrAdd, TypeOK
    <2> QED BY <2>1
  <1>4. CASE AddSwitch(t)
    <2>1. /\ pc[t] = "add_switch" /\ pc'[t] = "add_router_port" /\ idx'[t] = idx[t]
          /\ <<MissionName(m), nets[idx[t]]>> \in switches'
      BY <1>0, <1>4, CurrentElement DEF AddSwitch, At, Goto, LsAdd, TypeOK
    <2> QED BY <1>1, <2>1
  <1>5. CASE AddRouterPort(t)
    <2>1. CASE pc'[t] = "failing"
      BY <2>1
    <2>2. CASE pc'[t] # "failing"
      <3>1. /\ pc[t] = "add_router_port" /\ pc'[t] = "add_peer_port" /\ idx'[t] = idx[t]
            /\ <<MissionName(m), nets[idx[t]]>> \in routerPorts'
        BY <1>0, <1>5, <2>2, CurrentElement
           DEF AddRouterPort, At, Goto, Raise, LrpAdd, TypeOK, IndexOK, NetLabel
      <3> QED BY <1>1, <3>1
    <2> QED BY <2>1, <2>2
  <1>6. CASE AddPeerPort(t)
    <2>1. CASE pc'[t] = "failing"
      BY <2>1
    <2>2. CASE pc'[t] # "failing"
      <3>1. /\ pc[t] = "add_peer_port" /\ pc'[t] = "add_switch" /\ idx'[t] = idx[t] + 1
            /\ <<MissionName(m), nets[idx[t]]>> \in peerPorts'
        BY <1>0, <1>6, <2>2, CurrentElement
           DEF AddPeerPort, At, Goto, Raise, PeerAdd, TypeOK, IndexOK, NetLabel
      <3>2. NetUp(m, nets[i])'
        BY <1>1, <1>a, <3>1 DEF NetUp
      <3>3. \A j \in 1 .. Len(nets) : j < i + 1 => NetUp(m, nets[j])'
        <4> TAKE j \in 1 .. Len(nets)
        <4>1. Len(nets) \in Nat
          BY <1>0
        <4>2. CASE j = i
          BY <3>2, <4>2
        <4>3. CASE j < i
          BY <1>1, <1>a, <3>1, <4>3
        <4> QED BY <1>0, <1>a, <4>1, <4>2, <4>3
      <3> QED BY <1>1, <1>a, <3>1, <3>3
    <2> QED BY <2>1, <2>2
  <1>7. CASE NetworksDone(t)
    <2>1. /\ pc[t] = "add_switch" /\ pc'[t] = "add_vm_port" /\ idx'[t] = 1
          /\ Len(nets) \in Nat /\ idx[t] > Len(nets)
      BY <1>0, <1>7 DEF NetworksDone, At, Goto, MoreNets, SpecOf, NetSeq, TypeOK
    <2>2. \A net \in NetsOf(m) : NetUp(m, net)'
      <3>1. \A j \in 1 .. Len(nets) : NetUp(m, nets[j])
        BY <1>0, <2>1
      <3>2. NetsOf(m) = {nets[j] : j \in 1 .. Len(nets)}
        BY <1>0, Elements
      <3> QED BY <1>1, <3>1, <3>2
    <2> QED BY <1>1, <2>1, <2>2 DEF NetsOf
  <1>8. CASE AddVmPort(t)
    <2>1. CASE pc'[t] = "failing"
      BY <2>1
    <2>2. CASE pc'[t] # "failing"
      <3>1. /\ pc[t] = "add_vm_port" /\ pc'[t] = "add_vm_port" /\ idx'[t] = idx[t] + 1
            /\ PortUp(m, ports[i])'
        BY <1>0, <1>a, <1>8, <2>2, CurrentElement
           DEF AddVmPort, At, Goto, Raise, LspAdd, TypeOK, PortUp
      <3>3. \A j \in 1 .. Len(ports) : j < i + 1 => PortUp(m, ports[j])'
        <4> TAKE j \in 1 .. Len(ports)
        <4>1. Len(ports) \in Nat
          BY <1>0
        <4>2. CASE j = i
          BY <3>1, <4>2
        <4>3. CASE j < i
          BY <1>1, <1>a, <3>1, <4>3
        <4> QED BY <1>0, <1>a, <4>1, <4>2, <4>3
      <3> QED BY <1>1, <1>a, <3>1, <3>3 DEF NetsOf
    <2> QED BY <2>1, <2>2
  <1>9. CASE PortsDone(t)
    <2>1. /\ pc[t] = "add_vm_port" /\ pc'[t] = "provision_storage" /\ idx'[t] = 1
          /\ Len(ports) \in Nat /\ idx[t] > Len(ports)
      BY <1>0, <1>9 DEF PortsDone, At, Goto, MorePorts, SpecOf, PortSeq, TypeOK
    <2>2. \A p \in PortsOf(m) : PortUp(m, p)'
      <3>1. \A j \in 1 .. Len(ports) : PortUp(m, ports[j])
        BY <1>0, <2>1
      <3>2. PortsOf(m) = {ports[j] : j \in 1 .. Len(ports)}
        BY <1>0, Elements
      <3> QED BY <1>1, <3>1, <3>2
    <2> QED BY <1>1, <2>1, <2>2 DEF NetsOf, PortsOf
  <1> QED BY <1>2, <1>3, <1>4, <1>5, <1>6, <1>7, <1>8, <1>9 DEF DeployNetworks

\* What a deployment knows of networks and ports stays known while it goes on to disks
\* and VMs.
LEMMA EarlierStaysKnown ==
    ASSUME NEW t \in Thread, Adds, DeployKnows(t), pc[t] \in AfterPorts,
           pc'[t] \in AfterPorts \cup {"failing", "done"}
    PROVE  NetsKnown(t)' /\ PortsKnown(t)'
  <1>1. t[1] \in Id
    BY SpecTypes
  <1> QED BY <1>1, AddsKeep
          DEF DeployKnows, NetsKnown, PortsKnown, AfterNets, AfterPorts, NetLoop, DiskLoop, VmLoop,
              CheckLoop, DeployLabel, NetsOf, PortsOf

\* provision_storage: a VM is passed when its disk is made from its image or it has none.
LEMMA StorageKnown ==
    ASSUME TypeInv, NEW t \in Thread, Adds, Contained(t[1]), DeployKnows(t),
           DeployStorage(t) \/ SkipDiskless(t)
    PROVE  DeployKnows(t)'
  <1> USE DEF TypeInv
  <1> DEFINE m == t[1]
             seq == VmSeq(m)
  <1>a. PICK i, v : i = idx[t] /\ v = AtVm(t)
    OBVIOUS
  <1>0. /\ m \in Id /\ i \in Nat /\ i # 0 /\ Len(seq) \in Nat
        /\ LinkedOf(m) \subseteq VM
    BY <1>a, SpecTypes, SubmittedAssumption, Elements
       DEF TypeOK, IndexOK, MissionSpec, VmSeq
  <1>1. /\ \A w \in VmsOf(m) : DiskUp(m, w) => DiskUp(m, w)'
        /\ VmsOf(m) = {seq[j] : j \in 1 .. Len(seq)}
    BY <1>0, AddsKeep, Elements
  <1> USE DEF AfterPorts, AfterDisks, DiskLoop, VmLoop, CheckLoop
  <1>2. CASE pc[t] = "remove_disk"
    BY <1>2
       DEF DeployStorage, SkipDiskless, ListSnaps, CreateSnap, IsProtected, ProtectSnap, ListClones,
           Clone, LocalCloneExists, QemuImgCreate, StorageDone, At, Goto, TypeOK, DeployKnows,
           NetsKnown, PortsKnown, DisksKnown, VmsKnown, AfterNets, NetLoop, DeployLabel
  <1>3. ASSUME pc[t] \in DiskLoop, pc'[t] \in DiskLoop, idx'[t] = idx[t]
        PROVE  DeployKnows(t)'
    <2>1. NetsKnown(t)' /\ PortsKnown(t)'
      BY <1>3, EarlierStaysKnown
    <2>2. \A j \in 1 .. Len(seq) : j < i => DiskUp(m, seq[j])'
      BY <1>a, <1>1, <1>3 DEF DeployKnows, DisksKnown
    <2>3. DisksKnown(t)' /\ VmsKnown(t)'
      BY <1>a, <1>3, <2>2 DEF DisksKnown, VmsKnown
    <2> QED BY <2>1, <2>3 DEF DeployKnows
  <1>4. ASSUME pc[t] \in DiskLoop, pc'[t] = "provision_storage", idx'[t] = idx[t] + 1,
               MoreVms(t), DiskUp(m, v)'
        PROVE  DeployKnows(t)'
    <2>1. NetsKnown(t)' /\ PortsKnown(t)'
      BY <1>4, EarlierStaysKnown
    <2>2. \A j \in 1 .. Len(seq) : j < i + 1 => DiskUp(m, seq[j])'
      <3> TAKE j \in 1 .. Len(seq)
      <3>1. CASE j = i
        BY <1>a, <1>4, <3>1, CurrentElement
      <3>2. CASE j < i
        BY <1>a, <1>1, <1>4, <3>2 DEF DeployKnows, DisksKnown
      <3> QED BY <1>0, <3>1, <3>2
    <2>3. DisksKnown(t)' /\ VmsKnown(t)'
      BY <1>a, <1>4, <2>2 DEF DisksKnown, VmsKnown
    <2> QED BY <2>1, <2>3 DEF DeployKnows
  <1>5. ASSUME pc[t] \in DiskLoop, pc'[t] = "failing" PROVE DeployKnows(t)'
    BY <1>5
       DEF DeployKnows, NetsKnown, PortsKnown, DisksKnown, VmsKnown, AfterNets, NetLoop, DeployLabel
  <1>6. CASE SkipDiskless(t) /\ pc[t] = "provision_storage"
    <2>1. MoreVms(t) /\ v \notin LinkedOf(m)
      BY <1>a, <1>6, CurrentElement DEF SkipDiskless
    <2>2. DiskUp(m, v)'
      BY <2>1 DEF DiskUp, LinkedOf, VmsOf
    <2> QED BY <1>4, <1>6, <2>1, <2>2 DEF SkipDiskless, Goto, TypeOK
  <1>7. CASE ListSnaps(t) \/ CreateSnap(t) \/ IsProtected(t) \/ ProtectSnap(t)
    BY <1>3, <1>5, <1>7
       DEF ListSnaps, CreateSnap, IsProtected, ProtectSnap, At, Goto, Raise, TypeOK
  <1>8. CASE ListClones(t) \/ LocalCloneExists(t)
    <2>1. MoreVms(t) /\ ImageAt(t) # NoImage /\ pc[t] \in DiskLoop /\ UNCHANGED clones
      BY <1>8 DEF ListClones, LocalCloneExists, At, IndexOK, DiskLabel, cluster, rbd
    <2>2. v \in LinkedOf(m)
      BY <1>a, <2>1, CurrentElement
    <2>3. CloneExists(v) => DiskUp(m, v)'
      BY <2>1, <2>2 DEF Contained, CloneExists, DiskUp
    <2> QED BY <1>3, <1>4, <1>8, <1>a, <2>1, <2>3
            DEF ListClones, LocalCloneExists, At, Goto, TypeOK
  <1>9. CASE Clone(t) \/ QemuImgCreate(t)
    <2>1. MoreVms(t) /\ pc[t] \in DiskLoop
      BY <1>9 DEF Clone, QemuImgCreate, At, IndexOK, DiskLabel
    <2>2. v \in VM /\ ImageAt(t) = Submitted[m].image[v]
      BY <1>0, <1>a, <2>1, CurrentElement, Elements
    <2>3. SetClone(v, ImageAt(t)) => DiskUp(m, v)'
      BY <2>2 DEF SetClone, DiskUp, TypeOK, ClusterTypeOK
    <2> QED BY <1>4, <1>5, <1>9, <1>a, <2>1, <2>3
            DEF Clone, QemuImgCreate, Goto, Raise, TypeOK
  <1>10. CASE StorageDone(t)
    <2>1. /\ pc[t] = "provision_storage" /\ pc'[t] = "define" /\ idx'[t] = 1 /\ i > Len(seq)
      BY <1>0, <1>10, <1>a DEF StorageDone, At, Goto, MoreVms, SpecOf, VmSeq, TypeOK
    <2>2. \A w \in VmsOf(m) : DiskUp(m, w)'
      <3>1. \A j \in 1 .. Len(seq) : DiskUp(m, seq[j])
        BY <1>0, <1>a, <2>1 DEF DeployKnows, DisksKnown
      <3> QED BY <1>1, <3>1
    <2>3. NetsKnown(t)' /\ PortsKnown(t)'
      BY <2>1, EarlierStaysKnown
    <2>4. DisksKnown(t)' /\ VmsKnown(t)'
      BY <2>1, <2>2 DEF DisksKnown, VmsKnown, VmsOf
    <2> QED BY <2>3, <2>4 DEF DeployKnows
  <1> QED BY <1>2, <1>6, <1>7, <1>8, <1>9, <1>10 DEF DeployStorage, SkipDiskless

\* Defining, starting and validating: a VM is passed when it runs where it is placed.
LEMMA VmsStayKnown ==
    ASSUME TypeInv, NEW t \in Thread, Adds, DeployKnows(t), DeployVms(t)
    PROVE  DeployKnows(t)'
  <1> USE DEF TypeInv
  <1> DEFINE m == t[1]
             seq == VmSeq(m)
  <1>a. PICK i, v, h : i = idx[t] /\ v = AtVm(t) /\ h = HostAt(t)
    OBVIOUS
  <1>0. /\ m \in Id /\ i \in Nat /\ i # 0 /\ Len(seq) \in Nat /\ NameOf(t) = MissionName(m)
    BY <1>a, SpecTypes, SubmittedAssumption, Elements
       DEF TypeOK, IndexOK, MissionSpec, VmSeq, NameOf, SpecOf, MissionName
  <1>1. /\ \A w \in VmsOf(m) : /\ DiskUp(m, w) => DiskUp(m, w)'
                               /\ VmUp(m, w) => VmUp(m, w)'
        /\ VmsOf(m) = {seq[j] : j \in 1 .. Len(seq)}
    BY <1>0, AddsKeep, Elements
  <1> USE DEF AfterPorts, AfterDisks, DiskLoop, VmLoop, CheckLoop
  <1>2. ASSUME pc'[t] \in {"failing", "done"} PROVE DeployKnows(t)'
    BY <1>2
       DEF DeployKnows, NetsKnown, PortsKnown, DisksKnown, VmsKnown, AfterNets, NetLoop, DeployLabel
  <1>3. ASSUME pc[t] \in AfterDisks, pc'[t] \in AfterDisks
        PROVE  NetsKnown(t)' /\ PortsKnown(t)' /\ DisksKnown(t)'
    <2>1. NetsKnown(t)' /\ PortsKnown(t)'
      BY <1>3, EarlierStaysKnown
    <2>2. \A w \in VmsOf(m) : DiskUp(m, w)'
      BY <1>1, <1>3 DEF DeployKnows, DisksKnown
    <2> QED BY <1>3, <2>1, <2>2 DEF DisksKnown, VmsOf
  <1>4. CASE NoFreeGpu(t)
    BY <1>2, <1>4 DEF NoFreeGpu, Raise, Goto, TypeOK
  <1>5. CASE DefineVm(t)
    <2>1. CASE pc'[t] = "failing"
      BY <1>2, <2>1
    <2>2. CASE pc'[t] # "failing"
      <3>1. pc[t] = "define" /\ pc'[t] = "start" /\ idx'[t] = i
        BY <1>5, <1>a, <2>2 DEF DefineVm, At, Goto, Raise, TypeOK
      <3>2. \A j \in 1 .. Len(seq) : j < i => VmUp(m, seq[j])'
        BY <1>1, <1>a, <3>1 DEF DeployKnows, VmsKnown
      <3> QED BY <1>3, <3>1, <3>2 DEF DeployKnows, VmsKnown
    <2> QED BY <2>1, <2>2
  <1>6. CASE StartVm(t)
    <2>1. CASE pc'[t] = "failing"
      BY <1>2, <2>1
    <2>2. CASE pc'[t] # "failing"
      <3>1. /\ pc[t] = "start" /\ pc'[t] = "define" /\ idx'[t] = i + 1 /\ MoreVms(t)
            /\ OwnedBy(h, v, MissionName(m)) /\ Start(h, v)
        BY <1>0, <1>6, <1>a, <2>2
           DEF StartVm, CanStart, At, Goto, Raise, TypeOK, IndexOK, VmLabel
      <3>2. /\ v = seq[i] /\ v \in VM /\ h \in Host /\ h = PlaceOf(m, v)
        BY <1>0, <1>a, <3>1, CurrentElement, Elements
      <3>3. VmUp(m, v)'
        BY <3>1, <3>2, StartEffect DEF VmUp, OwnedBy, Running, PlaceOf
      <3>4. \A j \in 1 .. Len(seq) : j < i + 1 => VmUp(m, seq[j])'
        <4> TAKE j \in 1 .. Len(seq)
        <4>1. CASE j = i
          BY <3>2, <3>3, <4>1
        <4>2. CASE j < i
          BY <1>1, <1>a, <3>1, <4>2 DEF DeployKnows, VmsKnown
        <4> QED BY <1>0, <4>1, <4>2
      <3> QED BY <1>3, <3>1, <3>4 DEF DeployKnows, VmsKnown
    <2> QED BY <2>1, <2>2
  <1>7. CASE VmsDone(t)
    <2>1. /\ pc[t] = "define" /\ pc'[t] = "check_switches" /\ i > Len(seq)
      BY <1>0, <1>7, <1>a DEF VmsDone, At, Goto, MoreVms, SpecOf, VmSeq, TypeOK
    <2>2. \A w \in VmsOf(m) : VmUp(m, w)'
      <3>1. \A j \in 1 .. Len(seq) : VmUp(m, seq[j])
        BY <1>0, <1>a, <2>1 DEF DeployKnows, VmsKnown
      <3> QED BY <1>1, <3>1
    <2> QED BY <1>3, <2>1, <2>2 DEF DeployKnows, VmsKnown, VmsOf
  <1>8. CASE CheckSwitches(t) \/ CheckVm(t)
    <2>1. pc[t] \in CheckLoop /\ pc'[t] \in CheckLoop
      BY <1>8 DEF CheckSwitches, CheckVm, At, Goto, TypeOK
    <2>2. \A w \in VmsOf(m) : VmUp(m, w)'
      BY <1>1, <2>1 DEF DeployKnows, VmsKnown
    <2> QED BY <1>3, <2>1, <2>2 DEF DeployKnows, VmsKnown, VmsOf
  <1>9. CASE Verdict(t)
    BY <1>2, <1>9 DEF Verdict, Finish, Raise, Goto, TypeOK
  <1> QED BY <1>4, <1>5, <1>6, <1>7, <1>8, <1>9 DEF DeployVms

\* A step to a label where a teardown knows nothing of its own.
LEMMA NothingToKnow ==
    ASSUME NEW t \in Thread, pc'[t] \notin TeardownLabel
    PROVE  TeardownKnows(t)' /\ TidyKnown(t)'
  BY DEF TeardownKnows, TidyKnown, Stopped, PortsOut, TeardownLabel

\* The teardown of the VMs: one that is passed is not defined any more.
LEMMA VmsGoneKnown ==
    ASSUME TypeInv, Persistent, NEW t \in Thread, Removes, TeardownKnows(t),
           TeardownBegins(t) \/ LookupAndStop(t) \/ UndefineVm(t) \/ VmsDestroyed(t)
    PROVE  TeardownKnows(t)'
  <1> USE DEF TypeInv
  <1> DEFINE m == t[1]
             seq == VmSeq(m)
  <1>a. PICK i, v, h : i = idx[t] /\ v = AtVm(t) /\ h = HostAt(t)
    OBVIOUS
  <1>b. m \in Id /\ seq \in Seq(VM)
    BY SpecTypes, SubmittedAssumption DEF MissionSpec, VmSeq
  <1>0. /\ m \in Id /\ i \in Nat /\ i # 0 /\ Len(seq) \in Nat /\ VmsOf(m) \subseteq VM
        /\ VmsOf(m) = {seq[j] : j \in 1 .. Len(seq)}
    BY <1>a, <1>b, Elements DEF TypeOK, IndexOK
  <1>1. \A w \in VmsOf(m) : VmGone(m, w) => VmGone(m, w)'
    BY <1>0, RemovesKeep
  <1>2. ASSUME pc'[t] = "lookup", idx'[t] = 1 PROVE TeardownKnows(t)'
    BY <1>0, <1>2 DEF TeardownKnows, Stopped, PortsOut
  <1>3. ASSUME pc[t] \in {"lookup", "undefine"}
        PROVE  \A j \in 1 .. Len(seq) : j < i => VmGone(m, seq[j])'
    BY <1>0, <1>1, <1>3, <1>a DEF TeardownKnows
  <1>4. ASSUME pc[t] \in {"lookup", "undefine"}, pc'[t] = "lookup", idx'[t] = i + 1, MoreVms(t),
               VmGone(m, v)'
        PROVE  TeardownKnows(t)'
    <2>1. \A j \in 1 .. Len(seq) : j < i + 1 => VmGone(m, seq[j])'
      <3> TAKE j \in 1 .. Len(seq)
      <3>1. CASE j = i
        BY <1>4, <1>a, <3>1, CurrentElement
      <3>2. CASE j < i
        BY <1>3, <1>4, <3>2
      <3> QED BY <1>0, <3>1, <3>2
    <2> QED BY <1>4, <2>1 DEF TeardownKnows, Stopped, PortsOut
  <1>5. CASE TeardownBegins(t)
    BY <1>2, <1>5, NothingToKnow DEF TeardownBegins, Goto, Finish, TypeOK, TeardownLabel
  <1>6. CASE LookupAndStop(t)
    <2>1. /\ MoreVms(t) /\ pc[t] = "lookup"
          /\ v \in VmsOf(m) /\ v \in VM /\ h \in Host /\ h = PlaceOf(m, v)
      BY <1>0, <1>6, <1>a, CurrentElement, Elements DEF LookupAndStop, At
    <2>2. CASE ~Defined(h, v)
      <3>1. pc'[t] = "lookup" /\ idx'[t] = i + 1 /\ VmGone(m, v)
        BY <1>6, <1>a, <2>1, <2>2 DEF LookupAndStop, Goto, TypeOK, VmGone
      <3> QED BY <1>1, <1>4, <2>1, <3>1
    <2>3. CASE Defined(h, v)
      <3>1. /\ pc'[t] = "undefine" /\ idx'[t] = i
            /\ handle'[t] = domains[<<h, v>>].owner
            /\ IF Running(h, v) THEN Stop(h, v) ELSE UNCHANGED domains
        BY <1>6, <1>a, <2>1, <2>3 DEF LookupAndStop, Goto, TypeOK
      <3>2. domains[<<h, v>>].persistent
        BY <2>1, <2>3 DEF Persistent
      <3>3. /\ Defined(h, v)' /\ ~(Running(h, v)')
            /\ domains'[<<h, v>>].owner = domains[<<h, v>>].owner
        <4>1. CASE Running(h, v)
          BY <2>1, <2>3, <3>1, <3>2, <4>1, StopEffect
        <4>2. CASE ~Running(h, v)
          BY <2>3, <3>1, <4>2 DEF Running, Defined
        <4> QED BY <4>1, <4>2
      <3>4. Stopped(t)'
        <4>1. AtVm(t)' = v /\ HostAt(t)' = h
          BY <1>a, <3>1 DEF HostAt, AtVm, SpecOf
        <4> QED BY <3>1, <3>3, <4>1 DEF Stopped, OwnedBy, Running, Defined
      <3> QED BY <1>3, <1>a, <2>1, <3>1, <3>4 DEF TeardownKnows, PortsOut
    <2> QED BY <2>2, <2>3
  <1>7. CASE UndefineVm(t)
    <2>1. /\ MoreVms(t) /\ pc[t] = "undefine" /\ pc'[t] = "lookup" /\ idx'[t] = i + 1
          /\ v \in VmsOf(m) /\ v \in VM /\ h \in Host /\ h = PlaceOf(m, v)
      BY <1>0, <1>7, <1>a, CurrentElement, Elements
         DEF UndefineVm, At, Goto, IndexOK, VmLabel, TypeOK
    <2>2. OwnedBy(h, v, handle[t]) /\ ~Running(h, v) /\ Defined(h, v)
      BY <1>a, <2>1 DEF TeardownKnows, Stopped, OwnedBy
    <2>3. domains[<<h, v>>].persistent
      BY <2>1, <2>2 DEF Persistent
    <2>4. VmGone(m, v)'
      BY <1>7, <1>a, <2>1, <2>2, <2>3, UndefineEffect DEF UndefineVm, VmGone, PlaceOf
    <2> QED BY <1>4, <2>1, <2>4
  <1>8. CASE VmsDestroyed(t)
    <2>1. /\ pc[t] = "lookup" /\ pc'[t] = "remove_vm_port" /\ idx'[t] = 1 /\ i > Len(seq)
      BY <1>0, <1>8, <1>a DEF VmsDestroyed, At, Goto, MoreVms, SpecOf, VmSeq, TypeOK
    <2>2. \A w \in VmsOf(m) : VmGone(m, w)'
      BY <1>0, <1>3, <2>1
    <2> QED BY <1>0, <2>1, <2>2 DEF TeardownKnows, Stopped, PortsOut, VmsOf
  <1> QED BY <1>5, <1>6, <1>7, <1>8

\* The teardown of the rows: a port or a network that is passed is gone, and when the
\* router is gone too, nothing hangs from it.
LEMMA RowsGoneKnown ==
    ASSUME TypeInv, NEW t \in Thread, Contained(t[1]), Removes, TidyKnown(t),
           RemoveVmPort(t) \/ RemoveSwitch(t) \/ RemoveRouter(t)
    PROVE  TidyKnown(t)'
  <1> USE DEF TypeInv
  <1> DEFINE m == t[1]
             n == MissionName(m)
             nets == NetSeq(m)
             ports == PortSeq(m)
  <1>a. PICK i : i = idx[t]
    OBVIOUS
  <1>b. m \in Id /\ nets \in Seq(Net) /\ ports \in Seq(VM \X Net)
    BY SpecTypes, SubmittedAssumption DEF MissionSpec, NetSeq, PortSeq
  <1>0. /\ m \in Id /\ i \in Nat /\ i # 0 /\ Len(nets) \in Nat /\ Len(ports) \in Nat
        /\ NetsOf(m) = {nets[j] : j \in 1 .. Len(nets)}
        /\ PortsOf(m) = {ports[j] : j \in 1 .. Len(ports)}
        /\ NameOf(t) = n
    <2>1. NameOf(t) = n
      BY DEF NameOf, SpecOf, MissionName
    <2>2. i \in Nat /\ i # 0 /\ Len(nets) \in Nat /\ Len(ports) \in Nat
      BY <1>a, <1>b DEF TypeOK, IndexOK
    <2> QED BY <1>b, <2>1, <2>2, Elements
  <1>1. /\ \A net : NetGone(m, net) => NetGone(m, net)'
        /\ \A p : ~PortUp(m, p) => ~(PortUp(m, p)')
    BY <1>0, RemovesKeep
  <1>2. pc[t] \in PortsOut
    BY DEF PortsOut, RemoveVmPort, RemoveSwitch, RemoveRouter, At
  <1>3. CASE RemoveVmPort(t) /\ MorePorts(t)
    <2>1. /\ pc[t] = "remove_vm_port" /\ pc'[t] = "remove_vm_port" /\ idx'[t] = i + 1
          /\ ~(PortUp(m, ports[i])')
      BY <1>0, <1>3, <1>a, CurrentElement DEF RemoveVmPort, At, Goto, LspDel, PortUp, TypeOK
    <2>2. \A j \in 1 .. Len(ports) : j < i + 1 => ~(PortUp(m, ports[j])')
      <3> TAKE j \in 1 .. Len(ports)
      <3>1. CASE j = i
        BY <2>1, <3>1
      <3>2. CASE j < i
        BY <1>1, <1>a, <2>1, <3>2 DEF TidyKnown
      <3> QED BY <1>0, <3>1, <3>2
    <2> QED BY <1>2, <2>1, <2>2 DEF TidyKnown, PortsOut, VmsOf
  <1>4. CASE RemoveVmPort(t) /\ ~MorePorts(t)
    <2>1. /\ pc[t] = "remove_vm_port" /\ pc'[t] = "remove_switch" /\ idx'[t] = 1
          /\ i > Len(ports)
      BY <1>0, <1>4, <1>a DEF RemoveVmPort, At, Goto, MorePorts, SpecOf, PortSeq, TypeOK
    <2>2. \A p \in PortsOf(m) : ~PortUp(m, p)
      <3>1. \A j \in 1 .. Len(ports) : ~PortUp(m, ports[j])
        BY <1>0, <1>a, <2>1 DEF TidyKnown
      <3> QED BY <1>0, <3>1
    <2>3. \A p \in VM \X Net : ~PortUp(m, p)
      BY <2>2 DEF Contained, PortUp
    <2> QED BY <1>0, <1>1, <1>2, <2>1, <2>3 DEF TidyKnown, PortsOut, VmsOf
  <1>5. CASE RemoveSwitch(t)
    <2>1. /\ pc[t] = "remove_switch" /\ pc'[t] = "remove_switch" /\ idx'[t] = i + 1
          /\ NetGone(m, nets[i])'
      BY <1>0, <1>5, <1>a, CurrentElement DEF RemoveSwitch, At, Goto, LsDel, NetGone, TypeOK
    <2>2. \A j \in 1 .. Len(nets) : j < i + 1 => NetGone(m, nets[j])'
      <3> TAKE j \in 1 .. Len(nets)
      <3>1. CASE j = i
        BY <2>1, <3>1
      <3>2. CASE j < i
        BY <1>1, <1>a, <2>1, <3>2 DEF TidyKnown
      <3> QED BY <1>0, <3>1, <3>2
    <2>3. \A p \in VM \X Net : ~(PortUp(m, p)')
      BY <1>1, <2>1 DEF TidyKnown, PortsOut
    <2> QED BY <1>2, <2>1, <2>2, <2>3 DEF TidyKnown, PortsOut, VmsOf
  <1>6. CASE RemoveRouter(t)
    <2>1. /\ pc[t] = "remove_switch" /\ pc'[t] = "remove_disk" /\ idx'[t] = 1
          /\ i > Len(nets) /\ LrDel(n)
      BY <1>0, <1>6, <1>a DEF RemoveRouter, At, Goto, MoreNets, SpecOf, NetSeq, TypeOK
    <2>2. \A net \in Net : NetGone(m, net)
      <3>1. \A j \in 1 .. Len(nets) : NetGone(m, nets[j])
        BY <1>0, <1>a, <2>1 DEF TidyKnown
      <3>2. \A net \in NetsOf(m) : NetGone(m, net)
        BY <1>0, <3>1
      <3> QED BY <3>2 DEF Contained, NetGone
    <2>3. \A p \in VM \X Net : ~(PortUp(m, p)')
      BY <1>1, <2>1 DEF TidyKnown, PortsOut
    <2>4. n \notin routers' /\ \A net \in Net : <<n, net>> \notin routerPorts'
      BY <2>1 DEF LrDel
    <2>5. NoRows(m)'
      BY <1>1, <2>2, <2>3, <2>4 DEF NoRows, MissionName
    <2> QED BY <1>0, <1>2, <2>1, <2>3, <2>5 DEF TidyKnown, PortsOut, VmsOf
  <1> QED BY <1>3, <1>4, <1>5, <1>6

\* The teardown of the disks: a disk that is passed is gone.
LEMMA DisksGoneKnown ==
    ASSUME TypeInv, NEW t \in Thread, Removes, TidyKnown(t),
           RemoveClone(t) \/ LocalDiskExists(t) \/ Unlink(t) \/ DisksRemoved(t) \/ SkipDiskless(t)
    PROVE  TidyKnown(t)'
  <1> USE DEF TypeInv
  <1> DEFINE m == t[1]
             seq == VmSeq(m)
  <1>a. PICK i, v : i = idx[t] /\ v = AtVm(t)
    OBVIOUS
  <1>b. m \in Id /\ seq \in Seq(VM)
    BY SpecTypes, SubmittedAssumption DEF MissionSpec, VmSeq
  <1>0. /\ m \in Id /\ i \in Nat /\ i # 0 /\ Len(seq) \in Nat /\ VmsOf(m) \subseteq VM
        /\ VmsOf(m) = {seq[j] : j \in 1 .. Len(seq)}
    BY <1>a, <1>b, Elements DEF TypeOK, IndexOK
  <1>1. CASE pc'[t] \notin TeardownLabel
    BY <1>1, NothingToKnow
  <1>2. CASE pc'[t] \in TeardownLabel
    <2>1. /\ pc[t] \in {"remove_disk", "unlink"} /\ pc'[t] \in {"remove_disk", "unlink"}
          /\ MoreVms(t)
      BY <1>2
         DEF RemoveClone, LocalDiskExists, Unlink, DisksRemoved, SkipDiskless, At, Goto, Raise,
             Finish, TypeOK, TeardownLabel, IndexOK, DiskLabel
    <2>2. /\ NoRows(m)'
          /\ \A p \in VM \X Net : ~(PortUp(m, p)')
          /\ \A j \in 1 .. Len(seq) : j < i => DiskGone(m, seq[j])'
      BY <1>0, <1>a, <2>1, RemovesKeep DEF TidyKnown, PortsOut
    <2>3. v = seq[i] /\ v \in VmsOf(m) /\ v \in VM /\ (ImageAt(t) # NoImage <=> v \in LinkedOf(m))
      BY <1>0, <1>a, <2>1, CurrentElement
    <2>4. CASE pc'[t] = "unlink" /\ idx'[t] = i /\ ~(DiskGone(m, v)') /\ Backend = "local_qcow2"
      BY <2>2, <2>3, <2>4 DEF TidyKnown, PortsOut, VmsOf
    <2>5. CASE pc'[t] = "remove_disk" /\ idx'[t] = i + 1 /\ DiskGone(m, v)'
      <3>1. \A j \in 1 .. Len(seq) : j < i + 1 => DiskGone(m, seq[j])'
        <4> TAKE j \in 1 .. Len(seq)
        <4>1. CASE j = i
          BY <2>3, <2>5, <4>1
        <4>2. CASE j < i
          BY <2>2, <4>2
        <4> QED BY <1>0, <4>1, <4>2
      <3> QED BY <2>2, <2>5, <3>1 DEF TidyKnown, PortsOut, VmsOf
    <2>6. CASE RemoveClone(t) \/ Unlink(t)
      <3>1. pc'[t] = "remove_disk" /\ idx'[t] = i + 1 /\ SetClone(v, NoImage)
        BY <1>2, <1>a, <2>6 DEF RemoveClone, Unlink, Goto, Raise, TypeOK, TeardownLabel
      <3>2. DiskGone(m, v)'
        BY <2>3, <3>1 DEF SetClone, DiskGone, CloneExists, TypeOK, ClusterTypeOK
      <3> QED BY <2>5, <3>1, <3>2
    <2>7. CASE LocalDiskExists(t)
      <3>1. /\ \/ CloneExists(v) /\ pc'[t] = "unlink" /\ idx'[t] = i
               \/ ~CloneExists(v) /\ pc'[t] = "remove_disk" /\ idx'[t] = i + 1
            /\ Backend = "local_qcow2" /\ v \in LinkedOf(m) /\ UNCHANGED clones
        BY <1>a, <2>3, <2>7 DEF LocalDiskExists, Goto, TypeOK, cluster, rbd
      <3>2. DiskGone(m, v)' <=> ~CloneExists(v)
        BY <3>1 DEF DiskGone, CloneExists, LinkedOf, VmsOf
      <3> QED BY <2>4, <2>5, <3>1, <3>2
    <2>8. CASE SkipDiskless(t)
      <3>1. pc'[t] = "remove_disk" /\ idx'[t] = i + 1 /\ v \notin LinkedOf(m)
        BY <1>a, <2>1, <2>3, <2>8 DEF SkipDiskless, Goto, TypeOK
      <3>2. DiskGone(m, v)'
        BY <3>1 DEF DiskGone, LinkedOf, VmsOf
      <3> QED BY <2>5, <3>1, <3>2
    <2>9. CASE DisksRemoved(t)
      BY <2>1, <2>9 DEF DisksRemoved
    <2> QED BY <2>6, <2>7, <2>8, <2>9
  <1> QED BY <1>1, <1>2

\* The VMs of a teardown stay gone while it goes on to rows and disks.
LEMMA VmsStayGone ==
    ASSUME NEW t \in Thread, Removes, TeardownKnows(t), pc[t] \in PortsOut,
           pc'[t] \in PortsOut \cup {"failing", "done"}
    PROVE  TeardownKnows(t)'
  <1>1. t[1] \in Id /\ \A v \in VmsOf(t[1]) : VmGone(t[1], v)
    BY SpecTypes DEF TeardownKnows
  <1>2. \A v \in VmsOf(t[1]) : VmGone(t[1], v)'
    BY <1>1, RemovesKeep
  <1> QED BY <1>2 DEF TeardownKnows, Stopped, PortsOut, VmsOf

\* A teardown is at its rows and disks only after the loop over the VMs, and begins with
\* the first port.
LEMMA TidyBegins ==
    ASSUME NEW t \in Thread, TypeInv,
           \/ TeardownBegins(t) \/ LookupAndStop(t) \/ UndefineVm(t) \/ VmsDestroyed(t)
           \/ SwallowedError(t)
    PROVE  TidyKnown(t)'
  <1>1. \/ pc'[t] \in {"lookup", "undefine", "done"}
        \/ pc'[t] = "remove_vm_port" /\ idx'[t] = 1
    BY DEF TeardownBegins, LookupAndStop, UndefineVm, VmsDestroyed, SwallowedError, Goto, Finish,
           TypeInv, TypeOK
  <1>2. t[1] \in Id /\ PortSeq(t[1]) \in Seq(VM \X Net)
    BY SpecTypes, SubmittedAssumption DEF MissionSpec, PortSeq
  <1> QED BY <1>1, <1>2 DEF TidyKnown, PortsOut

\* A deployment does not become a teardown.
LEMMA DeployStaysDeploy ==
    ASSUME TypeOK, NEW t \in Thread, Deploy(t)
    PROVE  pc'[t] \notin TeardownLabel /\ UNCHANGED handle
  <1> USE DEF TeardownLabel
  <1>1. CASE DeployNetworks(t)
    BY <1>1
       DEF DeployNetworks, DeployBegins, AddRouter, AddSwitch, AddRouterPort, AddPeerPort,
           NetworksDone, AddVmPort, PortsDone, Goto, Raise, Finish, TypeOK, locals
  <1>2. CASE DeployStorage(t)
    BY <1>2
       DEF DeployStorage, ListSnaps, CreateSnap, IsProtected, ProtectSnap, ListClones, Clone,
           LocalCloneExists, QemuImgCreate, StorageDone, Goto, Raise, TypeOK, locals
  <1>3. CASE DeployVms(t)
    BY <1>3
       DEF DeployVms, NoFreeGpu, DefineVm, StartVm, VmsDone, CheckSwitches, CheckVm, Verdict,
           Goto, Raise, Finish, TypeOK, locals
  <1> QED BY <1>1, <1>2, <1>3 DEF Deploy

\* A teardown does not become a deployment.
LEMMA TeardownStaysTeardown ==
    ASSUME TypeOK, NEW t \in Thread, Teardown(t)
    PROVE  pc'[t] \notin DeployLabel
  <1>1. pc[t] \notin DeployOnly
    BY DEF Teardown, TeardownBegins, LookupAndStop, UndefineVm, VmsDestroyed, RemoveVmPort,
           RemoveSwitch, RemoveRouter, RemoveClone, LocalDiskExists, Unlink, DisksRemoved,
           At, DeployOnly, DeployLabel
  <1> QED BY <1>1, StepQuiet DEF ThreadStep, KeepsKind, DeployOnly

\* A step to a label where a deployment knows nothing of its own.
LEMMA NothingAchieved ==
    ASSUME NEW t \in Thread, pc'[t] \notin DeployLabel
    PROVE  DeployKnows(t)'
  BY DEF DeployKnows, NetsKnown, PortsKnown, DisksKnown, VmsKnown, AfterNets, AfterPorts,
         AfterDisks, NetLoop, DiskLoop, VmLoop, CheckLoop, DeployLabel

\* A step of a thread keeps what it knows of what it put up, or of the rows and disks it
\* removed, and everything of other missions.
LEMMA OwnKnown ==
    ASSUME TypeInv, Separate, DomainsOwned, NEW t \in Thread, Contained(t[1]), DeployKnows(t),
           TidyKnown(t), ThreadStep(t) \/ Fault(t)
    PROVE  KeepsBounds(t) /\ DeployKnows(t)' /\ TidyKnown(t)'
  <1> USE DEF TypeInv
  <1>1. CASE Deploy(t)
    <2>1. Adds /\ KeepsBounds(t)
      BY <1>1, NetworkAdds, StorageAdds, VmsAdd DEF Deploy
    <2>2. TidyKnown(t)'
      BY <1>1, DeployStaysDeploy, NothingToKnow
    <2> QED BY <1>1, <2>1, <2>2, NetworksKnown, StorageKnown, VmsStayKnown DEF Deploy
  <1>2. CASE Teardown(t)
    <2>1. Removes /\ KeepsBounds(t) /\ DeployKnows(t)'
      BY <1>2, TeardownStaysTeardown, TeardownRemoves, NothingAchieved
    <2> QED BY <1>2, <2>1, TidyBegins, RowsGoneKnown, DisksGoneKnown DEF Teardown
  <1>3. CASE SkipDiskless(t)
    <2>1. KeepsBounds(t) /\ Adds /\ Removes
      BY <1>3, QuietKeepsBounds DEF SkipDiskless, cluster, rbd
    <2> QED BY <1>3, <2>1, StorageKnown, DisksGoneKnown
  <1>4. CASE RecordFailure(t) \/ Fault(t)
    <2>1. UNCHANGED <<ovn, clones, domains>> /\ pc'[t] \in {"failing", "done"}
      BY <1>4 DEF RecordFailure, Fault, Goto, Raise, Finish, TypeOK, cluster, rbd
    <2> QED BY <2>1, QuietKeepsBounds, NothingAchieved, NothingToKnow
            DEF DeployLabel, TeardownLabel
  <1> QED BY <1>1, <1>2, <1>3, <1>4 DEF ThreadStep

\* It keeps what it knows of the domains it removed, when no error is swallowed.
LEMMA OwnGone ==
    ASSUME TypeInv, Separate, DomainsOwned, Persistent, NEW t \in Thread, Contained(t[1]),
           TeardownKnows(t), ThreadStep(t) \/ Fault(t)
    PROVE  TeardownKnows(t)'
  <1> USE DEF TypeInv
  <1>1. CASE Deploy(t)
    BY <1>1, DeployStaysDeploy, NothingToKnow
  <1>2. CASE \/ TeardownBegins(t) \/ LookupAndStop(t) \/ UndefineVm(t) \/ VmsDestroyed(t)
    <2>1. Removes
      BY <1>2, TeardownRemoves DEF Teardown
    <2> QED BY <1>2, <2>1, VmsGoneKnown
  <1>3. CASE \/ RemoveVmPort(t) \/ RemoveSwitch(t) \/ RemoveRouter(t) \/ RemoveClone(t)
             \/ LocalDiskExists(t) \/ Unlink(t) \/ DisksRemoved(t)
    <2>1. Removes
      BY <1>3, TeardownRemoves DEF Teardown
    <2>2. pc[t] \in PortsOut /\ pc'[t] \in PortsOut \cup {"failing", "done"}
      BY <1>3 DEF RemoveVmPort, RemoveSwitch, RemoveRouter, RemoveClone, LocalDiskExists, Unlink,
                  DisksRemoved, At, Goto, Raise, Finish, TypeOK, PortsOut
    <2> QED BY <2>1, <2>2, VmsStayGone
  <1>4. CASE SkipDiskless(t)
    <2>1. CASE pc[t] = "remove_disk"
      <3>1. Removes /\ pc'[t] = "remove_disk"
        BY <1>4, <2>1, QuietStep DEF SkipDiskless, Goto, TypeOK, cluster, rbd
      <3> QED BY <2>1, <3>1, VmsStayGone DEF PortsOut
    <2>2. CASE pc[t] = "provision_storage"
      <3>1. pc'[t] = "provision_storage"
        BY <1>4, <2>2 DEF SkipDiskless, Goto, TypeOK
      <3> QED BY <3>1, NothingToKnow DEF TeardownLabel
    <2> QED BY <1>4, <2>1, <2>2 DEF SkipDiskless
  <1>5. CASE RecordFailure(t) \/ Fault(t)
    <2>1. pc'[t] \in {"failing", "done"}
      BY <1>5 DEF RecordFailure, Fault, Goto, Raise, Finish, TypeOK
    <2> QED BY <2>1, NothingToKnow DEF TeardownLabel
  <1> QED BY <1>1, <1>2, <1>3, <1>4, <1>5 DEF ThreadStep, Teardown

\* A step of a thread leaves the lookups of other threads alone.
LEMMA HandlesStay ==
    ASSUME TypeOK, NEW t \in Thread, ThreadStep(t) \/ Fault(t)
    PROVE  \A u \in Thread : u # t => handle'[u] = handle[u]
  <1>1. CASE Deploy(t)
    BY <1>1, DeployStaysDeploy
  <1>2. CASE Teardown(t)
    BY <1>2
       DEF Teardown, TeardownBegins, LookupAndStop, UndefineVm, VmsDestroyed, RemoveVmPort,
           RemoveSwitch, RemoveRouter, RemoveClone, LocalDiskExists, Unlink, DisksRemoved,
           TypeOK, locals
  <1>3. CASE SkipDiskless(t) \/ RecordFailure(t) \/ Fault(t)
    BY <1>3 DEF SkipDiskless, RecordFailure, Fault, locals
  <1> QED BY <1>1, <1>2, <1>3 DEF ThreadStep

\* What a thread knows stays so while it rests and nobody touches its mission.
LEMMA OtherKnown ==
    ASSUME TypeInv, NEW u \in Thread, Untouched(u[1]), pc'[u] = pc[u], idx'[u] = idx[u],
           DeployKnows(u), TidyKnown(u)
    PROVE  DeployKnows(u)' /\ TidyKnown(u)'
  <1> DEFINE m == u[1]
  <1>1. /\ m \in Id /\ NetSeq(m) \in Seq(Net) /\ PortSeq(m) \in Seq(VM \X Net)
        /\ VmSeq(m) \in Seq(VM)
    BY SpecTypes, SubmittedAssumption DEF MissionSpec, NetSeq, PortSeq, VmSeq
  <1>2. \A j \in 1 .. Len(VmSeq(m)) : VmSeq(m)[j] \in VmsOf(m)
    BY <1>1, Elements
  <1>3. NetsKnown(u)' /\ PortsKnown(u)'
    BY <1>1, UntouchedKeeps DEF DeployKnows, NetsKnown, PortsKnown, NetsOf, PortsOf
  <1>4. DisksKnown(u)' /\ VmsKnown(u)'
    BY <1>1, <1>2, UntouchedKeeps DEF DeployKnows, DisksKnown, VmsKnown, VmsOf
  <1>5. TidyKnown(u)'
    <2>a. PICK i : i = idx[u]
      OBVIOUS
    <2>1. /\ \A net : NetGone(m, net)' <=> NetGone(m, net)
          /\ \A p : PortUp(m, p)' <=> PortUp(m, p)
          /\ NoRows(m)' <=> NoRows(m)
          /\ \A w \in VmsOf(m) : DiskGone(m, w)' <=> DiskGone(m, w)
      BY <1>1, UntouchedKeeps
    <2>2. pc[u] = "unlink" => (DiskGone(m, VmSeq(m)[i])' <=> DiskGone(m, VmSeq(m)[i]))
      <3>1. pc[u] = "unlink" => VmSeq(m)[i] \in VmsOf(m)
        BY <2>a, CurrentElement DEF TypeInv, IndexOK, DiskLabel
      <3> QED BY <2>1, <3>1
    <2>3. pc[u] \in {"remove_disk", "unlink"} => \A j \in 1 .. Len(VmSeq(m)) :
                                                 j < i => DiskGone(m, VmSeq(m)[j])'
      BY <1>2, <2>a, <2>1 DEF TidyKnown
    <2>4. /\ pc[u] = "remove_vm_port" => \A j \in 1 .. Len(PortSeq(m)) :
                                            j < i => ~(PortUp(m, PortSeq(m)[j])')
          /\ pc[u] \in PortsOut \ {"remove_vm_port"} => \A p \in VM \X Net : ~(PortUp(m, p)')
          /\ pc[u] = "remove_switch" => \A j \in 1 .. Len(NetSeq(m)) :
                                           j < i => NetGone(m, NetSeq(m)[j])'
          /\ pc[u] \in {"remove_disk", "unlink"} => NoRows(m)'
      BY <2>a, <2>1 DEF TidyKnown
    <2>5. pc[u] = "unlink" => Backend = "local_qcow2" /\ ~(DiskGone(m, VmSeq(m)[i])')
      BY <2>a, <2>2 DEF TidyKnown
    <2>6. idx'[u] = i /\ pc'[u] = pc[u]
      BY <2>a
    <2> QED BY <2>3, <2>4, <2>5, <2>6 DEF TidyKnown
  <1> QED BY <1>3, <1>4, <1>5 DEF DeployKnows

\* So does what it knows of its domains.
LEMMA OtherGone ==
    ASSUME TypeInv, NEW u \in Thread, Untouched(u[1]), pc'[u] = pc[u], idx'[u] = idx[u],
           handle'[u] = handle[u], TeardownKnows(u)
    PROVE  TeardownKnows(u)'
  <1> DEFINE m == u[1]
  <1>a. PICK i, v, h : i = idx[u] /\ v = AtVm(u) /\ h = HostAt(u)
    OBVIOUS
  <1>b. m \in Id /\ VmSeq(m) \in Seq(VM)
    BY SpecTypes, SubmittedAssumption DEF MissionSpec, VmSeq
  <1>0. \A j \in 1 .. Len(VmSeq(m)) : VmSeq(m)[j] \in VmsOf(m)
    BY <1>b, Elements
  <1>3. Stopped(u)'
    <2>1. SUFFICES ASSUME pc[u] = "undefine"
                   PROVE  OwnedBy(HostAt(u), AtVm(u), handle[u])' /\ ~(Running(HostAt(u), AtVm(u))')
      BY DEF Stopped
    <2>2. v \in VmsOf(m) /\ v \in VM /\ h \in Host
      BY <1>a, <1>b, <2>1, CurrentElement, Elements DEF TypeInv, IndexOK, VmLabel
    <2>3. domains'[<<h, v>>] = domains[<<h, v>>]
      BY <2>2 DEF Untouched
    <2>4. OwnedBy(h, v, handle[u]) /\ ~Running(h, v)
      BY <1>a, <2>1 DEF TeardownKnows, Stopped
    <2>5. AtVm(u)' = v /\ HostAt(u)' = h
      BY <1>a DEF HostAt, AtVm, SpecOf
    <2> QED BY <2>3, <2>4, <2>5 DEF OwnedBy, Running, Defined
  <1>4. TeardownKnows(u)'
    <2>1. \A w \in VmsOf(m) : VmGone(m, w)' <=> VmGone(m, w)
      BY <1>b, UntouchedKeeps
    <2>2. /\ pc[u] \in {"lookup", "undefine"} => \A j \in 1 .. Len(VmSeq(m)) :
                                                 j < i => VmGone(m, VmSeq(m)[j])'
          /\ pc[u] \in PortsOut => \A w \in VmsOf(m) : VmGone(m, w)'
      BY <1>a, <1>0, <2>1 DEF TeardownKnows
    <2>3. idx'[u] = i /\ pc'[u] = pc[u]
      BY <1>a
    <2> QED BY <1>3, <2>2, <2>3 DEF TeardownKnows, VmsOf
  <1> QED BY <1>4

\* A deployment that validates has put up everything.
LEMMA ValidatingIsComplete ==
    ASSUME NEW t \in Thread, DeployKnows(t), pc[t] \in CheckLoop
    PROVE  Complete(t[1])
  <1>1. t[1] \in Id /\ LinkedOf(t[1]) \subseteq VmsOf(t[1])
    BY SpecTypes, Elements
  <1>2. /\ MissionName(t[1]) \in routers
        /\ \A net \in NetsOf(t[1]) : NetUp(t[1], net)
        /\ \A p \in PortsOf(t[1]) : PortUp(t[1], p)
        /\ \A v \in VmsOf(t[1]) : DiskUp(t[1], v) /\ VmUp(t[1], v)
    BY DEF DeployKnows, NetsKnown, PortsKnown, DisksKnown, VmsKnown, AfterNets, AfterPorts,
           AfterDisks, CheckLoop, DeployLabel
  <1> QED BY <1>1, <1>2 DEF Complete, MissionName, NetUp, PortUp, DiskUp, VmUp

\* A teardown that has passed the last disk has left no row and no disk.
LEMMA RemovedIsTidy ==
    ASSUME TypeInv, NEW t \in Thread, TidyKnown(t), pc[t] = "remove_disk", ~MoreVms(t)
    PROVE  Tidy(t[1])
  <1> DEFINE seq == VmSeq(t[1])
  <1>1. t[1] \in Id /\ seq \in Seq(VM) /\ idx[t] \in Nat
    BY SpecTypes, SubmittedAssumption DEF MissionSpec, VmSeq, TypeInv, TypeOK
  <1>2. idx[t] > Len(seq) /\ Len(seq) \in Nat
    BY <1>1 DEF MoreVms, SpecOf, VmSeq
  <1>3. NoRows(t[1]) /\ \A j \in 1 .. Len(seq) : DiskGone(t[1], seq[j])
    BY <1>1, <1>2 DEF TidyKnown
  <1>4. VmsOf(t[1]) = {seq[j] : j \in 1 .. Len(seq)}
    BY <1>1, Elements
  <1> QED BY <1>3, <1>4 DEF Tidy

\* When no error was swallowed it has left nothing.
LEMMA RemovedIsBare ==
    ASSUME TypeInv, NEW t \in Thread, TidyKnown(t), TeardownKnows(t), pc[t] = "remove_disk",
           ~MoreVms(t)
    PROVE  Bare(t[1])
  BY RemovedIsTidy DEF TeardownKnows, PortsOut, Tidy, Bare

\* A mission nobody touches stays tidy, and its running domains keep their disks.
LEMMA UntouchedStaysTidy ==
    ASSUME NEW m \in Id, Untouched(m)
    PROVE  /\ Tidy(m) => Tidy(m)'
           /\ DisksHeld(m) => DisksHeld(m)'
  <1>1. Tidy(m) => Tidy(m)'
    BY UntouchedKeeps DEF Tidy, VmsOf
  <1>2. DisksHeld(m) => DisksHeld(m)'
    BY Elements DEF Untouched, DisksHeld, LinkedOf, VmsOf, Defined, Running, DiskPresent,
                    CloneExists
  <1> QED BY <1>1, <1>2

\* A step of a thread keeps the disks of its mission's running domains: create() looks for
\* the disk, and rbd refuses to remove an image in use.
LEMMA OwnDisksHeld ==
    ASSUME TypeInv, Separate, NEW t \in Thread, DisksHeld(t[1]), TidyKnown(t),
           ThreadStep(t) \/ Fault(t)
    PROVE  DisksHeld(t[1])'
  <1> USE DEF TypeInv
  <1> DEFINE m == t[1]
  <1>a. PICK v, h : v = AtVm(t) /\ h = HostAt(t)
    OBVIOUS
  <1>0. /\ m \in Id /\ NameOf(t) \in Name /\ LinkedOf(m) \subseteq VM
        /\ LinkedOf(m)' = LinkedOf(m)
    BY SpecTypes, Elements DEF NameOf, SpecOf, MissionName, LinkedOf, VmsOf
  <1>1. CASE UNCHANGED <<clones, domains>>
    BY <1>0, <1>1 DEF DisksHeld, Defined, Running, DiskPresent, CloneExists
  <1>2. ASSUME UNCHANGED domains, \A w \in VM : CloneExists(w) => CloneExists(w)'
        PROVE  DisksHeld(m)'
    BY <1>0, <1>2 DEF DisksHeld, Defined, Running, DiskPresent
  <1>3. ASSUME UNCHANGED domains, NEW w \in VM,
               \A u \in VM \ {w} : CloneExists(u)' <=> CloneExists(u),
               w \in LinkedOf(m) => \A g \in Host : ~Running(g, w)
        PROVE  DisksHeld(m)'
    BY <1>0, <1>3 DEF DisksHeld, Defined, Running, DiskPresent
  <1>4. ASSUME OnlyDomain(h, v), UNCHANGED clones,
               v \in LinkedOf(m) /\ Defined(h, v)' =>
                  domains'[<<h, v>>].disk /\ (Running(h, v)' => DiskPresent(v))
        PROVE  DisksHeld(m)'
    <2>1. SUFFICES ASSUME NEW w \in LinkedOf(m), NEW g \in Host, Defined(g, w)'
                   PROVE  domains'[<<g, w>>].disk /\ (Running(g, w)' => DiskPresent(w)')
      BY <1>0 DEF DisksHeld
    <2>2. DiskPresent(w)' <=> DiskPresent(w)
      BY <1>4 DEF DiskPresent, CloneExists
    <2>3. CASE <<g, w>> = <<h, v>>
      BY <1>4, <2>1, <2>2, <2>3
    <2>4. CASE <<g, w>> # <<h, v>>
      BY <1>0, <1>4, <2>1, <2>2, <2>4 DEF OnlyDomain, Defined, Running, DisksHeld
    <2> QED BY <2>3, <2>4
  <1>5. CASE DefineVm(t) /\ ~UNCHANGED domains
    <2>1. /\ MoreVms(t) /\ (~Defined(h, v) \/ OwnedBy(h, v, NameOf(t)))
          /\ DefineXML(h, v, NameOf(t), gpuOf'[t[1]][v], ImageAt(t) # NoImage)
          /\ UNCHANGED clones
      BY <1>a, <1>5 DEF DefineVm, rbd
    <2>2. v \in VM /\ h \in Host /\ (ImageAt(t) # NoImage <=> v \in LinkedOf(m))
      BY <1>0, <1>a, <2>1, CurrentElement, Elements
    <2>3. gpuOf'[t[1]][v] \in Pci \cup {NoPci}
      BY <1>0, <1>5, <2>2, VmTypes DEF DeployVms, TypeOK
    <2>4. CASE Running(h, v)
      <3>1. OnlyDomain(h, v) /\ domains'[<<h, v>>].disk = domains[<<h, v>>].disk
        BY <1>0, <2>1, <2>2, <2>3, <2>4, DefineXMLEffect
      <3>2. v \in LinkedOf(m) => domains[<<h, v>>].disk /\ DiskPresent(v)
        BY <2>2, <2>4 DEF DisksHeld, Running
      <3> QED BY <1>4, <2>1, <3>1, <3>2
    <2>5. CASE ~Running(h, v)
      <3>1. /\ OnlyDomain(h, v) /\ ~(Running(h, v)')
            /\ domains'[<<h, v>>].disk = (ImageAt(t) # NoImage)
        BY <1>0, <2>1, <2>2, <2>3, <2>5, DefineXMLEffect
      <3> QED BY <1>4, <2>1, <2>2, <3>1
    <2> QED BY <2>4, <2>5
  <1>6. CASE StartVm(t) /\ ~UNCHANGED domains
    <2>1. MoreVms(t) /\ CanStart(h, v, NameOf(t)) /\ Start(h, v) /\ UNCHANGED clones
      BY <1>a, <1>6 DEF StartVm, At, IndexOK, VmLabel, rbd
    <2>2. v \in VM /\ h \in Host
      BY <1>0, <1>a, <2>1, CurrentElement, Elements
    <2>3. Defined(h, v) /\ (domains[<<h, v>>].disk => DiskPresent(v))
      BY <2>1 DEF CanStart, OwnedBy
    <2>4. OnlyDomain(h, v) /\ domains'[<<h, v>>].disk = domains[<<h, v>>].disk
      BY <2>1, <2>2, <2>3, StartEffect
    <2>5. v \in LinkedOf(m) => domains[<<h, v>>].disk
      BY <2>2, <2>3 DEF DisksHeld
    <2> QED BY <1>4, <2>1, <2>3, <2>4, <2>5
  <1>7. CASE LookupAndStop(t) /\ ~UNCHANGED domains
    <2>1. MoreVms(t) /\ Defined(h, v) /\ Stop(h, v) /\ UNCHANGED clones
      BY <1>a, <1>7 DEF LookupAndStop, rbd
    <2>2. v \in VM /\ h \in Host
      BY <1>0, <1>a, <2>1, CurrentElement, Elements
    <2>3. /\ OnlyDomain(h, v) /\ ~(Running(h, v)')
          /\ Defined(h, v)' => domains'[<<h, v>>].disk = domains[<<h, v>>].disk
      BY <2>1, <2>2, StopEffect
    <2>4. v \in LinkedOf(m) => domains[<<h, v>>].disk
      BY <2>1, <2>2 DEF DisksHeld
    <2> QED BY <1>4, <2>1, <2>3, <2>4
  <1>8. CASE UndefineVm(t) /\ ~UNCHANGED domains
    <2>1. MoreVms(t) /\ Undefine(h, v) /\ Defined(h, v) /\ UNCHANGED clones
      BY <1>a, <1>8 DEF UndefineVm, At, IndexOK, VmLabel, OwnedBy, rbd
    <2>2. v \in VM /\ h \in Host
      BY <1>0, <1>a, <2>1, CurrentElement, Elements
    <2>3. /\ OnlyDomain(h, v)
          /\ Defined(h, v)' => /\ domains'[<<h, v>>].disk = domains[<<h, v>>].disk
                               /\ Running(h, v)
      BY <2>1, <2>2, UndefineEffect
    <2>4. v \in LinkedOf(m) =>
             domains[<<h, v>>].disk /\ (Running(h, v) => DiskPresent(v))
      BY <2>1, <2>2 DEF DisksHeld
    <2> QED BY <1>4, <2>1, <2>3, <2>4
  <1>9. CASE (RemoveClone(t) \/ Unlink(t)) /\ ~UNCHANGED clones
    <2>1. /\ MoreVms(t) /\ SetClone(v, NoImage) /\ UNCHANGED domains
          /\ \/ Backend = "ceph_rbd" /\ ~(CloneExists(v) /\ InUse(v))
             \/ Backend = "local_qcow2"
      BY <1>a, <1>9 DEF RemoveClone, Unlink, At, IndexOK, DiskLabel, TidyKnown
    <2>2. v \in VM
      BY <1>0, <1>a, <2>1, CurrentElement, Elements
    <2>3. \A u \in VM \ {v} : CloneExists(u)' <=> CloneExists(u)
      BY <2>1, <2>2 DEF SetClone, CloneExists, TypeOK, ClusterTypeOK
    <2>4. ASSUME v \in LinkedOf(m), NEW g \in Host, Running(g, v)
          PROVE  FALSE
      <3>1. Defined(g, v) /\ domains[<<g, v>>].disk /\ DiskPresent(v)
        BY <2>4 DEF DisksHeld, Running
      <3>2. InUse(v)
        BY <2>4, <3>1 DEF InUse, Running, Defined
      <3> QED BY <2>1, <3>1, <3>2 DEF DiskPresent
    <2> QED BY <1>3, <2>1, <2>2, <2>3, <2>4
  <1>10. CASE (Clone(t) \/ QemuImgCreate(t)) /\ ~UNCHANGED clones
    <2>1. MoreVms(t) /\ SetClone(v, ImageAt(t)) /\ UNCHANGED domains /\ ImageAt(t) # NoImage
      BY <1>a, <1>10 DEF Clone, QemuImgCreate, At, IndexOK, DiskLabel
    <2>2. v \in VM
      BY <1>0, <1>a, <2>1, CurrentElement, Elements
    <2>3. \A w \in VM : CloneExists(w) => CloneExists(w)'
      BY <2>1, <2>2 DEF SetClone, CloneExists, TypeOK, ClusterTypeOK
    <2> QED BY <1>2, <2>1, <2>3
  <1>11. CASE \/ DeployNetworks(t) \/ RecordFailure(t) \/ Fault(t) \/ SkipDiskless(t)
    BY <1>1, <1>11
       DEF DeployNetworks, DeployBegins, AddRouter, AddSwitch, AddRouterPort, AddPeerPort,
           NetworksDone, AddVmPort, PortsDone, RecordFailure, Fault, SkipDiskless, cluster, rbd
  <1>12. CASE DeployStorage(t)
    BY <1>1, <1>10, <1>12
       DEF DeployStorage, ListSnaps, CreateSnap, IsProtected, ProtectSnap, ListClones, Clone,
           LocalCloneExists, QemuImgCreate, StorageDone, cluster, rbd
  <1>13. CASE DeployVms(t)
    BY <1>1, <1>5, <1>6, <1>13
       DEF DeployVms, NoFreeGpu, DefineVm, StartVm, VmsDone, CheckSwitches, CheckVm, Verdict,
           cluster, rbd
  <1>14. CASE Teardown(t)
    BY <1>1, <1>7, <1>8, <1>9, <1>14
       DEF Teardown, TeardownBegins, LookupAndStop, UndefineVm, VmsDestroyed, RemoveVmPort,
           RemoveSwitch, RemoveRouter, RemoveClone, LocalDiskExists, Unlink, DisksRemoved,
           cluster, rbd
  <1> QED BY <1>11, <1>12, <1>13, <1>14 DEF ThreadStep, Deploy

\* How a step of t changes the state of its mission: to the next state of the deployment,
\* to Error, or, from the beginning of a teardown to its end, to Destroying and Destroyed.
\* Whenever it does it touches no resource, and a mission whose state it leaves is in the
\* middle of something.
Becomes(t, s) == UpdateState(t, s) /\ UNCHANGED <<ovn, clones, domains>>

StateMoves(t) ==
    \/ UNCHANGED status /\ status[t[1]] \in Busy \cup {"Pending"}
    \/ /\ status[t[1]] \in DOMAIN Lifecycle!Successor
       /\ Becomes(t, Lifecycle!Successor[status[t[1]]])
       /\ status[t[1]] = "Validating" => pc[t] = "check_vm"
    \/ status[t[1]] \in Busy /\ Becomes(t, "Error")
    \/ status[t[1]] # "absent" /\ Becomes(t, "Destroying")
    \/ /\ status[t[1]] = "Destroying" /\ Becomes(t, "Destroyed")
       /\ pc[t] = "remove_disk" /\ ~MoreVms(t)

\* Every step of a thread moves the state of its mission like this.
LEMMA ThreadMoves ==
    ASSUME TypeOK, ControlInv, NEW t \in Thread, ThreadStep(t) \/ Fault(t)
    PROVE  StateMoves(t)
  <1> USE DEF StateMoves, Becomes, UpdateState, Phased, NetLoop, DiskLoop, VmLoop, CheckLoop, Busy,
              TeardownLabel
  <1>0. /\ t[1] \in Id /\ Phased(pc[t], status[t[1]])
        /\ pc[t] # "idle" => status[t[1]] # "absent"
    BY SpecTypes DEF ControlInv, ThreadKinds
  <1>1. CASE DeployBegins(t) \/ PortsDone(t) \/ StorageDone(t) \/ VmsDone(t) \/ Verdict(t)
    BY <1>0, <1>1
       DEF DeployBegins, PortsDone, StorageDone, VmsDone, Verdict, At, Lifecycle!Successor, cluster,
           rbd
  <1>2. CASE \/ AddRouter(t) \/ AddSwitch(t) \/ AddRouterPort(t) \/ AddPeerPort(t)
             \/ NetworksDone(t) \/ AddVmPort(t)
    BY <1>0, <1>2
       DEF AddRouter, AddSwitch, AddRouterPort, AddPeerPort, NetworksDone, AddVmPort, At
  <1>3. CASE \/ ListSnaps(t) \/ CreateSnap(t) \/ IsProtected(t) \/ ProtectSnap(t)
             \/ ListClones(t) \/ Clone(t) \/ LocalCloneExists(t) \/ QemuImgCreate(t)
    BY <1>0, <1>3
       DEF ListSnaps, CreateSnap, IsProtected, ProtectSnap, ListClones, Clone, LocalCloneExists,
           QemuImgCreate, At
  <1>4. CASE NoFreeGpu(t) \/ DefineVm(t) \/ StartVm(t) \/ CheckSwitches(t) \/ CheckVm(t)
    BY <1>0, <1>4 DEF NoFreeGpu, DefineVm, StartVm, CheckSwitches, CheckVm, At
  <1>5. CASE TeardownBegins(t) \/ DisksRemoved(t)
    BY <1>0, <1>5 DEF TeardownBegins, DisksRemoved, At, cluster, rbd
  <1>6. CASE \/ LookupAndStop(t) \/ UndefineVm(t) \/ VmsDestroyed(t) \/ RemoveVmPort(t)
             \/ RemoveSwitch(t) \/ RemoveRouter(t) \/ RemoveClone(t) \/ LocalDiskExists(t)
             \/ Unlink(t)
    BY <1>0, <1>6
       DEF LookupAndStop, UndefineVm, VmsDestroyed, RemoveVmPort, RemoveSwitch, RemoveRouter,
           RemoveClone, LocalDiskExists, Unlink, At
  <1>7. CASE SkipDiskless(t) \/ RecordFailure(t) \/ Fault(t)
    BY <1>0, <1>7 DEF SkipDiskless, RecordFailure, Fault, InCall, At, cluster, rbd
  <1> QED BY <1>1, <1>2, <1>3, <1>4, <1>5, <1>6, <1>7
          DEF ThreadStep, Deploy, DeployNetworks, DeployStorage, DeployVms, Teardown

\* A step of a thread that reports its mission Running or Destroyed, or leaves it so, finds
\* it complete or tidy and leaves it as it was.
LEMMA ThreadStepExtent ==
    ASSUME Separate, TypeInv, ExtentInv, NEW t \in Thread, ThreadStep(t) \/ Fault(t)
    PROVE  ExtentInv'
  <1> USE DEF TypeInv
  <1> DEFINE m == t[1]
  <1>0. m \in Id
    BY SpecTypes
  <1>1. OnlyMoves(t) /\ StaysInPhase(t) /\ StateMoves(t) /\ ControlInv'
    BY StepMovesOne, StepInPhase, ThreadMoves, ThreadStepControl DEF ExtentInv
  <1>2. KeepsBounds(t) /\ DeployKnows(t)' /\ TidyKnown(t)'
    BY <1>0, OwnKnown DEF ExtentInv
  <1>3. \A k \in Id : Contained(k)' /\ DisksHeld(k)'
    BY <1>0, <1>2, UntouchedKeeps, UntouchedStaysTidy, OwnDisksHeld DEF KeepsBounds, ExtentInv
  <1>4. ASSUME NEW u \in Thread, u # t PROVE DeployKnows(u)' /\ TidyKnown(u)'
    <2>1. pc'[u] = pc[u] /\ idx'[u] = idx[u]
      BY <1>1, <1>4 DEF OnlyMoves
    <2>2. CASE u[1] # m
      BY <1>2, <1>4, <2>1, <2>2, OtherKnown, SpecTypes DEF KeepsBounds, ExtentInv
    <2>3. CASE u[1] = m
      <3>1. Ended(u)
        BY <1>1, <1>4, <2>3 DEF StaysInPhase, ExtentInv, ControlInv, Alone
      <3> QED BY <2>1, <3>1, NothingAchieved, NothingToKnow DEF Ended, DeployLabel, TeardownLabel
    <2> QED BY <2>2, <2>3
  <1>5. ASSUME NEW k \in Id, status'[k] = "Running" PROVE Complete(k)'
    <2>1. CASE k # m
      BY <1>1, <1>2, <1>5, <2>1, UntouchedKeeps DEF StaysInPhase, KeepsBounds, ExtentInv
    <2>2. CASE k = m
      <3>1. status[m] = "Validating" /\ pc[t] = "check_vm" /\ UNCHANGED <<ovn, clones, domains>>
        BY <1>0, <1>1, <1>5, <2>2
           DEF StateMoves, Becomes, UpdateState, Lifecycle!Successor, Busy, TypeOK
      <3>2. Complete(m)
        BY <3>1, ValidatingIsComplete DEF ExtentInv, CheckLoop
      <3> QED BY <1>0, <2>2, <3>1, <3>2, QuietStep, UntouchedKeeps
    <2> QED BY <2>1, <2>2
  <1>6. ASSUME NEW k \in Id, status'[k] = "Destroyed" PROVE Tidy(k)'
    <2>1. CASE k # m
      BY <1>1, <1>2, <1>6, <2>1, UntouchedStaysTidy DEF StaysInPhase, KeepsBounds, ExtentInv
    <2>2. CASE k = m
      <3>1. pc[t] = "remove_disk" /\ ~MoreVms(t) /\ UNCHANGED <<ovn, clones, domains>>
        BY <1>0, <1>1, <1>6, <2>2
           DEF StateMoves, Becomes, UpdateState, Lifecycle!Successor, Busy, TypeOK
      <3>2. Tidy(m)
        BY <1>0, <3>1, RemovedIsTidy DEF ExtentInv
      <3> QED BY <1>0, <2>2, <3>1, <3>2, QuietStep, UntouchedStaysTidy
    <2> QED BY <2>1, <2>2
  <1> QED BY <1>1, <1>2, <1>3, <1>4, <1>5, <1>6 DEF ExtentInv, KeepsBounds

\* A step of a thread leaves every domain its definition, when no error is swallowed: a
\* teardown undefines no domain that runs.
LEMMA ThreadStepPersistent ==
    ASSUME TypeInv, Persistent, NEW t \in Thread, Stopped(t), ThreadStep(t) \/ Fault(t)
    PROVE  Persistent'
  <1> USE DEF TypeInv
  <1>a. PICK v, h : v = AtVm(t) /\ h = HostAt(t)
    OBVIOUS
  <1>0. t[1] \in Id /\ NameOf(t) \in Name
    BY SpecTypes, Elements DEF NameOf, SpecOf, MissionName
  <1>1. CASE UNCHANGED domains
    BY <1>1 DEF Persistent, Defined
  <1>2. ASSUME OnlyDomain(h, v), Defined(h, v)' => domains'[<<h, v>>].persistent
        PROVE  Persistent'
    <2>1. SUFFICES ASSUME NEW g \in Host, NEW w \in VM, Defined(g, w)'
                   PROVE  domains'[<<g, w>>].persistent
      BY DEF Persistent
    <2>2. CASE <<g, w>> = <<h, v>>
      BY <1>2, <2>1, <2>2
    <2>3. CASE <<g, w>> # <<h, v>>
      BY <1>2, <2>1, <2>3 DEF OnlyDomain, Defined, Persistent
    <2> QED BY <2>2, <2>3
  <1>3. CASE DefineVm(t) /\ ~UNCHANGED domains
    <2>1. /\ MoreVms(t) /\ (~Defined(h, v) \/ OwnedBy(h, v, NameOf(t)))
          /\ DefineXML(h, v, NameOf(t), gpuOf'[t[1]][v], ImageAt(t) # NoImage)
      BY <1>a, <1>3 DEF DefineVm
    <2>2. v \in VM /\ h \in Host
      BY <1>0, <1>a, <2>1, CurrentElement, Elements
    <2>3. gpuOf'[t[1]][v] \in Pci \cup {NoPci}
      BY <1>0, <1>3, <2>2, VmTypes DEF DeployVms, TypeOK
    <2> QED BY <1>0, <1>2, <2>1, <2>2, <2>3, DefineXMLEffect
  <1>4. CASE StartVm(t) /\ ~UNCHANGED domains
    <2>1. MoreVms(t) /\ CanStart(h, v, NameOf(t)) /\ Start(h, v)
      BY <1>a, <1>4 DEF StartVm, At, IndexOK, VmLabel
    <2>2. v \in VM /\ h \in Host
      BY <1>0, <1>a, <2>1, CurrentElement, Elements
    <2>3. Defined(h, v) /\ domains[<<h, v>>].persistent
      BY <2>1, <2>2 DEF CanStart, OwnedBy, Persistent
    <2> QED BY <1>2, <2>1, <2>2, <2>3, StartEffect
  <1>5. CASE LookupAndStop(t) /\ ~UNCHANGED domains
    <2>1. MoreVms(t) /\ Defined(h, v) /\ Stop(h, v)
      BY <1>a, <1>5 DEF LookupAndStop
    <2>2. v \in VM /\ h \in Host
      BY <1>0, <1>a, <2>1, CurrentElement, Elements
    <2> QED BY <1>2, <2>1, <2>2, StopEffect
  <1>6. CASE UndefineVm(t) /\ ~UNCHANGED domains
    <2>1. MoreVms(t) /\ Undefine(h, v) /\ Defined(h, v) /\ ~Running(h, v)
      BY <1>a, <1>6 DEF UndefineVm, At, IndexOK, VmLabel, Stopped, OwnedBy
    <2>2. v \in VM /\ h \in Host
      BY <1>0, <1>a, <2>1, CurrentElement, Elements
    <2> QED BY <1>2, <2>1, <2>2, UndefineEffect
  <1>7. CASE DeployNetworks(t) \/ DeployStorage(t) \/ RecordFailure(t) \/ Fault(t) \/ SkipDiskless(t)
    BY <1>1, <1>7
       DEF DeployNetworks, DeployBegins, AddRouter, AddSwitch, AddRouterPort, AddPeerPort,
           NetworksDone, AddVmPort, PortsDone, DeployStorage, ListSnaps, CreateSnap, IsProtected,
           ProtectSnap, ListClones, Clone, LocalCloneExists, QemuImgCreate, StorageDone,
           RecordFailure, Fault, SkipDiskless, cluster, rbd
  <1>8. CASE DeployVms(t)
    BY <1>1, <1>3, <1>4, <1>8
       DEF DeployVms, NoFreeGpu, VmsDone, CheckSwitches, CheckVm, Verdict, cluster
  <1>9. CASE Teardown(t)
    BY <1>1, <1>5, <1>6, <1>9
       DEF Teardown, TeardownBegins, VmsDestroyed, RemoveVmPort, RemoveSwitch, RemoveRouter,
           RemoveClone, LocalDiskExists, Unlink, DisksRemoved, cluster, rbd
  <1> QED BY <1>7, <1>8, <1>9 DEF ThreadStep, Deploy

\* A step of a thread keeps that.
LEMMA ThreadStepGone ==
    ASSUME Separate, TypeInv, ExtentInv, GoneInv, NEW t \in Thread, ThreadStep(t) \/ Fault(t)
    PROVE  GoneInv'
  <1> USE DEF TypeInv
  <1> DEFINE m == t[1]
  <1>0. m \in Id /\ TeardownKnows(t)
    BY SpecTypes DEF GoneInv
  <1>1. /\ OnlyMoves(t) /\ StaysInPhase(t) /\ StateMoves(t)
        /\ \A u \in Thread : u # t => handle'[u] = handle[u]
    BY StepMovesOne, StepInPhase, ThreadMoves, HandlesStay DEF ExtentInv
  <1>2. KeepsBounds(t)
    BY <1>0, OwnKnown DEF ExtentInv
  <1>3. Persistent'
    BY <1>0, ThreadStepPersistent DEF GoneInv, TeardownKnows
  <1>4. ASSUME NEW u \in Thread PROVE TeardownKnows(u)'
    <2>1. CASE u = t
      BY <1>0, <2>1, OwnGone DEF GoneInv, ExtentInv
    <2>2. CASE u # t
      <3>1. pc'[u] = pc[u] /\ idx'[u] = idx[u] /\ handle'[u] = handle[u]
        BY <1>1, <2>2 DEF OnlyMoves
      <3>2. CASE u[1] # m
        BY <1>2, <3>1, <3>2, OtherGone, SpecTypes DEF KeepsBounds, GoneInv
      <3>3. CASE u[1] = m
        <4>1. Ended(u)
          BY <1>1, <2>2, <3>3 DEF StaysInPhase, ExtentInv, ControlInv, Alone
        <4> QED BY <3>1, <4>1, NothingToKnow DEF Ended, TeardownLabel
      <3> QED BY <3>2, <3>3
    <2> QED BY <2>1, <2>2
  <1>5. ASSUME NEW k \in Id, status'[k] = "Destroyed" PROVE Bare(k)'
    <2>1. CASE k # m
      BY <1>1, <1>2, <1>5, <2>1, UntouchedKeeps DEF StaysInPhase, KeepsBounds, GoneInv
    <2>2. CASE k = m
      <3>1. pc[t] = "remove_disk" /\ ~MoreVms(t) /\ UNCHANGED <<ovn, clones, domains>>
        BY <1>0, <1>1, <1>5, <2>2
           DEF StateMoves, Becomes, UpdateState, Lifecycle!Successor, Busy, TypeOK
      <3>2. Bare(m)
        BY <1>0, <3>1, RemovedIsBare DEF GoneInv, ExtentInv
      <3> QED BY <1>0, <2>2, <3>1, <3>2, QuietStep, UntouchedKeeps
    <2> QED BY <2>1, <2>2
  <1> QED BY <1>3, <1>4, <1>5 DEF GoneInv

\* What is not a step of a thread, that is POST, DELETE and a crash, touches no resource,
\* reports no result, and moves a thread only to where it knows nothing.
LEMMA Requests ==
    ASSUME TypeInv, [Next]_vars,
           ~\E t \in Thread : ThreadStep(t) \/ Fault(t) \/ SwallowedError(t)
    PROVE  /\ UNCHANGED cluster
           /\ \A m \in Id : status'[m] \in {"Running", "Destroyed"} => status'[m] = status[m]
           /\ \A u \in Thread : \/ pc'[u] = pc[u] /\ idx'[u] = idx[u] /\ handle'[u] = handle[u]
                                \/ pc'[u] \notin DeployLabel \cup TeardownLabel
  <1> USE DEF DeployLabel, TeardownLabel
  <1>1. ASSUME NEW m \in Id, CreateMission(m)
        PROVE  /\ UNCHANGED cluster
               /\ \A k \in Id : status'[k] \in {"Running", "Destroyed"} => status'[k] = status[k]
               /\ \A u \in Thread : \/ pc'[u] = pc[u] /\ idx'[u] = idx[u] /\ handle'[u] = handle[u]
                                    \/ pc'[u] \in {"deploy", "done"}
    <2>1. <<m, 0>> \in Thread
      BY DEF Thread, DeployThread
    <2> QED BY <1>1, <2>1 DEF CreateMission, Goto, Finish, TypeInv, TypeOK, locals
  <1>2. ASSUME NEW m \in Id, NEW k \in 1 .. MaxDeletes, DeleteMission(m, k)
        PROVE  /\ UNCHANGED <<cluster, status>>
               /\ \A u \in Thread : \/ pc'[u] = pc[u] /\ idx'[u] = idx[u] /\ handle'[u] = handle[u]
                                    \/ pc'[u] = "teardown"
    <2>1. <<m, k>> \in Thread
      BY DEF Thread, TeardownThread
    <2> QED BY <1>2, <2>1 DEF DeleteMission, Goto, TypeInv, TypeOK, locals
  <1>3. CASE Restart
    BY <1>3 DEF Restart
  <1>4. CASE UNCHANGED vars
    BY <1>4 DEF vars, locals
  <1> QED BY <1>1, <1>2, <1>3, <1>4 DEF Next

\* Every step keeps the invariant, when clients are patient, also when a libvirt error is
\* swallowed: that touches no resource, and the rows and disks are still to come.
LEMMA StepExtent ==
    ASSUME Separate, Patient
    PROVE  TypeInv /\ ExtentInv /\ [Next]_vars => ExtentInv'
  <1> SUFFICES ASSUME TypeInv, ExtentInv, [Next]_vars,
                      ~\E t \in Thread : ThreadStep(t) \/ Fault(t)
               PROVE  ExtentInv'
    BY ThreadStepExtent
  <1>1. /\ UNCHANGED cluster
        /\ \A m \in Id : status'[m] \in {"Running", "Destroyed"} => status'[m] = status[m]
        /\ \A u \in Thread : \/ pc'[u] = pc[u] /\ idx'[u] = idx[u]
                             \/ pc'[u] \notin DeployLabel /\ TidyKnown(u)'
    <2>1. CASE \E t \in Thread : SwallowedError(t)
      <3>1. PICK t \in Thread : SwallowedError(t)
        BY <2>1
      <3>2. TidyKnown(t)'
        BY <3>1, TidyBegins
      <3>3. UNCHANGED <<cluster, status>> /\ pc'[t] \notin DeployLabel
        BY <3>1 DEF SwallowedError, Goto, DeployLabel, TypeInv, TypeOK
      <3>4. \A u \in Thread : u # t => pc'[u] = pc[u] /\ idx'[u] = idx[u]
        BY <3>1 DEF SwallowedError, Goto, TypeInv, TypeOK
      <3> QED BY <3>2, <3>3, <3>4
    <2>2. CASE ~\E t \in Thread : SwallowedError(t)
      BY <2>2, Requests, NothingToKnow
    <2> QED BY <2>1, <2>2
  <1>2. ControlInv' /\ DomainsOwned' /\ \A m \in Id : Untouched(m)
    BY <1>1, StepControl, QuietStep DEF ExtentInv, cluster, rbd
  <1>3. \A m \in Id : /\ Contained(m)' /\ DisksHeld(m)'
                      /\ Complete(m)' <=> Complete(m)
                      /\ Tidy(m) => Tidy(m)'
    BY <1>2, UntouchedKeeps, UntouchedStaysTidy DEF ExtentInv
  <1>4. ASSUME NEW u \in Thread PROVE DeployKnows(u)' /\ TidyKnown(u)'
    BY <1>1, <1>2, SpecTypes, OtherKnown, NothingAchieved DEF ExtentInv
  <1> QED BY <1>1, <1>2, <1>3, <1>4 DEF ExtentInv

\* A step of a thread swallows no error.
LEMMA ThreadStepCounted ==
    ASSUME NEW t \in Thread, ThreadStep(t) \/ Fault(t)
    PROVE  UNCHANGED swallowed
  <1> USE DEF counters
  <1>1. CASE DeployNetworks(t) \/ DeployStorage(t)
    BY <1>1
       DEF DeployNetworks, DeployBegins, AddRouter, AddSwitch, AddRouterPort, AddPeerPort,
           NetworksDone, AddVmPort, PortsDone, DeployStorage, ListSnaps, CreateSnap,
           IsProtected, ProtectSnap, ListClones, Clone, LocalCloneExists, QemuImgCreate,
           StorageDone
  <1>2. CASE DeployVms(t)
    BY <1>2 DEF DeployVms, NoFreeGpu, DefineVm, StartVm, VmsDone, CheckSwitches, CheckVm, Verdict
  <1>3. CASE Teardown(t)
    BY <1>3
       DEF Teardown, TeardownBegins, LookupAndStop, UndefineVm, VmsDestroyed, RemoveVmPort,
           RemoveSwitch, RemoveRouter, RemoveClone, LocalDiskExists, Unlink, DisksRemoved
  <1>4. CASE SkipDiskless(t) \/ RecordFailure(t) \/ Fault(t)
    BY <1>4 DEF SkipDiskless, RecordFailure, Fault
  <1> QED BY <1>1, <1>2, <1>3, <1>4 DEF ThreadStep, Deploy

\* Only SwallowedError does, and the count of swallowed errors never falls.
LEMMA SwallowedCounted ==
    ASSUME TypeInv, [Next]_vars, swallowed' = 0
    PROVE  swallowed = 0 /\ ~\E t \in Thread : SwallowedError(t)
  <1>1. swallowed \in Nat
    BY DEF TypeInv, TypeOK
  <1>2. ASSUME NEW t \in Thread, SwallowedError(t) PROVE FALSE
    BY <1>1, <1>2 DEF SwallowedError
  <1>3. ASSUME NEW t \in Thread, ThreadStep(t) \/ Fault(t) PROVE UNCHANGED swallowed
    BY <1>3, ThreadStepCounted
  <1>4. ASSUME NEW m \in Id, CreateMission(m) \/ \E k \in 1 .. MaxDeletes : DeleteMission(m, k)
        PROVE  UNCHANGED swallowed
    BY <1>4 DEF CreateMission, DeleteMission, counters
  <1>5. CASE Restart \/ UNCHANGED vars
    BY <1>2, <1>5 DEF Restart, vars, counters
  <1> QED BY <1>2, <1>3, <1>4, <1>5 DEF Next

\* Every step keeps the whole invariant.
LEMMA StepPatient ==
    ASSUME Separate, Patient
    PROVE  TypeInv /\ PatientInv /\ [Next]_vars => PatientInv'
  <1> SUFFICES ASSUME TypeInv, ExtentInv, swallowed = 0 => GoneInv, [Next]_vars, swallowed' = 0
               PROVE  GoneInv'
    BY StepExtent DEF PatientInv
  <1>1. GoneInv /\ ~\E t \in Thread : SwallowedError(t)
    BY SwallowedCounted
  <1>2. CASE \E t \in Thread : ThreadStep(t) \/ Fault(t)
    BY <1>1, <1>2, ThreadStepGone
  <1>3. CASE ~\E t \in Thread : ThreadStep(t) \/ Fault(t)
    <2>1. /\ UNCHANGED cluster
          /\ \A m \in Id : status'[m] = "Destroyed" => status[m] = "Destroyed"
          /\ \A u \in Thread : \/ pc'[u] = pc[u] /\ idx'[u] = idx[u] /\ handle'[u] = handle[u]
                               \/ pc'[u] \notin TeardownLabel
      BY <1>1, <1>3, Requests
    <2>2. (\A m \in Id : Untouched(m)) /\ Persistent'
      BY <1>1, <2>1, QuietStep DEF GoneInv, Persistent, Defined, cluster, rbd
    <2>3. \A m \in Id : Bare(m)' <=> Bare(m)
      BY <2>2, UntouchedKeeps
    <2>4. ASSUME NEW u \in Thread PROVE TeardownKnows(u)'
      BY <1>1, <2>1, <2>2, SpecTypes, OtherGone, NothingToKnow DEF GoneInv
    <2> QED BY <1>1, <2>1, <2>2, <2>3, <2>4 DEF GoneInv
  <1> QED BY <1>2, <1>3

\* A cluster without resources satisfies it.
LEMMA InitPatient == Init => PatientInv
  <1> SUFFICES ASSUME Init PROVE PatientInv
    OBVIOUS
  <1>1. ControlInv
    BY InitControl
  <1>2. DomainsOwned /\ \A m \in Id : Contained(m) /\ DisksHeld(m)
    BY Elements DEF Init, ClusterInit, DomainsOwned, Defined, Contained, DisksHeld, LinkedOf, VmsOf
  <1>3. \A t \in Thread : DeployKnows(t) /\ TeardownKnows(t) /\ TidyKnown(t)
    BY DEF Init, ServiceInit, DeployKnows, NetsKnown, PortsKnown, DisksKnown, VmsKnown, AfterNets,
           AfterPorts, AfterDisks, NetLoop, DiskLoop, VmLoop, CheckLoop, DeployLabel,
           TeardownKnows, TidyKnown, Stopped, PortsOut
  <1>4. \A m \in Id : status[m] = "absent"
    BY DEF Init, ServiceInit
  <1>5. Persistent
    BY DEF Init, ClusterInit, Persistent, Defined
  <1> QED BY <1>1, <1>2, <1>3, <1>4, <1>5 DEF PatientInv, ExtentInv, GoneInv

\* What the invariant says of the two promises about teardown.
LEMMA PatientPromises ==
    ASSUME Separate
    PROVE  TypeInv /\ PatientInv => DestroyedIsClean /\ NothingAttached
  <1> SUFFICES ASSUME TypeInv, PatientInv
               PROVE  DestroyedIsClean /\ NothingAttached
    OBVIOUS
  <1>1. DestroyedIsClean
    BY CleanIsBare DEF TypeInv, PatientInv, ExtentInv, GoneInv, DestroyedIsClean
  <1>2. NothingAttached
    <2>1. TeardownThread \subseteq Thread
      BY DEF Thread
    <2>2. swallowed = 0 => \A t \in TeardownThread :
             pc[t] \in PortsOut => \A v \in VmsOf(t[1]) : ~Defined(PlaceOf(t[1], v), v)
      BY <2>1 DEF PatientInv, GoneInv, TeardownKnows, VmGone
    <2> QED BY <2>2 DEF NothingAttached, PortsOut, Running
  <1> QED BY <1>1, <1>2

\* The invariant holds throughout.
LEMMA PatientCorrect ==
    ASSUME Separate, Patient
    PROVE  Spec => [](TypeInv /\ PatientInv)
  BY InitPatient, StepPatient, TypeCorrect, PTL DEF Spec

\* A mission reported Running has its router, switches, ports, disks made from its own
\* images, and all of its VMs running, whatever the missions, as long as they are
\* separate, and also over domains that an earlier teardown failed to remove.
THEOREM RunningComplete ==
    ASSUME Separate, Patient
    PROVE  Spec => []RunningIsComplete
  <1>1. PatientInv => RunningIsComplete
    BY DEF PatientInv, ExtentInv, RunningIsComplete
  <1> QED BY <1>1, PatientCorrect, PTL

\* While no libvirt error was swallowed, a mission reported Destroyed has left nothing
\* behind, also when its deployment or an earlier teardown failed halfway or the service
\* restarted in between.
THEOREM DestroyedClean ==
    ASSUME Separate, Patient
    PROVE  Spec => []DestroyedIsClean
  BY PatientCorrect, PatientPromises, PTL

\* Also when libvirt errors were swallowed on the way, a mission reported Destroyed has left
\* no OVN row and no disk, and no linked-clone VM of it runs: what destroy_and_undefine
\* failed to remove is a stopped definition or a PXE VM.
THEOREM DestroyedLeavesNoData ==
    ASSUME Separate, Patient
    PROVE  Spec => []DestroyedLeavesDomains
  <1>1. ASSUME TypeInv, PatientInv, NEW m \in Id, status[m] = "Destroyed"
        PROVE  /\ RowsGone(m) /\ DisksGone(m)
               /\ \A h \in Host : \A v \in LinkedOf(m) : ~Running(h, v)
    <2>1. RowsGone(m) /\ DisksGone(m)
      BY <1>1, TidyIsGone DEF PatientInv, ExtentInv, Tidy, TypeInv
    <2>2. ASSUME NEW h \in Host, NEW v \in LinkedOf(m), Running(h, v) PROVE FALSE
      <3>1. Defined(h, v)
        BY <2>2 DEF Running
      <3>2. DiskPresent(v)
        BY <1>1, <2>2, <3>1 DEF PatientInv, ExtentInv, DisksHeld
      <3> QED BY <2>1, <2>2, <3>2 DEF DisksGone, DiskPresent, CloneExists
    <2> QED BY <2>1, <2>2
  <1>2. TypeInv /\ PatientInv => DestroyedLeavesDomains
    BY <1>1 DEF DestroyedLeavesDomains
  <1> QED BY <1>2, PatientCorrect, PTL

\* While a teardown removes ports, switches and disks, no VM of its mission runs, as long as
\* no libvirt error was swallowed.
THEOREM NoneAttached ==
    ASSUME Separate, Patient
    PROVE  Spec => []NothingAttached
  BY PatientCorrect, PatientPromises, PTL

\* No disk of a mission is in use once its VMs are gone: only missions own domains, and
\* they share none.
LEMMA DiskNotInUse ==
    ASSUME Separate, DomainsOwned, NEW m \in Id, NEW v \in VmsOf(m), VmGone(m, v)
    PROVE  ~InUse(v)
  <1> SUFFICES ASSUME NEW h \in Host, Defined(h, v) PROVE FALSE
    BY DEF InUse, Defined
  <1>1. v \in VM
    BY Elements
  <1>2. PICK k \in Id : v \in VmsOf(k) /\ h = PlaceOf(k, v)
    BY <1>1 DEF DomainsOwned, HasOwner
  <1>3. k = m
    BY <1>2 DEF Separate
  <1> QED BY <1>2, <1>3 DEF VmGone

\* So no call of a teardown raises of its own, except at the disk of a VM that runs on.
LEMMA TeardownRaisesOnlyInUse ==
    ASSUME Separate, TypeInv, PatientInv, NEW t \in Thread, Teardown(t), pc'[t] = "failing"
    PROVE  swallowed > 0 /\ pc[t] = "remove_disk" /\ InUse(AtVm(t))
  <1> USE DEF TypeInv
  <1>a. PICK v : v = AtVm(t)
    OBVIOUS
  <1>0. t[1] \in Id /\ (swallowed = 0 => TeardownKnows(t)) /\ TidyKnown(t) /\ DomainsOwned
    BY SpecTypes DEF PatientInv, ExtentInv, GoneInv
  <1>1. CASE RemoveClone(t)
    <2>1. MoreVms(t) /\ pc[t] = "remove_disk"
      BY <1>1 DEF RemoveClone, At
    <2>2. InUse(v)
      BY <1>1, <1>a DEF RemoveClone, Goto, TypeOK
    <2>3. swallowed # 0
      <3>1. SUFFICES ASSUME swallowed = 0 PROVE FALSE
        OBVIOUS
      <3>2. v \in VmsOf(t[1]) /\ VmGone(t[1], v)
        BY <1>0, <1>a, <2>1, <3>1, CurrentElement DEF TeardownKnows, PortsOut
      <3> QED BY <1>0, <2>2, <3>2, DiskNotInUse
    <2> QED BY <1>a, <2>1, <2>2, <2>3 DEF TypeOK
  <1>2. CASE Unlink(t)
    <2>1. MoreVms(t) /\ pc[t] = "unlink"
      BY <1>2 DEF Unlink, At, IndexOK, DiskLabel
    <2>2. CloneExists(v)
      BY <1>0, <1>a, <2>1, CurrentElement DEF TidyKnown, DiskGone
    <2> QED BY <1>2, <1>a, <2>2 DEF Unlink, Goto, TypeOK
  <1>3. CASE \/ TeardownBegins(t) \/ LookupAndStop(t) \/ UndefineVm(t) \/ VmsDestroyed(t)
             \/ RemoveVmPort(t) \/ RemoveSwitch(t) \/ RemoveRouter(t)
             \/ LocalDiskExists(t) \/ DisksRemoved(t)
    BY <1>3
       DEF TeardownBegins, LookupAndStop, UndefineVm, VmsDestroyed, RemoveVmPort, RemoveSwitch,
           RemoveRouter, LocalDiskExists, DisksRemoved, Goto, Finish, TypeOK
  <1> QED BY <1>1, <1>2, <1>3 DEF Teardown

\* A deployment is at work only in the thread of a POST.
LEMMA DeployIsDeployThread ==
    ASSUME ThreadKinds, NEW t \in Thread, Deploy(t)
    PROVE  t[2] = 0
  BY DEF ThreadKinds, DeployOnly, DeployLabel, Deploy, DeployNetworks, DeployStorage, DeployVms,
         DeployBegins, AddRouter, AddSwitch, AddRouterPort, AddPeerPort, NetworksDone, AddVmPort,
         PortsDone, ListSnaps, CreateSnap, IsProtected, ProtectSnap, ListClones, Clone,
         LocalCloneExists, QemuImgCreate, StorageDone, NoFreeGpu, DefineVm, StartVm, VmsDone,
         CheckSwitches, CheckVm, Verdict, At

\* A teardown fails only because a backend call fails of its own accord, or at the disk of a
\* VM that a swallowed error left running: nothing else that a failed deployment or an
\* earlier teardown left behind makes one raise.
THEOREM TeardownsFailOnlyByFault ==
    ASSUME Separate, Patient
    PROVE  Spec => TeardownFailsOnlyByFault
  <1> DEFINE RaisedBy(t) == \/ faults' = faults + 1
                            \/ swallowed > 0 /\ pc[t] = "remove_disk" /\ InUse(AtVm(t))
  <1>1. ASSUME TypeInv, PatientInv, [Next]_vars, NEW t \in TeardownThread,
               pc[t] # "failing", pc'[t] = "failing"
        PROVE  RaisedBy(t)
    <2> USE DEF TypeInv
    <2>1. t \in Thread /\ t[2] # 0
      BY <1>1 DEF Thread, TeardownThread
    <2>2. ASSUME NEW m \in Id, CreateMission(m) PROVE FALSE
      BY <1>1, <2>1, <2>2 DEF CreateMission, Goto, Finish, TypeOK
    <2>3. ASSUME NEW m \in Id, NEW k \in 1 .. MaxDeletes, DeleteMission(m, k) PROVE FALSE
      BY <1>1, <2>1, <2>3 DEF DeleteMission, Goto, TypeOK
    <2>4. ASSUME NEW u \in Thread, ThreadStep(u) \/ Fault(u) PROVE RaisedBy(t)
      <3>1. u = t
        BY <1>1, <2>1, <2>4, StepMovesOne DEF OnlyMoves
      <3>2. CASE Deploy(t)
        BY <2>1, <3>2, DeployIsDeployThread, <1>1 DEF PatientInv, ExtentInv, ControlInv
      <3>3. CASE Teardown(t)
        BY <1>1, <2>1, <3>1, <3>3, TeardownRaisesOnlyInUse
      <3>4. CASE SkipDiskless(t) \/ RecordFailure(t)
        BY <1>1, <2>1, <3>4 DEF SkipDiskless, RecordFailure, Goto, Finish, TypeOK
      <3>5. CASE Fault(t)
        BY <3>5 DEF Fault
      <3> QED BY <2>4, <3>1, <3>2, <3>3, <3>4, <3>5 DEF ThreadStep
    <2>5. ASSUME NEW u \in Thread, SwallowedError(u) PROVE FALSE
      BY <1>1, <2>1, <2>5 DEF SwallowedError, Goto, TypeOK
    <2>6. CASE Restart
      BY <1>1, <2>1, <2>6 DEF Restart
    <2>7. CASE UNCHANGED vars
      BY <1>1, <2>7 DEF vars
    <2> QED BY <1>1, <2>2, <2>3, <2>4, <2>5, <2>6, <2>7 DEF Next
  <1>2. TypeInv /\ PatientInv /\ [Next]_vars
          => [\A t \in TeardownThread :
                 pc[t] # "failing" /\ pc'[t] = "failing" => RaisedBy(t)]_vars
    BY <1>1
  <1> QED BY <1>2, PatientCorrect, PTL DEF Spec, TeardownFailsOnlyByFault

----------------------------------------------------------------------------
(* The service implements MissionLifecycle.                                 *)

\* How much of a mission's own resources exists.
Extent(m) == IF Bare(m) THEN "none" ELSE IF Complete(m) THEN "whole" ELSE "part"

\* The footprint of the refinement mapping is that.
LEMMA FootprintIsExtent ==
    Separate /\ TypeInv /\ ExtentInv => Footprint = [m \in Id |-> Extent(m)]
  BY CleanIsBare DEF TypeInv, ExtentInv, Footprint, Extent

\* A whole mission is not bare.
LEMMA WholeIsNotBare ==
    ASSUME NEW m \in Id, Complete(m)
    PROVE  Extent(m) = "whole"
  BY DEF Complete, Bare, NoRows, MissionName, Extent

\* A mission without rows is not whole.
LEMMA TidyIsNotWhole ==
    ASSUME NEW m \in Id, Tidy(m)
    PROVE  Extent(m) # "whole"
  BY DEF Tidy, Complete, NoRows, MissionName, Extent

\* A step elsewhere leaves the extent of a mission as it is.
LEMMA UntouchedExtent ==
    ASSUME NEW m \in Id, Untouched(m)
    PROVE  Extent(m)' = Extent(m)
  BY UntouchedKeeps DEF Extent

\* Adding takes a mission towards whole.
LEMMA AddsExtent ==
    ASSUME NEW m \in Id, Adds, Extent(m)' # Extent(m)
    PROVE  Extent(m) # "whole" /\ Extent(m)' \in {"part", "whole"}
  <1>1. /\ Complete(m) => Complete(m)'
        /\ Bare(m)' => Bare(m)
        /\ Complete(m) => Extent(m) = "whole"
    BY AddsKeep, WholeIsNotBare
  <1>2. Complete(m)' => ~(Bare(m)')
    BY DEF Complete, Bare, NoRows, MissionName
  <1> QED BY <1>1, <1>2 DEF Extent

\* Removing takes it towards bare.
LEMMA RemovesExtent ==
    ASSUME NEW m \in Id, Removes, Extent(m)' # Extent(m)
    PROVE  Extent(m) # "none" /\ Extent(m)' \in {"part", "none"}
  <1>1. /\ Bare(m) => Bare(m)'
        /\ Complete(m)' => Complete(m)
        /\ Complete(m) => Extent(m) = "whole"
    BY RemovesKeep, WholeIsNotBare
  <1> QED BY <1>1 DEF Extent

\* A deployment adds between its first state and validation, a teardown removes while
\* Destroying, and nothing else changes a resource.
LEMMA WhenResourcesChange ==
    ASSUME Separate, TypeInv, ExtentInv, NEW t \in Thread, ThreadStep(t) \/ Fault(t)
    PROVE  \/ UNCHANGED <<ovn, clones, domains>>
           \/ Adds /\ status[t[1]] \in {"DeployingNetworks", "CloningStorage", "DefiningVMs"}
           \/ Removes /\ status[t[1]] = "Destroying"
  <1> USE DEF TypeInv
  <1>0. /\ t[1] \in Id /\ Phased(pc[t], status[t[1]]) /\ Contained(t[1]) /\ DomainsOwned
    BY SpecTypes DEF ExtentInv, ControlInv
  <1> USE DEF Phased, NetLoop, DiskLoop, VmLoop, CheckLoop, TeardownLabel, At
  <1>1. CASE DeployNetworks(t)
    <2>1. Adds
      BY <1>0, <1>1, NetworkAdds
    <2> QED BY <1>0, <1>1, <2>1
            DEF DeployNetworks, DeployBegins, AddRouter, AddSwitch, AddRouterPort, AddPeerPort,
                NetworksDone, AddVmPort, PortsDone, cluster, rbd
  <1>2. CASE DeployStorage(t)
    <2>1. Adds
      BY <1>0, <1>2, StorageAdds
    <2> QED BY <1>0, <1>2, <2>1
            DEF DeployStorage, ListSnaps, CreateSnap, IsProtected, ProtectSnap, ListClones, Clone,
                LocalCloneExists, QemuImgCreate, StorageDone
  <1>3. CASE DeployVms(t)
    <2>1. Adds
      BY <1>0, <1>3, VmsAdd
    <2> QED BY <1>0, <1>3, <2>1
            DEF DeployVms, NoFreeGpu, DefineVm, StartVm, VmsDone, CheckSwitches, CheckVm, Verdict,
                cluster, rbd
  <1>4. CASE Teardown(t)
    <2>1. Removes
      BY <1>0, <1>4, TeardownRemoves
    <2> QED BY <1>0, <1>4, <2>1
            DEF Teardown, TeardownBegins, LookupAndStop, UndefineVm, VmsDestroyed, RemoveVmPort,
                RemoveSwitch, RemoveRouter, RemoveClone, LocalDiskExists, Unlink, DisksRemoved,
                cluster, rbd
  <1>5. CASE SkipDiskless(t) \/ RecordFailure(t) \/ Fault(t)
    BY <1>5 DEF SkipDiskless, RecordFailure, Fault, cluster, rbd
  <1> QED BY <1>1, <1>2, <1>3, <1>4, <1>5 DEF ThreadStep, Deploy

\* A step of a thread is a step of its mission's lifecycle, or invisible.
LEMMA ThreadStepImplements ==
    ASSUME Separate, TypeInv, PatientInv, NEW t \in Thread, ThreadStep(t) \/ Fault(t),
           Footprint = [m \in Id |-> Extent(m)], Footprint' = [m \in Id |-> Extent(m)']
    PROVE  [Lifecycle!LNext]_<<status, Footprint, swallowed = 0>>
  <1> USE DEF TypeInv
  <1> DEFINE m == t[1]
  <1>0. /\ m \in Id /\ DeployKnows(t) /\ TidyKnown(t) /\ ExtentInv
        /\ swallowed = 0 => TeardownKnows(t)
    BY SpecTypes DEF PatientInv, ExtentInv, GoneInv
  <1>a. UNCHANGED (swallowed = 0)
    BY ThreadStepCounted
  <1>1. StateMoves(t) /\ \A k \in Id : k # m => Untouched(k)
    BY <1>0, ThreadMoves, OwnKnown DEF ExtentInv, KeepsBounds
  <1>2. \A k \in Id : k # m => Extent(k)' = Extent(k)
    BY <1>1, UntouchedExtent
  <1>3. UNCHANGED <<ovn, clones, domains>> => Footprint' = Footprint
    BY QuietStep, UntouchedExtent
  <1>4. CASE UNCHANGED status
    <2>1. CASE Extent(m)' = Extent(m)
      <3>1. Footprint' = Footprint
        BY <1>2, <2>1
      <3> QED BY <1>4, <1>a, <3>1
    <2>2. CASE Extent(m)' # Extent(m)
      <3>1. Footprint' = [Footprint EXCEPT ![m] = Extent(m)']
        BY <1>0, <1>2
      <3>2. Footprint[m] = Extent(m)
        BY <1>0
      <3>3. ~UNCHANGED <<ovn, clones, domains>>
        BY <1>0, <2>2, QuietStep, UntouchedExtent
      <3>4. CASE Adds /\ status[m] \in {"DeployingNetworks", "CloningStorage", "DefiningVMs"}
        <4>1. Extent(m) # "whole" /\ Extent(m)' \in {"part", "whole"}
          BY <1>0, <2>2, <3>4, AddsExtent
        <4>2. Lifecycle!Build(m)
          BY <1>4, <1>a, <3>1, <3>2, <3>4, <4>1 DEF Lifecycle!Build
        <4> QED BY <1>0, <4>2 DEF Lifecycle!LNext
      <3>5. CASE Removes /\ status[m] = "Destroying"
        <4>1. Extent(m) # "none" /\ Extent(m)' \in {"part", "none"}
          BY <1>0, <2>2, <3>5, RemovesExtent
        <4>2. Lifecycle!Dismantle(m)
          BY <1>4, <1>a, <3>1, <3>2, <3>5, <4>1 DEF Lifecycle!Dismantle
        <4> QED BY <1>0, <4>2 DEF Lifecycle!LNext
      <3> QED BY <1>0, <3>3, <3>4, <3>5, WhenResourcesChange
    <2> QED BY <2>1, <2>2
  <1>5. CASE ~UNCHANGED status
    <2>1. Footprint' = Footprint
      BY <1>1, <1>3, <1>5 DEF StateMoves, Becomes
    <2>2. pc[t] = "check_vm" => Footprint[m] = "whole"
      BY <1>0, ValidatingIsComplete, WholeIsNotBare DEF CheckLoop
    <2>3. pc[t] = "remove_disk" /\ ~MoreVms(t) =>
            /\ Footprint[m] # "whole"
            /\ swallowed = 0 => Footprint[m] = "none"
      BY <1>0, RemovedIsTidy, TidyIsNotWhole, RemovedIsBare DEF Extent
    <2>4. \/ Lifecycle!Advance(m) \/ Lifecycle!Fail(m) \/ Lifecycle!Delete(m) \/ Lifecycle!Gone(m)
      BY <1>0, <1>1, <1>5, <1>a, <2>1, <2>2, <2>3
         DEF StateMoves, Becomes, UpdateState, Busy, Lifecycle!Advance, Lifecycle!Fail,
             Lifecycle!Delete, Lifecycle!Gone, Lifecycle!Enter
    <2> QED BY <1>0, <2>4 DEF Lifecycle!LNext
  <1> QED BY <1>4, <1>5

\* Every step is a step of the lifecycle of one mission, or invisible.
LEMMA StepImplements ==
    ASSUME Separate, Patient
    PROVE  /\ TypeInv /\ PatientInv /\ [Next]_vars
           /\ Footprint = [m \in Id |-> Extent(m)] /\ Footprint' = [m \in Id |-> Extent(m)']
           => [Lifecycle!LNext]_<<status, Footprint, swallowed = 0>>
  <1> SUFFICES ASSUME TypeInv, PatientInv, [Next]_vars,
                      Footprint = [m \in Id |-> Extent(m)],
                      Footprint' = [m \in Id |-> Extent(m)']
               PROVE  [Lifecycle!LNext]_<<status, Footprint, swallowed = 0>>
    OBVIOUS
  <1>0. UNCHANGED <<ovn, clones, domains>> => Footprint' = Footprint
    BY QuietStep, UntouchedExtent
  <1>1. ASSUME NEW m \in Id, CreateMission(m) PROVE Lifecycle!LNext
    <2>1. Footprint' = Footprint
      BY <1>0, <1>1 DEF CreateMission, cluster, rbd
    <2>2. Lifecycle!Accept(m)
      BY <1>1, <2>1 DEF CreateMission, Lifecycle!Accept, Lifecycle!Enter, counters
    <2> QED BY <2>2 DEF Lifecycle!LNext
  <1>2. ASSUME NEW m \in Id, NEW k \in 1 .. MaxDeletes, DeleteMission(m, k)
        PROVE  UNCHANGED <<status, Footprint, swallowed>>
    BY <1>0, <1>2 DEF DeleteMission, cluster, rbd, counters
  <1>3. ASSUME NEW t \in Thread, ThreadStep(t) \/ Fault(t)
        PROVE  [Lifecycle!LNext]_<<status, Footprint, swallowed = 0>>
    BY <1>3, ThreadStepImplements
  <1>4. ASSUME NEW t \in Thread, SwallowedError(t) PROVE Lifecycle!LNext
    <2>1. Footprint' = Footprint
      BY <1>0, <1>4 DEF SwallowedError, cluster, rbd
    <2>2. UNCHANGED status /\ swallowed' # 0
      BY <1>4 DEF SwallowedError, TypeInv, TypeOK
    <2>3. Lifecycle!Hide
      BY <2>1, <2>2 DEF Lifecycle!Hide
    <2> QED BY <2>3 DEF Lifecycle!LNext
  <1>5. CASE Restart
    <2>1. Footprint' = Footprint
      BY <1>0, <1>5 DEF Restart, cluster, rbd
    <2>2. Lifecycle!Crash
      BY <1>5, <2>1 DEF Restart, Lifecycle!Crash
    <2> QED BY <2>2 DEF Lifecycle!LNext
  <1>6. CASE UNCHANGED vars
    BY <1>0, <1>6 DEF vars, counters, cluster, rbd
  <1> QED BY <1>1, <1>2, <1>3, <1>4, <1>5, <1>6 DEF Next

\* At first no mission is known and nothing of any exists.
LEMMA InitImplements == Init => Lifecycle!LInit
  <1> SUFFICES ASSUME Init PROVE Lifecycle!LInit
    OBVIOUS
  <1>1. \A m \in Id : Clean(m)
    BY Elements DEF Init, ClusterInit, Clean, RowsGone, DisksGone, CloneExists, OwnedBy,
                    Defined
  <1>2. Footprint = [m \in Id |-> "none"]
    BY <1>1 DEF Footprint
  <1>3. (swallowed = 0) = TRUE
    BY DEF Init, ServiceInit
  <1> QED BY <1>3, <1>2 DEF Init, ServiceInit, Lifecycle!LInit

\* Every step of the service is a step of the promised lifecycle of one mission, or
\* invisible to clients: its states come in the promised order, Running is reported when
\* everything exists, Destroyed when nothing does or a libvirt error was swallowed, and the
\* resources of a mission change only while that mission itself is deployed or torn down.
THEOREM LifecycleImplemented ==
    ASSUME Separate, Patient
    PROVE  Spec => ImplementsLifecycle
  <1>1. TypeInv /\ PatientInv => Footprint = [m \in Id |-> Extent(m)]
    BY FootprintIsExtent DEF PatientInv
  <1>2. (TypeInv /\ PatientInv => Footprint = [m \in Id |-> Extent(m)])'
    BY <1>1, PTL
  <1>3. TypeInv /\ PatientInv /\ TypeInv' /\ PatientInv' /\ [Next]_vars
          => [Lifecycle!LNext]_<<status, Footprint, swallowed = 0>>
    BY <1>1, <1>2, StepImplements
  <1> QED BY <1>3, InitImplements, PatientCorrect, PTL
          DEF Spec, ImplementsLifecycle, Lifecycle!LSpec, Lifecycle!lifecycleVars
==============================================================================
