------------------------- MODULE MissionServiceProofs -------------------------
(***************************************************************************)
(* Theorems about MissionService, for any missions, inventory and bounds.  *)
(***************************************************************************)
EXTENDS MissionProperties, TLAPS

----------------------------------------------------------------------------
(* What a thread's position in its loop says.                               *)

NetLabel == {"add_router_port", "add_peer_port"}
DiskLabel == {"create_snap", "is_protected", "protect_snap", "list_clones", "clone",
              "qemu_img", "unlink"}
VmLabel == {"start", "undefine"}

\* Between the calls of one round of a loop the loop variable stays inside its sequence.
IndexOK ==
    \A t \in Thread :
        /\ idx[t] # 0
        /\ pc[t] \in NetLabel => MoreNets(t)
        /\ pc[t] \in VmLabel => MoreVms(t)
        /\ pc[t] \in DiskLabel => MoreVms(t) /\ ImageAt(t) # NoImage

TypeInv == TypeOK /\ IndexOK

----------------------------------------------------------------------------
(* The elements of a specification have their types.                        *)

\* A thread works on a submitted mission.
LEMMA SpecTypes ==
    ASSUME NEW t \in Thread
    PROVE  /\ t[1] \in Id
           /\ SpecOf(t) \in MissionSpec
           /\ NameOf(t) \in Name
  BY SubmittedAssumption DEF Thread, DeployThread, TeardownThread, SpecOf, NameOf, MissionSpec

\* Inside the network loop the current element is a network.
LEMMA AtNetType ==
    ASSUME NEW t \in Thread, idx[t] \in Nat, idx[t] # 0, MoreNets(t)
    PROVE  AtNet(t) \in Net
  <1>1. SpecOf(t).networks \in Seq(Net)
    BY SpecTypes DEF MissionSpec
  <1> QED BY <1>1 DEF AtNet, MoreNets

\* Inside the port loop the current element is an interface.
LEMMA AtPortType ==
    ASSUME NEW t \in Thread, idx[t] \in Nat, idx[t] # 0, MorePorts(t)
    PROVE  AtPort(t) \in VM \X Net
  <1>1. SpecOf(t).ports \in Seq(VM \X Net)
    BY SpecTypes DEF MissionSpec
  <1> QED BY <1>1 DEF AtPort, MorePorts

\* Inside a VM loop the current element is a VM, and so on for what hangs on it.
LEMMA AtVmType ==
    ASSUME NEW t \in Thread, idx[t] \in Nat, idx[t] # 0, MoreVms(t)
    PROVE  /\ AtVm(t) \in VM
           /\ HostAt(t) \in Host
           /\ ImageAt(t) \in Image \cup {NoImage}
           /\ <<HostAt(t), AtVm(t)>> \in Host \X VM
  <1>1. /\ SpecOf(t).vms \in Seq(VM)
        /\ SpecOf(t).placement \in [VM -> Host]
        /\ SpecOf(t).image \in [VM -> Image \cup {NoImage}]
    BY SpecTypes DEF MissionSpec
  <1>2. AtVm(t) \in VM
    BY <1>1 DEF AtVm, MoreVms
  <1> QED BY <1>1, <1>2 DEF HostAt, ImageAt

----------------------------------------------------------------------------
(* A step of thread t that ends in Goto keeps the types of pc and idx, and  *)
(* the other threads' positions.                                            *)

\* Goto keeps pc, idx and IndexOK when the new label allows the new index.
LEMMA GotoKeepsIndex ==
    ASSUME TypeInv,
           NEW t \in Thread, NEW l \in Label, NEW i \in Nat,
           Goto(t, l, i), i # 0,
           l \in NetLabel => i <= Len(SpecOf(t).networks),
           l \in VmLabel => i <= Len(SpecOf(t).vms),
           l \in DiskLabel => /\ i <= Len(SpecOf(t).vms)
                              /\ SpecOf(t).image[SpecOf(t).vms[i]] # NoImage
    PROVE  /\ pc' \in [Thread -> Label]
           /\ idx' \in [Thread -> Nat]
           /\ IndexOK'
  <1>1. /\ pc' \in [Thread -> Label] /\ idx' \in [Thread -> Nat]
        /\ pc'[t] = l /\ idx'[t] = i
        /\ \A u \in Thread : u # t => pc'[u] = pc[u] /\ idx'[u] = idx[u]
    BY DEF TypeInv, TypeOK, Goto
  <1>2. IndexOK'
    <2> SUFFICES ASSUME NEW u \in Thread
                 PROVE  /\ idx'[u] # 0
                        /\ pc'[u] \in NetLabel => MoreNets(u)'
                        /\ pc'[u] \in VmLabel => MoreVms(u)'
                        /\ pc'[u] \in DiskLabel => MoreVms(u)' /\ ImageAt(u)' # NoImage
      BY DEF IndexOK
    <2>1. CASE u = t
      BY <1>1, <2>1 DEF MoreNets, MoreVms, ImageAt, AtVm, SpecOf
    <2>2. CASE u # t
      BY <1>1, <2>2 DEF TypeInv, IndexOK, MoreNets, MoreVms, ImageAt, AtVm, SpecOf
    <2> QED BY <2>1, <2>2
  <1> QED BY <1>1, <1>2

\* The same without a condition on the label, for the labels that have none.
LEMMA GotoFree ==
    ASSUME TypeInv,
           NEW t \in Thread, NEW l \in Label, NEW i \in Nat,
           Goto(t, l, i), i # 0, l \notin NetLabel \cup VmLabel \cup DiskLabel
    PROVE  /\ pc' \in [Thread -> Label]
           /\ idx' \in [Thread -> Nat]
           /\ IndexOK'
  BY GotoKeepsIndex

\* Leaving the "try", or the thread.
LEMMA RaiseKeepsIndex ==
    ASSUME TypeInv, NEW t \in Thread, Raise(t) \/ Finish(t)
    PROVE  /\ pc' \in [Thread -> Label]
           /\ idx' \in [Thread -> Nat]
           /\ IndexOK'
  BY GotoFree DEF Raise, Finish, Label, NetLabel, VmLabel, DiskLabel

\* A state written to the store is a mission state.
LEMMA StatusType ==
    ASSUME TypeOK, NEW t \in Thread, NEW s \in MissionState, UpdateState(t, s)
    PROVE  status' \in [Id -> MissionState \cup {"absent"}]
  BY DEF TypeOK, UpdateState

----------------------------------------------------------------------------
(* Calls that change libvirt domains or the GPU pool keep their types.      *)

\* What is defined is a domain.
LEMMA DefinedIsDomain ==
    ASSUME TypeOK, NEW h \in Host, NEW v \in VM, Defined(h, v)
    PROVE  domains[<<h, v>>] \in Domain
  BY DEF TypeOK, ClusterTypeOK, Defined

\* Replacing one domain keeps the type of domains.
LEMMA SetDomain ==
    ASSUME TypeOK, NEW h \in Host, NEW v \in VM, NEW d \in Domain \cup {NoDomain},
           domains' = [domains EXCEPT ![<<h, v>>] = d]
    PROVE  domains' \in [Host \X VM -> Domain \cup {NoDomain}]
  BY DEF TypeOK, ClusterTypeOK

\* defineXML keeps the type of domains.
LEMMA DefineXMLType ==
    ASSUME TypeOK, NEW h \in Host, NEW v \in VM, NEW n \in Name,
           NEW p \in Pci \cup {NoPci}, NEW b \in BOOLEAN, DefineXML(h, v, n, p, b)
    PROVE  domains' \in [Host \X VM -> Domain \cup {NoDomain}]
  <1> DEFINE d == IF Running(h, v)
                    THEN [domains[<<h, v>>] EXCEPT !.persistent = TRUE]
                    ELSE [owner |-> n, pci |-> p, disk |-> b,
                          persistent |-> TRUE, running |-> FALSE]
  <1>1. d \in Domain
    <2>1. CASE Running(h, v)
      <3>1. domains[<<h, v>>] \in Domain
        BY <2>1, DefinedIsDomain DEF Running
      <3> QED BY <2>1, <3>1 DEF Domain
    <2>2. CASE ~Running(h, v)
      BY <2>2 DEF Domain
    <2> QED BY <2>1, <2>2
  <1>2. domains' = [domains EXCEPT ![<<h, v>>] = d]
    BY DEF DefineXML
  <1> QED BY <1>1, <1>2, SetDomain

\* create(), destroy() and undefine() of a defined domain keep the type of domains.
LEMMA DomainCallTypes ==
    ASSUME TypeOK, NEW h \in Host, NEW v \in VM, Defined(h, v),
           Start(h, v) \/ Stop(h, v) \/ Undefine(h, v)
    PROVE  domains' \in [Host \X VM -> Domain \cup {NoDomain}]
  <1> DEFINE o == domains[<<h, v>>]
  <1>1. o \in Domain
    BY DefinedIsDomain
  <1>2. PICK d \in Domain \cup {NoDomain} : domains' = [domains EXCEPT ![<<h, v>>] = d]
    <2>1. CASE Start(h, v)
      <3>1. [o EXCEPT !.running = TRUE] \in Domain
        BY <1>1 DEF Domain
      <3>2. domains' = [domains EXCEPT ![<<h, v>>] = [o EXCEPT !.running = TRUE]]
        BY <2>1 DEF Start
      <3> QED BY <3>1, <3>2
    <2>2. CASE Stop(h, v)
      <3> DEFINE d == IF o.persistent THEN [o EXCEPT !.running = FALSE] ELSE NoDomain
      <3>1. d \in Domain \cup {NoDomain}
        BY <1>1 DEF Domain
      <3>2. domains' = [domains EXCEPT ![<<h, v>>] = d]
        BY <2>2 DEF Stop
      <3> QED BY <3>1, <3>2
    <2>3. CASE Undefine(h, v)
      <3> DEFINE d == IF o.running THEN [o EXCEPT !.persistent = FALSE] ELSE NoDomain
      <3>1. d \in Domain \cup {NoDomain}
        BY <1>1 DEF Domain
      <3>2. domains' = [domains EXCEPT ![<<h, v>>] = d]
        BY <2>3 DEF Undefine
      <3> QED BY <3>1, <3>2
    <2> QED BY <2>1, <2>2, <2>3
  <1> QED BY <1>2, SetDomain

\* Taking an address from a pool that is not empty keeps the type of the pools.
LEMMA PopTypes ==
    ASSUME TypeOK, NEW m \in Id, NEW h \in Host, gpuPool[m][h] # <<>>
    PROVE  /\ NextGpu(m, h) \in Pci
           /\ PopGpu(m, h) => gpuPool' \in [Id -> [Host -> Seq(Pci)]]
  <1>1. gpuPool[m][h] \in Seq(Pci)
    BY DEF TypeOK
  <1>2. Head(gpuPool[m][h]) \in Pci /\ Tail(gpuPool[m][h]) \in Seq(Pci)
    BY <1>1
  <1>3. ASSUME PopGpu(m, h) PROVE gpuPool' \in [Id -> [Host -> Seq(Pci)]]
    <2> DEFINE pool == [gpuPool[m] EXCEPT ![h] = Tail(gpuPool[m][h])]
    <2>1. pool \in [Host -> Seq(Pci)]
      BY <1>2 DEF TypeOK
    <2>2. gpuPool' = [gpuPool EXCEPT ![m] = pool]
      BY <1>3 DEF PopGpu
    <2> HIDE DEF pool
    <2> QED BY <2>1, <2>2 DEF TypeOK
  <1> QED BY <1>2, <1>3 DEF NextGpu

----------------------------------------------------------------------------
(* Types are kept by every step.                                            *)

\* The initial state has the types.
LEMMA InitTypes == Init => TypeInv
  BY InventoryAssumption, NullAssumption
     DEF Init, ServiceInit, ClusterInit, TypeInv, TypeOK, ClusterTypeOK, IndexOK, Label,
         NetLabel, VmLabel, DiskLabel

\* The requests keep the types.
LEMMA RequestTypes ==
    ASSUME TypeInv,
           \/ \E m \in Id : CreateMission(m)
           \/ \E m \in Id, k \in 1 .. MaxDeletes : DeleteMission(m, k)
    PROVE  TypeInv'
  <1>1. ASSUME NEW m \in Id, CreateMission(m) PROVE TypeInv'
    <2>1. <<m, 0>> \in Thread
      BY DEF Thread, DeployThread
    <2>2. /\ pc' \in [Thread -> Label] /\ idx' \in [Thread -> Nat] /\ IndexOK'
      BY <1>1, <2>1, GotoFree, RaiseKeepsIndex
         DEF CreateMission, Label, NetLabel, VmLabel, DiskLabel
    <2> QED BY <1>1, <2>2
         DEF CreateMission, TypeInv, TypeOK, ClusterTypeOK, MissionState, locals, counters,
             cluster, ovn, rbd
  <1>2. ASSUME NEW m \in Id, NEW k \in 1 .. MaxDeletes, DeleteMission(m, k) PROVE TypeInv'
    <2>1. <<m, k>> \in Thread
      BY DEF Thread, TeardownThread
    <2>2. /\ pc' \in [Thread -> Label] /\ idx' \in [Thread -> Nat] /\ IndexOK'
      BY <1>2, <2>1, GotoFree DEF DeleteMission, Label, NetLabel, VmLabel, DiskLabel
    <2> QED BY <1>2, <2>2
         DEF DeleteMission, TypeInv, TypeOK, ClusterTypeOK, locals, counters, cluster, ovn, rbd
  <1> QED BY <1>1, <1>2

\* The network part of a deployment keeps the types.
LEMMA NetworkTypes ==
    ASSUME TypeInv, NEW t \in Thread, DeployNetworks(t)
    PROVE  TypeInv'
  <1> USE DEF TypeInv
  <1>a. idx[t] \in Nat /\ idx[t] # 0 /\ idx[t] + 1 \in Nat /\ idx[t] + 1 # 0
    BY DEF TypeOK, IndexOK
  <1>1. CASE DeployBegins(t)
    <2>1. /\ pc' \in [Thread -> Label] /\ idx' \in [Thread -> Nat] /\ IndexOK'
      BY <1>1, GotoFree, RaiseKeepsIndex DEF DeployBegins, Label, NetLabel, VmLabel, DiskLabel,
         DeployLabel
    <2>2. status' \in [Id -> MissionState \cup {"absent"}]
      BY <1>1, StatusType DEF DeployBegins, MissionState, TypeOK
    <2>3. gpuPool' \in [Id -> [Host -> Seq(Pci)]]
      BY <1>1, InventoryAssumption DEF DeployBegins, TypeOK
    <2> QED BY <1>1, <2>1, <2>2, <2>3
         DEF DeployBegins, TypeOK, ClusterTypeOK, counters, cluster, ovn, rbd
  <1>2. CASE AddRouter(t)
    <2>1. /\ pc' \in [Thread -> Label] /\ idx' \in [Thread -> Nat] /\ IndexOK'
      BY <1>2, GotoFree DEF AddRouter, Label, NetLabel, VmLabel, DiskLabel, DeployLabel
    <2> QED BY <1>2, <2>1, SpecTypes
         DEF AddRouter, LrAdd, TypeOK, ClusterTypeOK, locals, counters, rbd
  <1>3. CASE AddSwitch(t)
    <2>1. /\ pc' \in [Thread -> Label] /\ idx' \in [Thread -> Nat] /\ IndexOK'
      BY <1>3, <1>a, GotoKeepsIndex
         DEF AddSwitch, MoreNets, Label, NetLabel, VmLabel, DiskLabel, DeployLabel
    <2> QED BY <1>3, <1>a, <2>1, SpecTypes, AtNetType
         DEF AddSwitch, LsAdd, TypeOK, ClusterTypeOK, locals, counters, rbd
  <1>4. CASE AddRouterPort(t)
    <2>1. MoreNets(t)
      BY <1>4 DEF AddRouterPort, At, IndexOK, NetLabel
    <2>2. /\ pc' \in [Thread -> Label] /\ idx' \in [Thread -> Nat] /\ IndexOK'
      BY <1>4, <1>a, <2>1, GotoKeepsIndex, RaiseKeepsIndex
         DEF AddRouterPort, MoreNets, Label, NetLabel, VmLabel, DiskLabel, DeployLabel
    <2> QED BY <1>4, <1>a, <2>1, <2>2, SpecTypes, AtNetType
         DEF AddRouterPort, LrpAdd, TypeOK, ClusterTypeOK, locals, counters, rbd
  <1>5. CASE AddPeerPort(t)
    <2>1. MoreNets(t)
      BY <1>5 DEF AddPeerPort, At, IndexOK, NetLabel
    <2>2. /\ pc' \in [Thread -> Label] /\ idx' \in [Thread -> Nat] /\ IndexOK'
      BY <1>5, <1>a, GotoFree, RaiseKeepsIndex
         DEF AddPeerPort, Label, NetLabel, VmLabel, DiskLabel, DeployLabel
    <2> QED BY <1>5, <1>a, <2>1, <2>2, SpecTypes, AtNetType
         DEF AddPeerPort, PeerAdd, TypeOK, ClusterTypeOK, locals, counters, rbd
  <1>6. CASE NetworksDone(t)
    <2>1. /\ pc' \in [Thread -> Label] /\ idx' \in [Thread -> Nat] /\ IndexOK'
      BY <1>6, GotoFree DEF NetworksDone, Label, NetLabel, VmLabel, DiskLabel, DeployLabel
    <2> QED BY <1>6, <2>1
         DEF NetworksDone, TypeOK, ClusterTypeOK, locals, counters, cluster, ovn, rbd
  <1>7. CASE AddVmPort(t)
    <2>1. /\ pc' \in [Thread -> Label] /\ idx' \in [Thread -> Nat] /\ IndexOK'
      BY <1>7, <1>a, GotoFree, RaiseKeepsIndex
         DEF AddVmPort, Label, NetLabel, VmLabel, DiskLabel, DeployLabel
    <2>2. AtPort(t) \in VM \X Net
      BY <1>7, <1>a, AtPortType DEF AddVmPort
    <2> QED BY <1>7, <2>1, <2>2, SpecTypes
         DEF AddVmPort, LspAdd, TypeOK, ClusterTypeOK, locals, counters, rbd
  <1>8. CASE PortsDone(t)
    <2>1. /\ pc' \in [Thread -> Label] /\ idx' \in [Thread -> Nat] /\ IndexOK'
      BY <1>8, GotoFree DEF PortsDone, Label, NetLabel, VmLabel, DiskLabel, DeployLabel
    <2>2. status' \in [Id -> MissionState \cup {"absent"}]
      BY <1>8, StatusType DEF PortsDone, MissionState
    <2> QED BY <1>8, <2>1, <2>2
         DEF PortsDone, TypeOK, ClusterTypeOK, locals, counters, cluster, ovn, rbd
  <1> QED BY <1>1, <1>2, <1>3, <1>4, <1>5, <1>6, <1>7, <1>8 DEF DeployNetworks

\* The storage part of a deployment keeps the types.
LEMMA StorageTypes ==
    ASSUME TypeInv, NEW t \in Thread, DeployStorage(t)
    PROVE  TypeInv'
  <1> USE DEF TypeInv
  <1>a. idx[t] \in Nat /\ idx[t] # 0 /\ idx[t] + 1 \in Nat /\ idx[t] + 1 # 0
    BY DEF TypeOK, IndexOK
  <1>1. CASE ListSnaps(t)
    <2>1. MoreVms(t) /\ ImageAt(t) # NoImage
      BY <1>1 DEF ListSnaps
    <2>2. /\ pc' \in [Thread -> Label] /\ idx' \in [Thread -> Nat] /\ IndexOK'
      BY <1>1, <1>a, <2>1, GotoKeepsIndex
         DEF ListSnaps, MoreVms, ImageAt, AtVm, Label, NetLabel, VmLabel, DiskLabel, DeployLabel, TeardownLabel
    <2> QED BY <1>1, <1>a, <2>1, <2>2
         DEF ListSnaps, TypeOK, ClusterTypeOK, locals, counters, cluster, ovn, rbd
  <1>2. CASE CreateSnap(t)
    <2>1. MoreVms(t) /\ ImageAt(t) # NoImage
      BY <1>2 DEF CreateSnap, At, IndexOK, VmLabel, DiskLabel
    <2>2. /\ pc' \in [Thread -> Label] /\ idx' \in [Thread -> Nat] /\ IndexOK'
      BY <1>2, <1>a, <2>1, GotoKeepsIndex, RaiseKeepsIndex
         DEF CreateSnap, MoreVms, ImageAt, AtVm, Label, NetLabel, VmLabel, DiskLabel, DeployLabel, TeardownLabel
    <2> QED BY <1>2, <1>a, <2>1, <2>2, AtVmType
         DEF CreateSnap, SetGolden, TypeOK, ClusterTypeOK, locals, counters, cluster, ovn, rbd
  <1>3. CASE IsProtected(t)
    <2>1. MoreVms(t) /\ ImageAt(t) # NoImage
      BY <1>3 DEF IsProtected, At, IndexOK, VmLabel, DiskLabel
    <2>2. /\ pc' \in [Thread -> Label] /\ idx' \in [Thread -> Nat] /\ IndexOK'
      BY <1>3, <1>a, <2>1, GotoKeepsIndex
         DEF IsProtected, MoreVms, ImageAt, AtVm, Label, NetLabel, VmLabel, DiskLabel, DeployLabel, TeardownLabel
    <2> QED BY <1>3, <1>a, <2>1, <2>2
         DEF IsProtected, TypeOK, ClusterTypeOK, locals, counters, cluster, ovn, rbd
  <1>4. CASE ProtectSnap(t)
    <2>1. MoreVms(t) /\ ImageAt(t) # NoImage
      BY <1>4 DEF ProtectSnap, At, IndexOK, VmLabel, DiskLabel
    <2>2. /\ pc' \in [Thread -> Label] /\ idx' \in [Thread -> Nat] /\ IndexOK'
      BY <1>4, <1>a, <2>1, GotoKeepsIndex, RaiseKeepsIndex
         DEF ProtectSnap, MoreVms, ImageAt, AtVm, Label, NetLabel, VmLabel, DiskLabel, DeployLabel, TeardownLabel
    <2> QED BY <1>4, <1>a, <2>1, <2>2, AtVmType
         DEF ProtectSnap, SetGolden, TypeOK, ClusterTypeOK, locals, counters, cluster, ovn, rbd
  <1>5. CASE ListClones(t)
    <2>1. MoreVms(t) /\ ImageAt(t) # NoImage
      BY <1>5 DEF ListClones, At, IndexOK, VmLabel, DiskLabel
    <2>2. /\ pc' \in [Thread -> Label] /\ idx' \in [Thread -> Nat] /\ IndexOK'
      BY <1>5, <1>a, <2>1, GotoKeepsIndex
         DEF ListClones, MoreVms, ImageAt, AtVm, Label, NetLabel, VmLabel, DiskLabel, DeployLabel, TeardownLabel
    <2> QED BY <1>5, <1>a, <2>1, <2>2
         DEF ListClones, TypeOK, ClusterTypeOK, locals, counters, cluster, ovn, rbd
  <1>6. CASE Clone(t)
    <2>1. MoreVms(t) /\ ImageAt(t) # NoImage
      BY <1>6 DEF Clone, At, IndexOK, VmLabel, DiskLabel
    <2>2. /\ pc' \in [Thread -> Label] /\ idx' \in [Thread -> Nat] /\ IndexOK'
      BY <1>6, <1>a, <2>1, GotoFree, RaiseKeepsIndex
         DEF Clone, Label, NetLabel, VmLabel, DiskLabel, DeployLabel, TeardownLabel
    <2> QED BY <1>6, <1>a, <2>1, <2>2, AtVmType
         DEF Clone, SetClone, TypeOK, ClusterTypeOK, locals, counters, cluster, ovn, rbd
  <1>7. CASE LocalCloneExists(t)
    <2>1. MoreVms(t) /\ ImageAt(t) # NoImage
      BY <1>7 DEF LocalCloneExists
    <2>2. /\ pc' \in [Thread -> Label] /\ idx' \in [Thread -> Nat] /\ IndexOK'
      BY <1>7, <1>a, <2>1, GotoKeepsIndex
         DEF LocalCloneExists, MoreVms, ImageAt, AtVm, Label, NetLabel, VmLabel, DiskLabel, DeployLabel, TeardownLabel
    <2> QED BY <1>7, <1>a, <2>1, <2>2
         DEF LocalCloneExists, TypeOK, ClusterTypeOK, locals, counters, cluster, ovn, rbd
  <1>8. CASE QemuImgCreate(t)
    <2>1. MoreVms(t) /\ ImageAt(t) # NoImage
      BY <1>8 DEF QemuImgCreate, At, IndexOK, VmLabel, DiskLabel
    <2>2. /\ pc' \in [Thread -> Label] /\ idx' \in [Thread -> Nat] /\ IndexOK'
      BY <1>8, <1>a, <2>1, GotoFree
         DEF QemuImgCreate, Label, NetLabel, VmLabel, DiskLabel, DeployLabel, TeardownLabel
    <2> QED BY <1>8, <1>a, <2>1, <2>2, AtVmType
         DEF QemuImgCreate, SetClone, TypeOK, ClusterTypeOK, locals, counters, cluster, ovn, rbd
  <1>9. CASE StorageDone(t)
    <2>1. /\ pc' \in [Thread -> Label] /\ idx' \in [Thread -> Nat] /\ IndexOK'
      BY <1>9, <1>a, GotoFree
         DEF StorageDone, Label, NetLabel, VmLabel, DiskLabel, DeployLabel, TeardownLabel
    <2>2. status' \in [Id -> MissionState \cup {"absent"}]
      BY <1>9, StatusType DEF StorageDone, MissionState
    <2> QED BY <1>9, <1>a, <2>1, <2>2
         DEF StorageDone, TypeOK, ClusterTypeOK, locals, counters, cluster, ovn, rbd
  <1> QED BY <1>1, <1>2, <1>3, <1>4, <1>5, <1>6, <1>7, <1>8, <1>9 DEF DeployStorage


\* Defining and validating the VMs keeps the types.
LEMMA VmTypes ==
    ASSUME TypeInv, NEW t \in Thread, DeployVms(t)
    PROVE  TypeInv'
  <1> USE DEF TypeInv
  <1>a. idx[t] \in Nat /\ idx[t] # 0 /\ idx[t] + 1 \in Nat /\ idx[t] + 1 # 0
    BY DEF TypeOK, IndexOK
  <1>1. CASE NoFreeGpu(t)
    <2>1. /\ pc' \in [Thread -> Label] /\ idx' \in [Thread -> Nat] /\ IndexOK'
      BY <1>1, <1>a, RaiseKeepsIndex
         DEF NoFreeGpu, Label, NetLabel, VmLabel, DiskLabel, DeployLabel, TeardownLabel
    <2> QED BY <1>1, <1>a, <2>1
         DEF NoFreeGpu, TypeOK, ClusterTypeOK, locals, counters, cluster, ovn, rbd
  <1>2. CASE DefineVm(t)
    <2>1. MoreVms(t)
      BY <1>2 DEF DefineVm
    <2>2. /\ pc' \in [Thread -> Label] /\ idx' \in [Thread -> Nat] /\ IndexOK'
      BY <1>2, <1>a, <2>1, GotoKeepsIndex, RaiseKeepsIndex
         DEF DefineVm, MoreVms, Label, NetLabel, VmLabel, DiskLabel, DeployLabel, TeardownLabel
    <2>3. gpuPool' \in [Id -> [Host -> Seq(Pci)]]
      BY <1>2, <2>1, <1>a, AtVmType, SpecTypes, PopTypes DEF DefineVm, TypeOK
    <2>4. gpuOf' \in [Id -> [VM -> Pci \cup {NoPci}]]
      <3>1. CASE UNCHANGED gpuOf
        BY <3>1 DEF TypeOK
      <3>2. CASE /\ gpuPool[t[1]][HostAt(t)] # <<>>
                 /\ gpuOf' = [gpuOf EXCEPT ![t[1]][AtVm(t)] = NextGpu(t[1], HostAt(t))]
        <4>1. NextGpu(t[1], HostAt(t)) \in Pci
          BY <2>1, <3>2, <1>a, AtVmType, SpecTypes, PopTypes
        <4> HIDE DEF TypeInv
        <4>2. gpuOf' = [gpuOf EXCEPT ![t[1]] =
                          [gpuOf[t[1]] EXCEPT ![AtVm(t)] = NextGpu(t[1], HostAt(t))]]
          BY <3>2
        <4>3. [gpuOf[t[1]] EXCEPT ![AtVm(t)] = NextGpu(t[1], HostAt(t))]
                 \in [VM -> Pci \cup {NoPci}]
          BY <4>1, SpecTypes DEF TypeOK, TypeInv
        <4> QED BY <4>2, <4>3 DEF TypeOK, TypeInv
      <3> QED BY <1>2, <3>1, <3>2 DEF DefineVm
    <2>5. domains' \in [Host \X VM -> Domain \cup {NoDomain}]
      <3>1. gpuOf'[t[1]][AtVm(t)] \in Pci \cup {NoPci}
        BY <2>1, <2>4, <1>a, AtVmType, SpecTypes
      <3>2. CASE DefineXML(HostAt(t), AtVm(t), NameOf(t), gpuOf'[t[1]][AtVm(t)],
                           ImageAt(t) # NoImage)
        BY <2>1, <3>1, <3>2, <1>a, AtVmType, SpecTypes, DefineXMLType
      <3>3. CASE UNCHANGED domains
        BY <3>3 DEF TypeOK, ClusterTypeOK
      <3> QED BY <1>2, <3>2, <3>3 DEF DefineVm
    <2> QED BY <1>2, <1>a, <2>1, <2>2, <2>3, <2>4, <2>5
         DEF DefineVm, TypeOK, ClusterTypeOK, locals, counters, cluster, ovn, rbd
  <1>3. CASE StartVm(t)
    <2>1. MoreVms(t)
      BY <1>3 DEF StartVm, At, IndexOK, VmLabel, DiskLabel
    <2>2. /\ pc' \in [Thread -> Label] /\ idx' \in [Thread -> Nat] /\ IndexOK'
      BY <1>3, <1>a, <2>1, GotoFree, RaiseKeepsIndex
         DEF StartVm, Label, NetLabel, VmLabel, DiskLabel, DeployLabel, TeardownLabel
    <2>3. domains' \in [Host \X VM -> Domain \cup {NoDomain}]
      BY <1>3, <2>1, <1>a, AtVmType, DomainCallTypes
         DEF StartVm, CanStart, OwnedBy, TypeOK, ClusterTypeOK
    <2> QED BY <1>3, <1>a, <2>1, <2>2, <2>3
         DEF StartVm, TypeOK, ClusterTypeOK, locals, counters, cluster, ovn, rbd
  <1>4. CASE VmsDone(t)
    <2>1. /\ pc' \in [Thread -> Label] /\ idx' \in [Thread -> Nat] /\ IndexOK'
      BY <1>4, <1>a, GotoFree
         DEF VmsDone, Label, NetLabel, VmLabel, DiskLabel, DeployLabel, TeardownLabel
    <2>2. status' \in [Id -> MissionState \cup {"absent"}]
      BY <1>4, StatusType DEF VmsDone, MissionState
    <2> QED BY <1>4, <1>a, <2>1, <2>2
         DEF VmsDone, TypeOK, ClusterTypeOK, locals, counters, cluster, ovn, rbd
  <1>5. CASE CheckSwitches(t)
    <2>1. /\ pc' \in [Thread -> Label] /\ idx' \in [Thread -> Nat] /\ IndexOK'
      BY <1>5, <1>a, GotoFree
         DEF CheckSwitches, Label, NetLabel, VmLabel, DiskLabel, DeployLabel, TeardownLabel
    <2> QED BY <1>5, <1>a, <2>1
         DEF CheckSwitches, TypeOK, ClusterTypeOK, locals, counters, cluster, ovn, rbd
  <1>6. CASE CheckVm(t)
    <2>1. /\ pc' \in [Thread -> Label] /\ idx' \in [Thread -> Nat] /\ IndexOK'
      BY <1>6, <1>a, GotoFree
         DEF CheckVm, Label, NetLabel, VmLabel, DiskLabel, DeployLabel, TeardownLabel
    <2>2. valid' \in [Id -> BOOLEAN]
      BY <1>6, <2>1, SpecTypes DEF CheckVm, TypeOK, Matches
    <2> QED BY <1>6, <1>a, <2>1, <2>2
         DEF CheckVm, TypeOK, ClusterTypeOK, locals, counters, cluster, ovn, rbd
  <1>7. CASE Verdict(t)
    <2>1. /\ pc' \in [Thread -> Label] /\ idx' \in [Thread -> Nat] /\ IndexOK'
      BY <1>7, <1>a, GotoFree, RaiseKeepsIndex
         DEF Verdict, Label, NetLabel, VmLabel, DiskLabel, DeployLabel, TeardownLabel
    <2>2. status' \in [Id -> MissionState \cup {"absent"}]
      BY <1>7, StatusType DEF Verdict, MissionState, TypeOK
    <2> QED BY <1>7, <1>a, <2>1, <2>2
         DEF Verdict, TypeOK, ClusterTypeOK, locals, counters, cluster, ovn, rbd
  <1> QED BY <1>1, <1>2, <1>3, <1>4, <1>5, <1>6, <1>7 DEF DeployVms


\* A teardown keeps the types.
LEMMA TeardownTypes ==
    ASSUME TypeInv, NEW t \in Thread, Teardown(t)
    PROVE  TypeInv'
  <1> USE DEF TypeInv
  <1>a. idx[t] \in Nat /\ idx[t] # 0 /\ idx[t] + 1 \in Nat /\ idx[t] + 1 # 0
    BY DEF TypeOK, IndexOK
  <1>1. CASE TeardownBegins(t)
    <2>1. /\ pc' \in [Thread -> Label] /\ idx' \in [Thread -> Nat] /\ IndexOK'
      BY <1>1, <1>a, GotoFree, RaiseKeepsIndex
         DEF TeardownBegins, Label, NetLabel, VmLabel, DiskLabel, DeployLabel, TeardownLabel
    <2>2. status' \in [Id -> MissionState \cup {"absent"}]
      BY <1>1, StatusType DEF TeardownBegins, MissionState
    <2> QED BY <1>1, <1>a, <2>1, <2>2
         DEF TeardownBegins, TypeOK, ClusterTypeOK, locals, counters, cluster, ovn, rbd
  <1>2. CASE LookupAndStop(t)
    <2>1. MoreVms(t)
      BY <1>2 DEF LookupAndStop
    <2>2. /\ pc' \in [Thread -> Label] /\ idx' \in [Thread -> Nat] /\ IndexOK'
      BY <1>2, <1>a, <2>1, GotoKeepsIndex
         DEF LookupAndStop, MoreVms, Label, NetLabel, VmLabel, DiskLabel, DeployLabel, TeardownLabel
    <2>3. domains' \in [Host \X VM -> Domain \cup {NoDomain}]
      BY <1>2, <2>1, <1>a, AtVmType, DomainCallTypes
         DEF LookupAndStop, TypeOK, ClusterTypeOK
    <2>4. handle' \in [Thread -> Name \cup {NoName}]
      BY <1>2, <2>1, <2>2, <2>3, <1>a, AtVmType
         DEF LookupAndStop, Defined, Domain, TypeOK, ClusterTypeOK
    <2> QED BY <1>2, <1>a, <2>1, <2>2, <2>3, <2>4
         DEF LookupAndStop, TypeOK, ClusterTypeOK, locals, counters, cluster, ovn, rbd
  <1>3. CASE UndefineVm(t)
    <2>1. MoreVms(t)
      BY <1>3 DEF UndefineVm, At, IndexOK, VmLabel, DiskLabel
    <2>2. /\ pc' \in [Thread -> Label] /\ idx' \in [Thread -> Nat] /\ IndexOK'
      BY <1>3, <1>a, <2>1, GotoFree
         DEF UndefineVm, Label, NetLabel, VmLabel, DiskLabel, DeployLabel, TeardownLabel
    <2>3. domains' \in [Host \X VM -> Domain \cup {NoDomain}]
      BY <1>3, <2>1, <1>a, AtVmType, DomainCallTypes
         DEF UndefineVm, OwnedBy, TypeOK, ClusterTypeOK
    <2> QED BY <1>3, <1>a, <2>1, <2>2, <2>3
         DEF UndefineVm, TypeOK, ClusterTypeOK, locals, counters, cluster, ovn, rbd
  <1>4. CASE VmsDestroyed(t)
    <2>1. /\ pc' \in [Thread -> Label] /\ idx' \in [Thread -> Nat] /\ IndexOK'
      BY <1>4, <1>a, GotoFree
         DEF VmsDestroyed, Label, NetLabel, VmLabel, DiskLabel, DeployLabel, TeardownLabel
    <2> QED BY <1>4, <1>a, <2>1
         DEF VmsDestroyed, TypeOK, ClusterTypeOK, locals, counters, cluster, ovn, rbd
  <1>5. CASE RemoveVmPort(t)
    <2>1. /\ pc' \in [Thread -> Label] /\ idx' \in [Thread -> Nat] /\ IndexOK'
      BY <1>5, <1>a, GotoFree
         DEF RemoveVmPort, Label, NetLabel, VmLabel, DiskLabel, DeployLabel, TeardownLabel
    <2> QED BY <1>5, <1>a, <2>1
         DEF RemoveVmPort, LspDel, TypeOK, ClusterTypeOK, locals, counters, cluster, ovn, rbd
  <1>6. CASE RemoveSwitch(t)
    <2>1. /\ pc' \in [Thread -> Label] /\ idx' \in [Thread -> Nat] /\ IndexOK'
      BY <1>6, <1>a, GotoFree
         DEF RemoveSwitch, Label, NetLabel, VmLabel, DiskLabel, DeployLabel, TeardownLabel
    <2> QED BY <1>6, <1>a, <2>1
         DEF RemoveSwitch, LsDel, TypeOK, ClusterTypeOK, locals, counters, cluster, ovn, rbd
  <1>7. CASE RemoveRouter(t)
    <2>1. /\ pc' \in [Thread -> Label] /\ idx' \in [Thread -> Nat] /\ IndexOK'
      BY <1>7, <1>a, GotoFree
         DEF RemoveRouter, Label, NetLabel, VmLabel, DiskLabel, DeployLabel, TeardownLabel
    <2> QED BY <1>7, <1>a, <2>1
         DEF RemoveRouter, LrDel, TypeOK, ClusterTypeOK, locals, counters, cluster, ovn, rbd
  <1>8. CASE RemoveClone(t)
    <2>1. MoreVms(t) /\ ImageAt(t) # NoImage
      BY <1>8 DEF RemoveClone
    <2>2. /\ pc' \in [Thread -> Label] /\ idx' \in [Thread -> Nat] /\ IndexOK'
      BY <1>8, <1>a, <2>1, GotoFree, RaiseKeepsIndex
         DEF RemoveClone, Label, NetLabel, VmLabel, DiskLabel, DeployLabel, TeardownLabel
    <2> QED BY <1>8, <1>a, <2>1, <2>2, AtVmType
         DEF RemoveClone, SetClone, TypeOK, ClusterTypeOK, locals, counters, cluster, ovn, rbd
  <1>9. CASE LocalDiskExists(t)
    <2>1. MoreVms(t) /\ ImageAt(t) # NoImage
      BY <1>9 DEF LocalDiskExists
    <2>2. /\ pc' \in [Thread -> Label] /\ idx' \in [Thread -> Nat] /\ IndexOK'
      BY <1>9, <1>a, <2>1, GotoKeepsIndex
         DEF LocalDiskExists, MoreVms, ImageAt, AtVm, Label, NetLabel, VmLabel, DiskLabel, DeployLabel, TeardownLabel
    <2> QED BY <1>9, <1>a, <2>1, <2>2
         DEF LocalDiskExists, TypeOK, ClusterTypeOK, locals, counters, cluster, ovn, rbd
  <1>10. CASE Unlink(t)
    <2>1. MoreVms(t) /\ ImageAt(t) # NoImage
      BY <1>10 DEF Unlink, At, IndexOK, VmLabel, DiskLabel
    <2>2. /\ pc' \in [Thread -> Label] /\ idx' \in [Thread -> Nat] /\ IndexOK'
      BY <1>10, <1>a, <2>1, GotoFree, RaiseKeepsIndex
         DEF Unlink, Label, NetLabel, VmLabel, DiskLabel, DeployLabel, TeardownLabel
    <2> QED BY <1>10, <1>a, <2>1, <2>2, AtVmType
         DEF Unlink, SetClone, TypeOK, ClusterTypeOK, locals, counters, cluster, ovn, rbd
  <1>11. CASE DisksRemoved(t)
    <2>1. /\ pc' \in [Thread -> Label] /\ idx' \in [Thread -> Nat] /\ IndexOK'
      BY <1>11, <1>a, GotoFree, RaiseKeepsIndex
         DEF DisksRemoved, Label, NetLabel, VmLabel, DiskLabel, DeployLabel, TeardownLabel
    <2>2. status' \in [Id -> MissionState \cup {"absent"}]
      BY <1>11, StatusType DEF DisksRemoved, MissionState
    <2> QED BY <1>11, <1>a, <2>1, <2>2
         DEF DisksRemoved, TypeOK, ClusterTypeOK, locals, counters, cluster, ovn, rbd
  <1> QED BY <1>1, <1>2, <1>3, <1>4, <1>5, <1>6, <1>7, <1>8, <1>9, <1>10, <1>11 DEF Teardown

\* So do passing over a PXE VM, failures, and a restart.
LEMMA FailureTypes ==
    ASSUME TypeInv, NEW t \in Thread,
           SkipDiskless(t) \/ RecordFailure(t) \/ Fault(t) \/ SwallowedError(t)
    PROVE  TypeInv'
  <1> USE DEF TypeInv
  <1>a. idx[t] \in Nat /\ idx[t] # 0 /\ idx[t] + 1 \in Nat /\ idx[t] + 1 # 0
    BY DEF TypeOK, IndexOK
  <1>1. CASE SkipDiskless(t)
    <2>1. /\ pc' \in [Thread -> Label] /\ idx' \in [Thread -> Nat] /\ IndexOK'
      BY <1>1, <1>a, GotoFree
         DEF SkipDiskless, Label, NetLabel, VmLabel, DiskLabel, DeployLabel, TeardownLabel
    <2> QED BY <1>1, <2>1
         DEF SkipDiskless, TypeOK, ClusterTypeOK, locals, counters, cluster, ovn, rbd
  <1>2. CASE RecordFailure(t)
    <2>1. status' \in [Id -> MissionState \cup {"absent"}]
      BY <1>2, StatusType DEF RecordFailure, MissionState
    <2> QED BY <1>2, <2>1, RaiseKeepsIndex
         DEF RecordFailure, TypeOK, ClusterTypeOK, locals, counters, cluster, ovn, rbd
  <1>3. CASE Fault(t)
    BY <1>3, RaiseKeepsIndex DEF Fault, TypeOK, ClusterTypeOK, locals, cluster, ovn, rbd
  <1>4. CASE SwallowedError(t)
    <2>1. /\ pc' \in [Thread -> Label] /\ idx' \in [Thread -> Nat] /\ IndexOK'
      BY <1>4, <1>a, GotoKeepsIndex
         DEF SwallowedError, MoreVms, At, Label, NetLabel, VmLabel, DiskLabel, DeployLabel,
             TeardownLabel
    <2>2. handle' \in [Thread -> Name \cup {NoName}]
      <3>1. CASE UNCHANGED handle
        BY <3>1 DEF TypeOK
      <3>2. CASE handle' = [handle EXCEPT ![t] = NoName]
        BY <3>2 DEF TypeOK
      <3>3. CASE /\ MoreVms(t) /\ Defined(HostAt(t), AtVm(t))
                 /\ handle' = [handle EXCEPT ![t] = domains[<<HostAt(t), AtVm(t)>>].owner]
        <4>1. domains[<<HostAt(t), AtVm(t)>>].owner \in Name
          BY <3>3, <1>a, AtVmType, DefinedIsDomain DEF Domain
        <4> QED BY <3>3, <4>1 DEF TypeOK
      <3> QED BY <1>4, <3>1, <3>2, <3>3 DEF SwallowedError
    <2> QED BY <1>4, <2>1, <2>2 DEF SwallowedError, TypeOK, ClusterTypeOK, cluster, ovn, rbd
  <1> QED BY <1>1, <1>2, <1>3, <1>4

\* Every step keeps the types.
LEMMA StepTypes == TypeInv /\ [Next]_vars => TypeInv'
  <1> SUFFICES ASSUME TypeInv, [Next]_vars PROVE TypeInv'
    OBVIOUS
  <1>1. ASSUME NEW t \in Thread, ThreadStep(t) PROVE TypeInv'
    BY <1>1, NetworkTypes, StorageTypes, VmTypes, TeardownTypes, FailureTypes
       DEF ThreadStep, Deploy
  <1>2. CASE Restart
    BY <1>2, InventoryAssumption
       DEF Restart, TypeInv, TypeOK, ClusterTypeOK, IndexOK, Label, NetLabel, VmLabel,
           DiskLabel, cluster, ovn, rbd
  <1>3. CASE UNCHANGED vars
    BY <1>3 DEF vars, locals, counters, cluster, ovn, rbd, TypeInv, TypeOK, ClusterTypeOK,
           IndexOK, MoreNets, MoreVms, ImageAt, AtVm, SpecOf
  <1> QED BY <1>1, <1>2, <1>3, RequestTypes, FailureTypes DEF Next

\* The variables keep their types, and loop positions stay inside the sequences of the
\* mission, for any missions, inventory and bounds.
THEOREM TypeCorrect == Spec => []TypeInv
  BY InitTypes, StepTypes, PTL DEF Spec

\* The type invariant the runs check.
THEOREM TypesHold == Spec => []TypeOK
  BY TypeCorrect, PTL DEF TypeInv
==============================================================================
