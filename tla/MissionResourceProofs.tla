------------------------- MODULE MissionResourceProofs -------------------------
(***************************************************************************)
(* What each step of the service does to the resources of missions, for    *)
(* any missions that share neither name nor VM: deployments only add,      *)
(* teardowns only remove, both within the specification of their own       *)
(* mission; and what is known of a mission survives such steps.            *)
(***************************************************************************)
EXTENDS MissionSafetyProofs

\* The specification of a mission, element by element.
NetSeq(m) == Submitted[m].networks
PortSeq(m) == Submitted[m].ports
VmSeq(m) == Submitted[m].vms
MissionName(m) == Submitted[m].name

----------------------------------------------------------------------------
(* Who works on a mission, and in which state.                              *)

\* At most one thread works on a mission.
Alone == \A t, u \in Thread : t[1] = u[1] /\ ~Ended(t) /\ ~Ended(u) => t = u

\* The loops of a deployment by their labels, and the states of a mission at work.
NetLoop == {"add_switch", "add_router_port", "add_peer_port"}
DiskLoop == {"provision_storage", "create_snap", "is_protected", "protect_snap", "list_clones",
             "clone", "qemu_img"}
VmLoop == {"define", "start"}
CheckLoop == {"check_switches", "check_vm"}
Busy == {"DeployingNetworks", "CloningStorage", "DefiningVMs", "Validating", "Destroying"}

\* What the store says of a mission while one of its threads is at label l.
Phased(l, s) ==
    /\ l = "deploy" => s = "Pending"
    /\ l \in {"add_router", "add_vm_port"} \cup NetLoop => s = "DeployingNetworks"
    /\ l \in DiskLoop => s = "CloningStorage"
    /\ l \in VmLoop => s = "DefiningVMs"
    /\ l \in CheckLoop => s = "Validating"
    /\ l \in TeardownLabel => s = "Destroying"
    /\ l = "failing" => s \in Busy

ControlInv == ThreadKinds /\ Alone /\ \A t \in Thread : Phased(pc[t], status[t[1]])

\* A step of t happens while t works, and leaves the state of its mission in phase with
\* its own position and those of other missions alone.
StaysInPhase(t) ==
    /\ ~Ended(t)
    /\ Phased(pc'[t], status'[t[1]])
    /\ \A m \in Id : m # t[1] => status'[m] = status[m]

\* Every step of a thread is of that kind.
LEMMA StepInPhase ==
    ASSUME TypeOK, ControlInv, NEW t \in Thread, ThreadStep(t) \/ Fault(t) \/ SwallowedError(t)
    PROVE  StaysInPhase(t)
  <1> USE DEF StaysInPhase, Phased, Ended, NetLoop, DiskLoop, VmLoop, CheckLoop, Busy, TeardownLabel
  <1>0. t[1] \in Id /\ Phased(pc[t], status[t[1]])
    BY SpecTypes DEF ControlInv
  <1>1. CASE DeployNetworks(t)
    BY <1>0, <1>1
       DEF DeployNetworks, DeployBegins, AddRouter, AddSwitch, AddRouterPort, AddPeerPort,
           NetworksDone, AddVmPort, PortsDone, At, Goto, Raise, Finish, UpdateState, TypeOK
  <1>2. CASE DeployStorage(t)
    BY <1>0, <1>2
       DEF DeployStorage, ListSnaps, CreateSnap, IsProtected, ProtectSnap, ListClones, Clone,
           LocalCloneExists, QemuImgCreate, StorageDone, At, Goto, Raise, UpdateState, TypeOK
  <1>3. CASE DeployVms(t)
    BY <1>0, <1>3
       DEF DeployVms, NoFreeGpu, DefineVm, StartVm, VmsDone, CheckSwitches, CheckVm, Verdict,
           At, Goto, Raise, Finish, UpdateState, TypeOK
  <1>4. CASE Teardown(t)
    BY <1>0, <1>4
       DEF Teardown, TeardownBegins, LookupAndStop, UndefineVm, VmsDestroyed, RemoveVmPort,
           RemoveSwitch, RemoveRouter, RemoveClone, LocalDiskExists, Unlink, DisksRemoved,
           At, Goto, Raise, Finish, UpdateState, TypeOK
  <1>5. CASE SkipDiskless(t) \/ RecordFailure(t) \/ Fault(t) \/ SwallowedError(t)
    BY <1>0, <1>5
       DEF SkipDiskless, RecordFailure, Fault, InCall, SwallowedError, At, Goto, Raise, Finish,
           UpdateState, TypeOK
  <1> QED BY <1>1, <1>2, <1>3, <1>4, <1>5 DEF ThreadStep, Deploy

\* A step of a thread keeps the control invariant: the other threads of its mission have ended.
LEMMA ThreadStepControl ==
    ASSUME TypeOK, ControlInv, NEW t \in Thread, ThreadStep(t) \/ Fault(t) \/ SwallowedError(t)
    PROVE  ControlInv'
  <1>1. OnlyMoves(t) /\ StaysInPhase(t) /\ KeepsKind(t)
    BY StepMovesOne, StepInPhase, StepQuiet
  <1>2. ThreadKinds'
    BY <1>1, KindsKept DEF ControlInv
  <1>3. \A u \in Thread : u # t /\ ~(Ended(u)') => ~Ended(u) /\ u[1] # t[1]
    BY <1>1 DEF OnlyMoves, Ended, StaysInPhase, ControlInv, Alone
  <1>4. Alone'
    BY <1>3 DEF ControlInv, Alone
  <1>5. ASSUME NEW u \in Thread, u # t PROVE Phased(pc'[u], status'[u[1]])
    <2>1. CASE Ended(u)'
      BY <2>1 DEF Ended, Phased, NetLoop, DiskLoop, VmLoop, CheckLoop, TeardownLabel
    <2>2. CASE ~(Ended(u)')
      <3>1. u[1] \in Id /\ u[1] # t[1] /\ pc'[u] = pc[u]
        BY <1>1, <1>3, <1>5, <2>2, SpecTypes DEF OnlyMoves
      <3> QED BY <1>1, <3>1 DEF StaysInPhase, ControlInv
    <2> QED BY <2>1, <2>2
  <1> QED BY <1>1, <1>2, <1>4, <1>5 DEF ControlInv, StaysInPhase

\* When clients are patient, every step keeps the control invariant: a DELETE is accepted
\* only when nothing works on the mission.
LEMMA StepControl ==
    ASSUME Patient
    PROVE  TypeInv /\ ControlInv /\ [Next]_vars => ControlInv'
  <1> SUFFICES ASSUME TypeInv, ControlInv, [Next]_vars PROVE ControlInv'
    OBVIOUS
  <1> USE DEF TypeInv
  <1>1. ASSUME NEW m \in Id, CreateMission(m) PROVE ControlInv'
    <2>1. <<m, 0>> \in Thread /\ \A u \in Thread : u[1] = m => pc[u] = "idle"
      BY <1>1 DEF CreateMission, Thread, DeployThread, ControlInv, ThreadKinds
    <2>2. /\ \A u \in Thread : u # <<m, 0>> => pc'[u] = pc[u]
          /\ \A k \in Id : k # m => status'[k] = status[k]
          /\ status'[m] = "Pending"
          /\ pc'[<<m, 0>>] \in {"deploy", "done"}
      BY <1>1, <2>1 DEF CreateMission, Goto, Finish, TypeOK
    <2>3. ThreadKinds'
      BY <2>2, SpecTypes DEF ControlInv, ThreadKinds
    <2>4. Alone'
      BY <2>1, <2>2 DEF ControlInv, Alone, Ended
    <2>5. ASSUME NEW u \in Thread PROVE Phased(pc'[u], status'[u[1]])
      <3>1. CASE u[1] = m
        BY <2>1, <2>2, <3>1
           DEF Phased, NetLoop, DiskLoop, VmLoop, CheckLoop, TeardownLabel
      <3>2. CASE u[1] # m
        BY <2>2, <3>2, SpecTypes DEF ControlInv
      <3> QED BY <3>1, <3>2
    <2> QED BY <2>3, <2>4, <2>5 DEF ControlInv
  <1>2. ASSUME NEW m \in Id, NEW k \in 1 .. MaxDeletes, DeleteMission(m, k) PROVE ControlInv'
    <2>1. <<m, k>> \in Thread /\ <<m, k>>[2] # 0
      BY DEF Thread, TeardownThread
    <2>2. /\ UNCHANGED status
          /\ pc'[<<m, k>>] = "teardown"
          /\ \A u \in Thread : u # <<m, k>> => pc'[u] = pc[u]
          /\ status[m] # "absent"
          /\ \A u \in Thread : u[1] = m => Ended(u)
      BY <1>2, <2>1 DEF DeleteMission, Goto, TypeOK
    <2>3. ThreadKinds'
      BY <2>1, <2>2 DEF ControlInv, ThreadKinds, DeployOnly, DeployLabel
    <2>4. Alone'
      BY <2>2 DEF ControlInv, Alone, Ended
    <2>5. ASSUME NEW u \in Thread PROVE Phased(pc'[u], status'[u[1]])
      BY <2>2 DEF ControlInv, Phased, NetLoop, DiskLoop, VmLoop, CheckLoop, TeardownLabel
    <2> QED BY <2>3, <2>4, <2>5 DEF ControlInv
  <1>3. ASSUME NEW t \in Thread, ThreadStep(t) \/ Fault(t) \/ SwallowedError(t)
        PROVE  ControlInv'
    BY <1>3, ThreadStepControl
  <1>4. CASE Restart
    BY <1>4
       DEF Restart, ControlInv, ThreadKinds, Alone, Ended, Phased, DeployOnly, DeployLabel,
           NetLoop, DiskLoop, VmLoop, CheckLoop, TeardownLabel
  <1>5. CASE UNCHANGED vars
    BY <1>5 DEF vars, ControlInv, ThreadKinds, Alone, Ended
  <1> QED BY <1>1, <1>2, <1>3, <1>4, <1>5 DEF Next

\* At first no thread works.
LEMMA InitControl == Init => ControlInv
  BY DEF Init, ServiceInit, ControlInv, ThreadKinds, Alone, Ended, Phased, DeployOnly,
         DeployLabel, NetLoop, DiskLoop, VmLoop, CheckLoop, TeardownLabel

----------------------------------------------------------------------------
(* Missions share nothing.                                                  *)

\* Different missions have different names and no VM name in common: what the properties of
\* the second group in MissionProperties suppose. The API checks neither.
Separate ==
    \A m, k \in Id : m # k => /\ MissionName(m) # MissionName(k)
                              /\ VmsOf(m) \cap VmsOf(k) = {}

\* The elements of a mission have their types, and each is at a position of its sequence.
LEMMA Elements ==
    ASSUME NEW m \in Id
    PROVE  /\ MissionName(m) \in Name
           /\ NetsOf(m) \subseteq Net /\ PortsOf(m) \subseteq VM \X Net
           /\ VmsOf(m) \subseteq VM /\ LinkedOf(m) \subseteq VmsOf(m)
           /\ NetsOf(m) = {NetSeq(m)[j] : j \in 1 .. Len(NetSeq(m))}
           /\ PortsOf(m) = {PortSeq(m)[j] : j \in 1 .. Len(PortSeq(m))}
           /\ VmsOf(m) = {VmSeq(m)[j] : j \in 1 .. Len(VmSeq(m))}
           /\ \A v \in VM : /\ PlaceOf(m, v) \in Host
                            /\ Submitted[m].image[v] \in Image \cup {NoImage}
           /\ \A v \in LinkedOf(m) : Submitted[m].image[v] # NoImage
  <1>1. /\ NetSeq(m) \in Seq(Net) /\ PortSeq(m) \in Seq(VM \X Net) /\ VmSeq(m) \in Seq(VM)
        /\ MissionName(m) \in Name
        /\ Submitted[m].placement \in [VM -> Host]
        /\ Submitted[m].image \in [VM -> Image \cup {NoImage}]
    BY SubmittedAssumption DEF MissionSpec, NetSeq, PortSeq, VmSeq, MissionName
  <1>2. /\ NetsOf(m) = Range(NetSeq(m)) /\ PortsOf(m) = Range(PortSeq(m))
        /\ VmsOf(m) = Range(VmSeq(m))
    BY DEF NetsOf, PortsOf, VmsOf, VmSet, NetSeq, PortSeq, VmSeq
  <1>3. /\ NetsOf(m) = {NetSeq(m)[j] : j \in 1 .. Len(NetSeq(m))}
        /\ PortsOf(m) = {PortSeq(m)[j] : j \in 1 .. Len(PortSeq(m))}
        /\ VmsOf(m) = {VmSeq(m)[j] : j \in 1 .. Len(VmSeq(m))}
    BY <1>1, <1>2 DEF Range
  <1>4. NetsOf(m) \subseteq Net /\ PortsOf(m) \subseteq VM \X Net /\ VmsOf(m) \subseteq VM
    BY <1>1, <1>3
  <1> QED BY <1>1, <1>3, <1>4 DEF LinkedOf, PlaceOf

\* A thread's current element is one of its mission.
LEMMA CurrentElement ==
    ASSUME TypeInv, NEW t \in Thread
    PROVE  /\ MoreNets(t) => /\ AtNet(t) = NetSeq(t[1])[idx[t]]
                             /\ AtNet(t) \in NetsOf(t[1])
                             /\ idx[t] \in 1 .. Len(NetSeq(t[1]))
           /\ MorePorts(t) => /\ AtPort(t) = PortSeq(t[1])[idx[t]]
                              /\ AtPort(t) \in PortsOf(t[1])
                              /\ idx[t] \in 1 .. Len(PortSeq(t[1]))
           /\ MoreVms(t) => /\ AtVm(t) = VmSeq(t[1])[idx[t]]
                            /\ AtVm(t) \in VmsOf(t[1])
                            /\ idx[t] \in 1 .. Len(VmSeq(t[1]))
                            /\ HostAt(t) = PlaceOf(t[1], AtVm(t))
                            /\ ImageAt(t) = Submitted[t[1]].image[AtVm(t)]
                            /\ ImageAt(t) # NoImage <=> AtVm(t) \in LinkedOf(t[1])
  <1>1. t[1] \in Id /\ idx[t] \in Nat /\ idx[t] # 0
    BY SpecTypes DEF TypeInv, TypeOK, IndexOK
  <1>2. /\ NetSeq(t[1]) \in Seq(Net) /\ PortSeq(t[1]) \in Seq(VM \X Net)
        /\ VmSeq(t[1]) \in Seq(VM)
    BY <1>1, SubmittedAssumption DEF MissionSpec, NetSeq, PortSeq, VmSeq
  <1>3. ASSUME MoreNets(t)
        PROVE  idx[t] \in 1 .. Len(NetSeq(t[1])) /\ AtNet(t) = NetSeq(t[1])[idx[t]]
    BY <1>1, <1>2, <1>3 DEF MoreNets, AtNet, SpecOf, NetSeq
  <1>4. ASSUME MorePorts(t)
        PROVE  idx[t] \in 1 .. Len(PortSeq(t[1])) /\ AtPort(t) = PortSeq(t[1])[idx[t]]
    BY <1>1, <1>2, <1>4 DEF MorePorts, AtPort, SpecOf, PortSeq
  <1>5. ASSUME MoreVms(t)
        PROVE  idx[t] \in 1 .. Len(VmSeq(t[1])) /\ AtVm(t) = VmSeq(t[1])[idx[t]]
    BY <1>1, <1>2, <1>5 DEF MoreVms, AtVm, SpecOf, VmSeq
  <1>6. HostAt(t) = PlaceOf(t[1], AtVm(t)) /\ ImageAt(t) = Submitted[t[1]].image[AtVm(t)]
    BY DEF HostAt, ImageAt, SpecOf, PlaceOf
  <1> QED BY <1>1, <1>3, <1>4, <1>5, <1>6, Elements DEF LinkedOf

----------------------------------------------------------------------------
(* Which resources there are, and whose.                                    *)

\* Every domain is one of a mission, on the host where that mission places it.
HasOwner(h, v) ==
    \E m \in Id : /\ v \in VmsOf(m) /\ h = PlaceOf(m, v)
                  /\ domains[<<h, v>>].owner = MissionName(m)

DomainsOwned == \A h \in Host, v \in VM : Defined(h, v) => HasOwner(h, v)

\* A mission's switches and ports are those its specification lists, and its disks are
\* made from its images.
Contained(m) ==
    /\ \A net \in Net : <<MissionName(m), net>> \in switches \cup peerPorts => net \in NetsOf(m)
    /\ \A v \in VM, net \in Net : <<MissionName(m), v, net>> \in vmPorts => <<v, net>> \in PortsOf(m)
    /\ \A v \in LinkedOf(m) : clones[v] \in {NoImage, Submitted[m].image[v]}

\* One network, port, disk or VM of a mission is there, or is not.
NetUp(m, net) ==
    /\ <<MissionName(m), net>> \in switches
    /\ <<MissionName(m), net>> \in routerPorts
    /\ <<MissionName(m), net>> \in peerPorts

PortUp(m, p) == <<MissionName(m), p[1], p[2]>> \in vmPorts

DiskUp(m, v) == v \in LinkedOf(m) => clones[v] = Submitted[m].image[v]

VmUp(m, v) == /\ OwnedBy(PlaceOf(m, v), v, MissionName(m))
              /\ Running(PlaceOf(m, v), v)

NetGone(m, net) == <<MissionName(m), net>> \notin switches \cup peerPorts

DiskGone(m, v) == v \in LinkedOf(m) => ~CloneExists(v)

VmGone(m, v) == ~Defined(PlaceOf(m, v), v)

\* No row hangs from the router of the mission.
NoRows(m) ==
    /\ MissionName(m) \notin routers
    /\ \A net \in Net : /\ <<MissionName(m), net>> \notin routerPorts
                        /\ NetGone(m, net)
    /\ \A p \in VM \X Net : ~PortUp(m, p)

\* Nothing of the mission exists.
Bare(m) ==
    /\ NoRows(m)
    /\ \A v \in VmsOf(m) : DiskGone(m, v) /\ VmGone(m, v)

\* What a client sees of the rows and the disks of a mission, in the terms of its own
\* networks and VMs.
LEMMA TidyIsGone ==
    ASSUME TypeOK, NEW m \in Id
    PROVE  /\ RowsGone(m) <=> NoRows(m)
           /\ DisksGone(m) <=> \A v \in VmsOf(m) : DiskGone(m, v)
  <1> DEFINE n == MissionName(m)
  <1>0. n = Submitted[m].name /\ n \in Name
    BY Elements DEF MissionName
  <1>1. /\ routerPorts \subseteq Name \X Net /\ switches \subseteq Name \X Net
        /\ peerPorts \subseteq Name \X Net /\ vmPorts \subseteq Name \X VM \X Net
    BY DEF TypeOK, ClusterTypeOK
  <1>2. (\A p \in routerPorts \cup switches \cup peerPorts : p[1] # n)
          <=> \A net \in Net : <<n, net>> \notin routerPorts \cup switches \cup peerPorts
    BY <1>0, <1>1
  <1>3. (\A p \in vmPorts : p[1] # n) <=> \A p \in VM \X Net : <<n, p[1], p[2]>> \notin vmPorts
    <2>1. ASSUME \A p \in VM \X Net : <<n, p[1], p[2]>> \notin vmPorts, NEW p \in vmPorts, p[1] = n
          PROVE  FALSE
      <3>1. <<p[2], p[3]>> \in VM \X Net /\ p = <<n, p[2], p[3]>>
        BY <1>1, <2>1
      <3> QED BY <2>1, <3>1
    <2> QED BY <2>1
  <1>4. RowsGone(m) <=> NoRows(m)
    BY <1>0, <1>2, <1>3 DEF RowsGone, NoRows, NetGone, PortUp
  <1>5. DisksGone(m) <=> \A v \in VmsOf(m) : DiskGone(m, v)
    BY Elements DEF DisksGone, DiskGone
  <1> QED BY <1>4, <1>5

\* Since only missions own domains and they share none, Clean says that nothing of the
\* mission's own exists.
LEMMA CleanIsBare ==
    ASSUME TypeOK, Separate, DomainsOwned, NEW m \in Id
    PROVE  Clean(m) <=> Bare(m)
  <1> DEFINE n == MissionName(m)
  <1>0. n = Submitted[m].name /\ n \in Name
    BY Elements DEF MissionName
  <1>1. (\A hv \in Host \X VM : ~OwnedBy(hv[1], hv[2], n)) <=> \A v \in VmsOf(m) : VmGone(m, v)
    <2>1. ASSUME NEW v \in VmsOf(m), ~VmGone(m, v)
          PROVE  \E hv \in Host \X VM : OwnedBy(hv[1], hv[2], n)
      <3>1. v \in VM /\ PlaceOf(m, v) \in Host
        BY <2>1, Elements
      <3>2. PICK k \in Id : v \in VmsOf(k) /\ domains[<<PlaceOf(m, v), v>>].owner = MissionName(k)
        BY <2>1, <3>1 DEF DomainsOwned, HasOwner, VmGone
      <3>3. k = m
        BY <2>1, <3>2 DEF Separate
      <3>4. OwnedBy(PlaceOf(m, v), v, n)
        BY <2>1, <3>2, <3>3 DEF OwnedBy, VmGone
      <3>5. <<PlaceOf(m, v), v>> \in Host \X VM
        BY <3>1
      <3> QED BY <3>4, <3>5 DEF OwnedBy, Defined
    <2>2. ASSUME NEW h \in Host, NEW v \in VM, OwnedBy(h, v, n)
          PROVE  v \in VmsOf(m) /\ ~VmGone(m, v)
      <3>1. PICK k \in Id : v \in VmsOf(k) /\ h = PlaceOf(k, v) /\ MissionName(k) = n
        BY <2>2 DEF DomainsOwned, HasOwner, OwnedBy
      <3>2. k = m
        BY <3>1 DEF Separate
      <3> QED BY <2>2, <3>1, <3>2 DEF OwnedBy, VmGone
    <2> QED BY <2>1, <2>2
  <1> QED BY <1>0, <1>1, TidyIsGone DEF Clean, Bare

----------------------------------------------------------------------------
(* What adding to the cluster, or removing from it, does to a mission.      *)

\* A deployment only adds.
Adds ==
    /\ routers \subseteq routers' /\ routerPorts \subseteq routerPorts'
    /\ switches \subseteq switches' /\ peerPorts \subseteq peerPorts'
    /\ vmPorts \subseteq vmPorts'
    /\ \A v \in VM : clones[v] # NoImage => clones'[v] = clones[v]
    /\ \A h \in Host, v \in VM : Defined(h, v) =>
          /\ Defined(h, v)'
          /\ domains'[<<h, v>>].owner = domains[<<h, v>>].owner
          /\ Running(h, v) => Running(h, v)'

\* A teardown only removes.
Removes ==
    /\ routers' \subseteq routers /\ routerPorts' \subseteq routerPorts
    /\ switches' \subseteq switches /\ peerPorts' \subseteq peerPorts
    /\ vmPorts' \subseteq vmPorts
    /\ \A v \in VM : clones'[v] \in {clones[v], NoImage}
    /\ \A h \in Host, v \in VM : Defined(h, v)' =>
          /\ Defined(h, v)
          /\ domains'[<<h, v>>].owner = domains[<<h, v>>].owner
          /\ Running(h, v)' => Running(h, v)

\* What is up stays up, and what is not bare does not become it.
LEMMA AddsKeep ==
    ASSUME NEW m \in Id, Adds
    PROVE  /\ MissionName(m) \in routers => MissionName(m) \in routers'
           /\ \A net : NetUp(m, net) => NetUp(m, net)'
           /\ \A p : PortUp(m, p) => PortUp(m, p)'
           /\ \A v \in VmsOf(m) : DiskUp(m, v) => DiskUp(m, v)'
           /\ \A v \in VmsOf(m) : VmUp(m, v) => VmUp(m, v)'
           /\ Complete(m) => Complete(m)'
           /\ Bare(m)' => Bare(m)
  <1>1. \A v \in VmsOf(m) : /\ v \in VM /\ PlaceOf(m, v) \in Host
                            /\ v \in LinkedOf(m) => Submitted[m].image[v] # NoImage
    BY Elements
  <1>2. /\ \A net : NetUp(m, net) => NetUp(m, net)'
        /\ \A p : PortUp(m, p) => PortUp(m, p)'
    BY DEF Adds, NetUp, PortUp
  <1>3. \A v \in VmsOf(m) : DiskUp(m, v) => DiskUp(m, v)'
    BY <1>1 DEF Adds, DiskUp
  <1>4. \A v \in VmsOf(m) : VmUp(m, v) => VmUp(m, v)'
    BY <1>1 DEF Adds, VmUp, OwnedBy, PlaceOf
  <1>5. Complete(m) => Complete(m)'
    <2>1. Complete(m) <=> /\ MissionName(m) \in routers
                          /\ \A net \in NetsOf(m) : NetUp(m, net)
                          /\ \A p \in PortsOf(m) : PortUp(m, p)
                          /\ \A v \in VmsOf(m) : DiskUp(m, v) /\ VmUp(m, v)
      BY Elements DEF Complete, MissionName, NetUp, PortUp, DiskUp, VmUp
    <2>2. Complete(m)' <=> /\ MissionName(m) \in routers'
                           /\ \A net \in NetsOf(m) : NetUp(m, net)'
                           /\ \A p \in PortsOf(m) : PortUp(m, p)'
                           /\ \A v \in VmsOf(m) : DiskUp(m, v)' /\ VmUp(m, v)'
      BY Elements DEF Complete, MissionName, NetUp, PortUp, DiskUp, VmUp, NetsOf, PortsOf, VmsOf, LinkedOf
    <2> QED BY <1>2, <1>3, <1>4, <2>1, <2>2 DEF Adds
  <1>6. Bare(m)' => Bare(m)
    BY <1>1 DEF Adds, Bare, NoRows, NetGone, PortUp, DiskGone, VmGone, CloneExists, VmsOf, PlaceOf, LinkedOf
  <1> QED BY <1>2, <1>3, <1>4, <1>5, <1>6 DEF Adds

\* What is gone stays gone, and what is not complete does not become it.
LEMMA RemovesKeep ==
    ASSUME NEW m \in Id, Removes
    PROVE  /\ MissionName(m) \notin routers => MissionName(m) \notin routers'
           /\ \A net : NetGone(m, net) => NetGone(m, net)'
           /\ \A p : ~PortUp(m, p) => ~(PortUp(m, p)')
           /\ \A v \in VmsOf(m) : DiskGone(m, v) => DiskGone(m, v)'
           /\ \A v \in VmsOf(m) : VmGone(m, v) => VmGone(m, v)'
           /\ NoRows(m) => NoRows(m)'
           /\ Bare(m) => Bare(m)'
           /\ Complete(m)' => Complete(m)
  <1>1. \A v \in VmsOf(m) : /\ v \in VM /\ PlaceOf(m, v) \in Host
                            /\ v \in LinkedOf(m) => Submitted[m].image[v] # NoImage
    BY Elements
  <1>2. /\ \A net : NetGone(m, net) => NetGone(m, net)'
        /\ \A p : ~PortUp(m, p) => ~(PortUp(m, p)')
    BY DEF Removes, NetGone, PortUp
  <1>3. \A v \in VmsOf(m) : DiskGone(m, v) => DiskGone(m, v)'
    BY <1>1 DEF Removes, DiskGone, CloneExists
  <1>4. \A v \in VmsOf(m) : VmGone(m, v) => VmGone(m, v)'
    BY <1>1 DEF Removes, VmGone, PlaceOf
  <1>5. NoRows(m) => NoRows(m)'
    BY <1>2 DEF Removes, NoRows
  <1>6. Bare(m) => Bare(m)'
    BY <1>3, <1>4, <1>5 DEF Bare, VmsOf
  <1>7. Complete(m)' => Complete(m)
    BY <1>1, Elements
       DEF Removes, Complete, OwnedBy, VmsOf, NetsOf, PortsOf, LinkedOf, PlaceOf
  <1> QED BY <1>2, <1>3, <1>4, <1>5, <1>6, <1>7 DEF Removes

\* A step leaves everything of mission m as it is.
Untouched(m) ==
    /\ RowsOf(MissionName(m))' = RowsOf(MissionName(m))
    /\ \A v \in VmsOf(m) : /\ clones'[v] = clones[v]
                           /\ \A h \in Host : domains'[<<h, v>>] = domains[<<h, v>>]

\* Then what is known of it stays as it is.
LEMMA UntouchedKeeps ==
    ASSUME NEW m \in Id, Untouched(m)
    PROVE  /\ (MissionName(m) \in routers') = (MissionName(m) \in routers)
           /\ \A net : <<MissionName(m), net>> \in switches' <=> <<MissionName(m), net>> \in switches
           /\ \A net : <<MissionName(m), net>> \in routerPorts'
                          <=> <<MissionName(m), net>> \in routerPorts
           /\ \A net : NetUp(m, net)' <=> NetUp(m, net)
           /\ \A net : NetGone(m, net)' <=> NetGone(m, net)
           /\ \A p : PortUp(m, p)' <=> PortUp(m, p)
           /\ \A v \in VmsOf(m) : /\ DiskUp(m, v)' <=> DiskUp(m, v)
                                  /\ DiskGone(m, v)' <=> DiskGone(m, v)
                                  /\ VmUp(m, v)' <=> VmUp(m, v)
                                  /\ VmGone(m, v)' <=> VmGone(m, v)
           /\ NoRows(m)' <=> NoRows(m)
           /\ Bare(m)' <=> Bare(m)
           /\ Complete(m)' <=> Complete(m)
           /\ Contained(m) => Contained(m)'
  <1> DEFINE n == MissionName(m)
  <1>1. \A v \in VmsOf(m) : v \in VM /\ PlaceOf(m, v) \in Host
    BY Elements
  <1>2. /\ {p \in routerPorts' : p[1] = n} = {p \in routerPorts : p[1] = n}
        /\ {p \in switches' : p[1] = n} = {p \in switches : p[1] = n}
        /\ {p \in peerPorts' : p[1] = n} = {p \in peerPorts : p[1] = n}
        /\ {p \in vmPorts' : p[1] = n} = {p \in vmPorts : p[1] = n}
        /\ (n \in routers') = (n \in routers)
    BY DEF Untouched, RowsOf
  <1>3. \A net : /\ <<n, net>> \in routerPorts' <=> <<n, net>> \in routerPorts
                 /\ <<n, net>> \in switches' <=> <<n, net>> \in switches
                 /\ <<n, net>> \in peerPorts' <=> <<n, net>> \in peerPorts
    <2> TAKE net
    <2>1. <<n, net>>[1] = n
      OBVIOUS
    <2> HIDE DEF n
    <2> QED BY ONLY <1>2, <2>1
  <1>4. \A v, net : <<n, v, net>> \in vmPorts' <=> <<n, v, net>> \in vmPorts
    <2> TAKE v, net
    <2>1. <<n, v, net>>[1] = n
      OBVIOUS
    <2> HIDE DEF n
    <2> QED BY ONLY <1>2, <2>1
  <1>5. /\ \A net : NetUp(m, net)' <=> NetUp(m, net)
        /\ \A net : NetGone(m, net)' <=> NetGone(m, net)
        /\ \A p : PortUp(m, p)' <=> PortUp(m, p)
    BY <1>3, <1>4 DEF NetUp, NetGone, PortUp
  <1>6. \A v \in VmsOf(m) : /\ DiskUp(m, v)' <=> DiskUp(m, v)
                            /\ DiskGone(m, v)' <=> DiskGone(m, v)
                            /\ VmUp(m, v)' <=> VmUp(m, v)
                            /\ VmGone(m, v)' <=> VmGone(m, v)
    BY <1>1 DEF Untouched, DiskUp, DiskGone, CloneExists, VmUp, VmGone, OwnedBy, Running, Defined,
                PlaceOf
  <1>7. NoRows(m)' <=> NoRows(m)
    BY <1>2, <1>3, <1>5 DEF NoRows
  <1>8. Bare(m)' <=> Bare(m)
    BY <1>6, <1>7 DEF Bare, VmsOf
  <1>9. Complete(m)' <=> Complete(m)
    <2>1. Complete(m) <=> /\ n \in routers
                          /\ \A net \in NetsOf(m) : NetUp(m, net)
                          /\ \A p \in PortsOf(m) : PortUp(m, p)
                          /\ \A v \in VmsOf(m) : DiskUp(m, v) /\ VmUp(m, v)
      BY Elements DEF Complete, MissionName, NetUp, PortUp, DiskUp, VmUp
    <2>2. Complete(m)' <=> /\ n \in routers'
                           /\ \A net \in NetsOf(m) : NetUp(m, net)'
                           /\ \A p \in PortsOf(m) : PortUp(m, p)'
                           /\ \A v \in VmsOf(m) : DiskUp(m, v)' /\ VmUp(m, v)'
      BY Elements DEF Complete, MissionName, NetUp, PortUp, DiskUp, VmUp, NetsOf, PortsOf, VmsOf,
                      LinkedOf
    <2> QED BY <1>2, <1>5, <1>6, <2>1, <2>2
  <1>10. Contained(m) => Contained(m)'
    BY <1>3, <1>4, Elements DEF Contained, Untouched, LinkedOf, NetsOf, PortsOf
  <1> QED BY <1>2, <1>3, <1>5, <1>6, <1>7, <1>8, <1>9, <1>10

----------------------------------------------------------------------------
(* What a step does to the cluster.                                         *)

\* Domains stay whose they are when nothing about them changes.
LEMMA QuietDomains ==
    ASSUME UNCHANGED domains
    PROVE  DomainsOwned => DomainsOwned'
  <1> SUFFICES ASSUME DomainsOwned, NEW h \in Host, NEW v \in VM, Defined(h, v)'
               PROVE  HasOwner(h, v)'
    BY DEF DomainsOwned
  <1> QED BY DEF DomainsOwned, Defined, HasOwner

\* A step that changes no resource.
LEMMA QuietStep ==
    ASSUME UNCHANGED <<ovn, clones, domains>>
    PROVE  /\ Adds /\ Removes
           /\ DomainsOwned => DomainsOwned'
           /\ \A m \in Id : Untouched(m)
  <1>1. Adds /\ Removes
    BY DEF ovn, Adds, Removes, Defined, Running
  <1>2. \A m \in Id : Untouched(m)
    BY RowsFollowOvn, Elements DEF Untouched
  <1> QED BY <1>1, <1>2, QuietDomains

\* A step of t in the rows of its own mission.
LEMMA RowStep ==
    ASSUME Separate, NEW t \in Thread, StaysWithin(t), UNCHANGED <<clones, domains>>
    PROVE  /\ DomainsOwned => DomainsOwned'
           /\ \A k \in Id : k # t[1] => Untouched(k)
  <1>1. DomainsOwned => DomainsOwned'
    BY QuietDomains
  <1>2. ASSUME NEW k \in Id, k # t[1] PROVE Untouched(k)
    <2>1. MissionName(k) \in Name /\ MissionName(k) # NameOf(t)
      BY <1>2, SpecTypes, Elements DEF Separate, MissionName, NameOf, SpecOf
    <2> QED BY <2>1 DEF StaysWithin, Untouched
  <1> QED BY <1>1, <1>2

\* A step of t that changes one of the disks of its own mission.
LEMMA DiskStep ==
    ASSUME TypeOK, Separate, NEW t \in Thread, NEW v \in VmsOf(t[1]), NEW i \in Image \cup {NoImage},
           SetClone(v, i), UNCHANGED <<ovn, domains>>
    PROVE  /\ DomainsOwned => DomainsOwned'
           /\ \A k \in Id : k # t[1] => Untouched(k)
           /\ \A w \in VM : w # v => clones'[w] = clones[w]
           /\ clones'[v] = i
  <1>1. DomainsOwned => DomainsOwned'
    BY QuietDomains
  <1>2. t[1] \in Id /\ v \in VM
    BY SpecTypes, Elements
  <1>3. clones'[v] = i /\ \A w \in VM : w # v => clones'[w] = clones[w]
    BY <1>2 DEF SetClone, TypeOK, ClusterTypeOK
  <1>4. ASSUME NEW k \in Id, k # t[1] PROVE Untouched(k)
    <2>1. v \notin VmsOf(k) /\ VmsOf(k) \subseteq VM
      BY <1>2, <1>4, Elements DEF Separate
    <2> QED BY <1>3, <2>1, RowsFollowOvn, Elements DEF Untouched
  <1> QED BY <1>1, <1>3, <1>4

\* Only the domain of v on h changes.
OnlyDomain(h, v) ==
    \A g \in Host, w \in VM : <<g, w>> # <<h, v>> => domains'[<<g, w>>] = domains[<<g, w>>]

\* A step of t that changes the domain of one of its own VMs, and leaves it owned.
LEMMA DomainStep ==
    ASSUME Separate, NEW t \in Thread, NEW v \in VmsOf(t[1]), UNCHANGED <<ovn, clones>>,
           OnlyDomain(PlaceOf(t[1], v), v),
           Defined(PlaceOf(t[1], v), v)' =>
               domains'[<<PlaceOf(t[1], v), v>>].owner = MissionName(t[1])
    PROVE  /\ DomainsOwned => DomainsOwned'
           /\ \A k \in Id : k # t[1] => Untouched(k)
  <1> DEFINE h == PlaceOf(t[1], v)
  <1>1. t[1] \in Id /\ v \in VM /\ h \in Host
    BY SpecTypes, Elements
  <1>2. ASSUME DomainsOwned, NEW g \in Host, NEW w \in VM, Defined(g, w)'
        PROVE  HasOwner(g, w)'
    <2>1. CASE g = h /\ w = v
      BY <1>1, <1>2, <2>1 DEF HasOwner
    <2>2. CASE ~(g = h /\ w = v)
      <3>1. domains'[<<g, w>>] = domains[<<g, w>>]
        BY <2>2 DEF OnlyDomain
      <3> QED BY <1>2, <3>1 DEF Defined, DomainsOwned, HasOwner
    <2> QED BY <2>1, <2>2
  <1>3. DomainsOwned => DomainsOwned'
    BY <1>2 DEF DomainsOwned
  <1>4. ASSUME NEW k \in Id, k # t[1] PROVE Untouched(k)
    <2>1. v \notin VmsOf(k) /\ VmsOf(k) \subseteq VM
      BY <1>1, <1>4, Elements DEF Separate
    <2> QED BY <2>1, RowsFollowOvn, Elements DEF Untouched, OnlyDomain
  <1> QED BY <1>3, <1>4

\* A step of t keeps domains owned, its mission within bounds, and touches no other mission.
KeepsBounds(t) ==
    /\ DomainsOwned'
    /\ Contained(t[1])'
    /\ \A k \in Id : k # t[1] => Untouched(k)

\* A quiet step does.
LEMMA QuietKeepsBounds ==
    ASSUME DomainsOwned, NEW t \in Thread, Contained(t[1]), UNCHANGED <<ovn, clones, domains>>
    PROVE  KeepsBounds(t) /\ Adds /\ Removes
  BY QuietStep, UntouchedKeeps, SpecTypes DEF KeepsBounds

\* provision_networks and add_vm_ports only add, within the specification.
LEMMA NetworkAdds ==
    ASSUME TypeInv, Separate, DomainsOwned, NEW t \in Thread, Contained(t[1]), DeployNetworks(t)
    PROVE  Adds /\ KeepsBounds(t)
  <1>0. /\ t[1] \in Id /\ NameOf(t) = MissionName(t[1]) /\ NameOf(t) \in Name
        /\ LinkedOf(t[1]) \subseteq VM
    BY SpecTypes, Elements DEF NameOf, SpecOf, MissionName
  <1>1. CASE DeployBegins(t) \/ NetworksDone(t) \/ PortsDone(t)
    <2>1. UNCHANGED <<ovn, clones, domains>>
      BY <1>1 DEF DeployBegins, NetworksDone, PortsDone, cluster, rbd
    <2> QED BY <2>1, QuietKeepsBounds
  <1>2. CASE \/ AddRouter(t) \/ AddSwitch(t) \/ AddRouterPort(t) \/ AddPeerPort(t)
             \/ AddVmPort(t)
    <2>1. UNCHANGED <<clones, domains>>
      BY <1>2 DEF AddRouter, AddSwitch, AddRouterPort, AddPeerPort, AddVmPort, rbd
    <2>2. DomainsOwned' /\ \A k \in Id : k # t[1] => Untouched(k)
      BY <1>2, <2>1, AddingStaysWithin, RowStep
    <2>3. Adds
      BY <1>2, <2>1
         DEF AddRouter, AddSwitch, AddRouterPort, AddPeerPort, AddVmPort, LrAdd, LsAdd, LrpAdd,
             PeerAdd, LspAdd, Adds, Defined, Running
    <2>4. CASE AddRouter(t) \/ AddRouterPort(t)
      BY <2>1, <2>2, <2>3, <2>4
         DEF AddRouter, AddRouterPort, Contained, KeepsBounds, MissionName, NetsOf, PortsOf, LinkedOf, VmsOf
    <2>5. CASE AddSwitch(t) \/ AddPeerPort(t)
      <3>1. MoreNets(t)
        BY <2>5 DEF AddSwitch, AddPeerPort, At, TypeInv, IndexOK, NetLabel
      <3>2. AtNet(t) \in NetsOf(t[1])
        BY <3>1, CurrentElement
      <3>3. Contained(t[1])'
        BY <1>0, <2>1, <2>5, <3>2
           DEF AddSwitch, AddPeerPort, LsAdd, PeerAdd, Contained, MissionName, NetsOf, PortsOf, LinkedOf, VmsOf
      <3> QED BY <2>2, <2>3, <3>3 DEF KeepsBounds
    <2>6. CASE AddVmPort(t)
      <3>1. MorePorts(t)
        BY <2>6 DEF AddVmPort
      <3>2. AtPort(t) \in PortsOf(t[1]) /\ AtPort(t) \in VM \X Net
        BY <1>0, <3>1, CurrentElement, Elements
      <3>3. \A v \in VM, net \in Net :
               <<MissionName(t[1]), v, net>> \in vmPorts' =>
                 \/ <<MissionName(t[1]), v, net>> \in vmPorts
                 \/ <<v, net>> = AtPort(t)
        BY <1>0, <2>6, <3>2 DEF AddVmPort, LspAdd
      <3>4. Contained(t[1])'
        BY <2>1, <2>6, <3>2, <3>3
           DEF AddVmPort, Contained, MissionName, NetsOf, PortsOf, LinkedOf, VmsOf
      <3> QED BY <2>2, <2>3, <3>4 DEF KeepsBounds
    <2> QED BY <1>2, <2>4, <2>5, <2>6
  <1> QED BY <1>1, <1>2 DEF DeployNetworks

\* provision_storage only adds disks made from the mission's own images.
LEMMA StorageAdds ==
    ASSUME TypeInv, Separate, DomainsOwned, NEW t \in Thread, Contained(t[1]), DeployStorage(t)
    PROVE  Adds /\ KeepsBounds(t)
  <1> USE DEF TypeInv
  <1>0. t[1] \in Id /\ LinkedOf(t[1]) \subseteq VM
    BY SpecTypes, Elements
  <1>1. CASE UNCHANGED <<ovn, clones, domains>>
    BY <1>1, QuietKeepsBounds
  <1>2. CASE SetClone(AtVm(t), ImageAt(t)) /\ UNCHANGED <<ovn, domains>>
             /\ pc[t] \in {"clone", "qemu_img"}
    <2>1. MoreVms(t) /\ ImageAt(t) # NoImage
      BY <1>2 DEF IndexOK, DiskLabel
    <2>2. /\ AtVm(t) \in LinkedOf(t[1]) /\ AtVm(t) \in VmsOf(t[1]) /\ AtVm(t) \in VM
          /\ ImageAt(t) = Submitted[t[1]].image[AtVm(t)]
          /\ ImageAt(t) \in Image \cup {NoImage}
      BY <1>0, <2>1, CurrentElement, Elements
    <2>3. /\ DomainsOwned' /\ \A k \in Id : k # t[1] => Untouched(k)
          /\ \A w \in VM : w # AtVm(t) => clones'[w] = clones[w]
          /\ clones'[AtVm(t)] = ImageAt(t)
      BY <1>2, <2>2, DiskStep
    <2>4. clones[AtVm(t)] \in {NoImage, ImageAt(t)}
      BY <2>2 DEF Contained
    <2>5. Adds
      BY <1>2, <2>3, <2>4 DEF Adds, ovn, Defined, Running
    <2>6. Contained(t[1])'
      BY <1>0, <1>2, <2>2, <2>3 DEF Contained, ovn, MissionName, NetsOf, PortsOf, LinkedOf, VmsOf
    <2> QED BY <2>3, <2>5, <2>6 DEF KeepsBounds
  <1> QED BY <1>1, <1>2
          DEF DeployStorage, ListSnaps, CreateSnap, IsProtected, ProtectSnap, ListClones, Clone,
              LocalCloneExists, QemuImgCreate, StorageDone, At, cluster, rbd

\* What replacing one domain leaves alone.
LEMMA ReplaceOne ==
    ASSUME TypeOK, NEW h \in Host, NEW v \in VM, NEW d,
           domains' = [domains EXCEPT ![<<h, v>>] = d]
    PROVE  OnlyDomain(h, v) /\ domains'[<<h, v>>] = d
  BY DEF TypeOK, ClusterTypeOK, OnlyDomain

\* defineXML leaves a persistent domain of mission name n, and lets a running one run.
LEMMA DefineXMLEffect ==
    ASSUME TypeOK, NEW h \in Host, NEW v \in VM, NEW n \in Name, NEW p \in Pci \cup {NoPci},
           NEW b \in BOOLEAN, DefineXML(h, v, n, p, b), ~Defined(h, v) \/ OwnedBy(h, v, n)
    PROVE  /\ OnlyDomain(h, v) /\ Defined(h, v)'
           /\ domains'[<<h, v>>].owner = n /\ domains'[<<h, v>>].persistent
           /\ Running(h, v) => Running(h, v)' /\ domains'[<<h, v>>].disk = domains[<<h, v>>].disk
           /\ ~Running(h, v) => ~(Running(h, v)') /\ domains'[<<h, v>>].disk = b
  <1> DEFINE new == [owner |-> n, pci |-> p, disk |-> b, persistent |-> TRUE, running |-> FALSE]
             old == [domains[<<h, v>>] EXCEPT !.persistent = TRUE]
  <1>1. CASE Running(h, v)
    <2>1. domains[<<h, v>>] \in Domain /\ domains[<<h, v>>].owner = n
      BY <1>1, DefinedIsDomain DEF Running, OwnedBy
    <2>2. /\ old \in Domain /\ old.owner = n /\ old.persistent
          /\ old.running = domains[<<h, v>>].running /\ old.disk = domains[<<h, v>>].disk
      BY <2>1 DEF Domain
    <2>3. domains' = [domains EXCEPT ![<<h, v>>] = old]
      BY <1>1 DEF DefineXML
    <2> HIDE DEF old
    <2>4. OnlyDomain(h, v) /\ domains'[<<h, v>>] = old
      BY <2>3, ReplaceOne
    <2> QED BY <1>1, <2>2, <2>4, NoDomainAssumption DEF Defined, Running
  <1>2. CASE ~Running(h, v)
    <2>1. new \in Domain /\ new.owner = n /\ new.persistent /\ ~new.running /\ new.disk = b
      BY DEF Domain
    <2>2. domains' = [domains EXCEPT ![<<h, v>>] = new]
      BY <1>2 DEF DefineXML
    <2> HIDE DEF new
    <2>3. OnlyDomain(h, v) /\ domains'[<<h, v>>] = new
      BY <2>2, ReplaceOne
    <2> QED BY <1>2, <2>1, <2>3, NoDomainAssumption DEF Defined, Running
  <1> QED BY <1>1, <1>2

\* create() keeps what the domain is, and lets it run.
LEMMA StartEffect ==
    ASSUME TypeOK, NEW h \in Host, NEW v \in VM, Defined(h, v), Start(h, v)
    PROVE  /\ OnlyDomain(h, v) /\ Running(h, v)'
           /\ domains'[<<h, v>>].owner = domains[<<h, v>>].owner
           /\ domains'[<<h, v>>].persistent = domains[<<h, v>>].persistent
           /\ domains'[<<h, v>>].disk = domains[<<h, v>>].disk
  <1> DEFINE d == [domains[<<h, v>>] EXCEPT !.running = TRUE]
  <1>1. domains[<<h, v>>] \in Domain
    BY DefinedIsDomain
  <1>2. /\ d \in Domain /\ d.running /\ d.owner = domains[<<h, v>>].owner
        /\ d.persistent = domains[<<h, v>>].persistent
        /\ d.disk = domains[<<h, v>>].disk
    BY <1>1 DEF Domain
  <1>3. domains' = [domains EXCEPT ![<<h, v>>] = d]
    BY DEF Start
  <1> HIDE DEF d
  <1>4. OnlyDomain(h, v) /\ domains'[<<h, v>>] = d
    BY <1>3, ReplaceOne
  <1> QED BY <1>2, <1>4, NoDomainAssumption DEF Running, Defined

\* destroy() stops a domain, and keeps what it is if it is persistent.
LEMMA StopEffect ==
    ASSUME TypeOK, NEW h \in Host, NEW v \in VM, Defined(h, v), Stop(h, v)
    PROVE  /\ OnlyDomain(h, v) /\ ~(Running(h, v)')
           /\ Defined(h, v)' => /\ domains'[<<h, v>>].owner = domains[<<h, v>>].owner
                                /\ domains'[<<h, v>>].persistent
                                /\ domains'[<<h, v>>].disk = domains[<<h, v>>].disk
           /\ domains[<<h, v>>].persistent => Defined(h, v)'
  <1> DEFINE d == [domains[<<h, v>>] EXCEPT !.running = FALSE]
  <1>1. domains[<<h, v>>] \in Domain
    BY DefinedIsDomain
  <1>2. /\ d \in Domain /\ ~d.running /\ d.owner = domains[<<h, v>>].owner
        /\ d.persistent = domains[<<h, v>>].persistent
        /\ d.disk = domains[<<h, v>>].disk
    BY <1>1 DEF Domain
  <1>3. domains' = [domains EXCEPT ![<<h, v>>] =
                        IF domains[<<h, v>>].persistent THEN d ELSE NoDomain]
    BY DEF Stop
  <1> HIDE DEF d
  <1>4. /\ OnlyDomain(h, v)
        /\ domains'[<<h, v>>] = IF domains[<<h, v>>].persistent THEN d ELSE NoDomain
    BY <1>3, ReplaceOne
  <1> QED BY <1>2, <1>4, NoDomainAssumption DEF Running, Defined

\* undefine() removes a domain that does not run, and lets a running one run.
LEMMA UndefineEffect ==
    ASSUME TypeOK, NEW h \in Host, NEW v \in VM, Defined(h, v), Undefine(h, v)
    PROVE  /\ OnlyDomain(h, v)
           /\ Defined(h, v)' => /\ domains'[<<h, v>>].owner = domains[<<h, v>>].owner
                                /\ domains'[<<h, v>>].disk = domains[<<h, v>>].disk
                                /\ Running(h, v)
  <1> DEFINE d == [domains[<<h, v>>] EXCEPT !.persistent = FALSE]
  <1>1. domains[<<h, v>>] \in Domain
    BY DefinedIsDomain
  <1>2. d.owner = domains[<<h, v>>].owner /\ d.disk = domains[<<h, v>>].disk
    BY <1>1 DEF Domain
  <1>3. domains' = [domains EXCEPT ![<<h, v>>] =
                        IF domains[<<h, v>>].running THEN d ELSE NoDomain]
    BY DEF Undefine
  <1> HIDE DEF d
  <1>4. /\ OnlyDomain(h, v)
        /\ domains'[<<h, v>>] = IF domains[<<h, v>>].running THEN d ELSE NoDomain
    BY <1>3, ReplaceOne
  <1> QED BY <1>2, <1>4 DEF Running, Defined

\* Defining and starting VMs only adds domains of the mission, where it places them.
LEMMA VmsAdd ==
    ASSUME TypeInv, Separate, DomainsOwned, NEW t \in Thread, Contained(t[1]), DeployVms(t)
    PROVE  Adds /\ KeepsBounds(t)
  <1> USE DEF TypeInv
  <1> DEFINE m == t[1]
             n == MissionName(t[1])
  <1>a. PICK v, h : v = AtVm(t) /\ h = HostAt(t)
    OBVIOUS
  <1>0. m \in Id /\ n \in Name /\ n = NameOf(t)
    BY SpecTypes, Elements DEF NameOf, SpecOf, MissionName
  <1>1. CASE UNCHANGED <<ovn, clones, domains>>
    BY <1>1, QuietKeepsBounds
  <1>2. ASSUME MoreVms(t), UNCHANGED <<ovn, clones>>, OnlyDomain(h, v), Defined(h, v)',
               domains'[<<h, v>>].owner = n,
               Running(h, v) => Running(h, v)',
               Defined(h, v) => domains[<<h, v>>].owner = n
        PROVE  Adds /\ KeepsBounds(t)
    <2>1. /\ v \in VmsOf(m) /\ v \in VM /\ h \in Host /\ h = PlaceOf(m, v)
      BY <1>0, <1>2, <1>a, CurrentElement, Elements
    <2>2. DomainsOwned' /\ \A k \in Id : k # m => Untouched(k)
      BY <1>2, <2>1, DomainStep
    <2>3. ASSUME NEW g \in Host, NEW w \in VM, Defined(g, w)
          PROVE  /\ Defined(g, w)'
                 /\ domains'[<<g, w>>].owner = domains[<<g, w>>].owner
                 /\ Running(g, w) => Running(g, w)'
      <3>1. CASE <<g, w>> = <<h, v>>
        BY <1>2, <2>3, <3>1
      <3>2. CASE <<g, w>> # <<h, v>>
        BY <1>2, <2>3, <3>2 DEF OnlyDomain, Defined, Running
      <3> QED BY <3>1, <3>2
    <2>4. Adds
      BY <1>2, <2>3 DEF Adds, ovn
    <2>5. Contained(m)'
      BY <1>2 DEF Contained, ovn, MissionName, NetsOf, PortsOf, LinkedOf, VmsOf
    <2> QED BY <2>2, <2>4, <2>5 DEF KeepsBounds
  <1>3. CASE DefineVm(t) /\ ~UNCHANGED domains
    <2>1. /\ MoreVms(t) /\ UNCHANGED <<ovn, clones>>
          /\ ~Defined(h, v) \/ OwnedBy(h, v, n)
          /\ DefineXML(h, v, n, gpuOf'[m][v], ImageAt(t) # NoImage)
      BY <1>0, <1>a, <1>3 DEF DefineVm, rbd
    <2>2. v \in VM /\ h \in Host
      BY <1>0, <2>1, <1>a, CurrentElement, Elements
    <2>3. gpuOf'[m][v] \in Pci \cup {NoPci}
      BY <1>0, <1>3, <2>2, VmTypes DEF DeployVms, TypeOK
    <2>4. /\ OnlyDomain(h, v) /\ Defined(h, v)'
          /\ domains'[<<h, v>>].owner = n /\ domains'[<<h, v>>].persistent
          /\ Running(h, v) => Running(h, v)'
      BY <1>0, <2>1, <2>2, <2>3, DefineXMLEffect
    <2> QED BY <1>2, <2>1, <2>4 DEF OwnedBy
  <1>4. CASE StartVm(t) /\ ~UNCHANGED domains
    <2>1. /\ MoreVms(t) /\ UNCHANGED <<ovn, clones>>
          /\ CanStart(h, v, n) /\ Start(h, v)
      BY <1>0, <1>a, <1>4 DEF StartVm, rbd, At, IndexOK, VmLabel
    <2>2. v \in VM /\ h \in Host /\ h = PlaceOf(m, v)
      BY <1>0, <2>1, <1>a, CurrentElement, Elements
    <2>3. Defined(h, v) /\ domains[<<h, v>>].owner = n
      BY <2>1 DEF CanStart, OwnedBy
    <2> QED BY <1>2, <2>1, <2>2, <2>3, StartEffect DEF Running
  <1> QED BY <1>1, <1>3, <1>4
          DEF DeployVms, NoFreeGpu, DefineVm, StartVm, VmsDone, CheckSwitches, CheckVm, Verdict,
              cluster, rbd

\* The calls of a teardown only remove.
LEMMA TeardownRemoves ==
    ASSUME TypeInv, Separate, DomainsOwned, NEW t \in Thread, Contained(t[1]), Teardown(t)
    PROVE  Removes /\ KeepsBounds(t)
  <1> USE DEF TypeInv
  <1> DEFINE m == t[1]
             n == MissionName(t[1])
  <1>a. PICK v, h : v = AtVm(t) /\ h = HostAt(t)
    OBVIOUS
  <1>0. m \in Id /\ n \in Name /\ n = NameOf(t) /\ LinkedOf(m) \subseteq VM
    BY SpecTypes, Elements DEF NameOf, SpecOf, MissionName
  <1>1. CASE UNCHANGED <<ovn, clones, domains>>
    BY <1>1, QuietKeepsBounds
  <1>2. CASE RemoveVmPort(t) \/ RemoveSwitch(t) \/ RemoveRouter(t)
    <2>1. UNCHANGED <<clones, domains>>
      BY <1>2 DEF RemoveVmPort, RemoveSwitch, RemoveRouter, rbd
    <2>2. DomainsOwned' /\ \A k \in Id : k # m => Untouched(k)
      BY <1>2, <2>1, RemovingStaysWithin, RowStep
    <2>3. Removes
      BY <1>2, <2>1
         DEF RemoveVmPort, RemoveSwitch, RemoveRouter, LspDel, LsDel, LrDel, Removes, Defined,
             Running
    <2>4. Contained(m)'
      BY <2>1, <2>3 DEF Removes, Contained, MissionName, NetsOf, PortsOf, LinkedOf, VmsOf
    <2> QED BY <2>2, <2>3, <2>4 DEF KeepsBounds
  <1>3. CASE /\ RemoveClone(t) \/ Unlink(t)
             /\ SetClone(v, NoImage)
    <2>1. MoreVms(t) /\ UNCHANGED <<ovn, domains>>
      BY <1>a, <1>3 DEF RemoveClone, Unlink, At, IndexOK, DiskLabel
    <2>2. v \in VmsOf(m) /\ v \in VM
      BY <1>0, <2>1, <1>a, CurrentElement, Elements
    <2>3. /\ DomainsOwned' /\ \A k \in Id : k # m => Untouched(k)
          /\ \A w \in VM : w # v => clones'[w] = clones[w]
          /\ clones'[v] = NoImage
      BY <1>3, <2>1, <2>2, DiskStep
    <2>4. Removes
      BY <2>1, <2>3 DEF Removes, ovn, Defined, Running
    <2>5. Contained(m)'
      BY <1>0, <2>1, <2>3 DEF Contained, ovn, MissionName, NetsOf, PortsOf, LinkedOf, VmsOf
    <2> QED BY <2>3, <2>4, <2>5 DEF KeepsBounds
  <1>4. ASSUME MoreVms(t), UNCHANGED <<ovn, clones>>, OnlyDomain(h, v),
               Defined(h, v)' => /\ Defined(h, v)
                                 /\ domains'[<<h, v>>].owner = domains[<<h, v>>].owner
                                 /\ Running(h, v)' => Running(h, v)
        PROVE  Removes /\ KeepsBounds(t)
    <2>1. /\ v \in VmsOf(m) /\ v \in VM /\ h \in Host /\ h = PlaceOf(m, v)
      BY <1>0, <1>4, <1>a, CurrentElement, Elements
    <2>2. Defined(h, v)' => domains'[<<h, v>>].owner = n
      <3>1. SUFFICES ASSUME Defined(h, v)' PROVE domains'[<<h, v>>].owner = n
        OBVIOUS
      <3>2. PICK k \in Id : v \in VmsOf(k) /\ domains[<<h, v>>].owner = MissionName(k)
        BY <1>4, <2>1, <3>1 DEF DomainsOwned, HasOwner
      <3>3. k = m
        BY <1>0, <2>1, <3>2 DEF Separate
      <3> QED BY <1>4, <3>1, <3>2, <3>3
    <2>3. DomainsOwned' /\ \A k \in Id : k # m => Untouched(k)
      BY <1>4, <2>1, <2>2, DomainStep
    <2>4. ASSUME NEW g \in Host, NEW w \in VM, Defined(g, w)'
          PROVE  /\ Defined(g, w)
                 /\ domains'[<<g, w>>].owner = domains[<<g, w>>].owner
                 /\ Running(g, w)' => Running(g, w)
      <3>1. CASE <<g, w>> = <<h, v>>
        BY <1>4, <2>4, <3>1
      <3>2. CASE <<g, w>> # <<h, v>>
        BY <1>4, <2>4, <3>2 DEF OnlyDomain, Defined, Running
      <3> QED BY <3>1, <3>2
    <2>5. Removes
      BY <1>4, <2>4 DEF Removes, ovn
    <2>6. Contained(m)'
      BY <1>4 DEF Contained, ovn, MissionName, NetsOf, PortsOf, LinkedOf, VmsOf
    <2> QED BY <2>3, <2>5, <2>6 DEF KeepsBounds
  <1>5. CASE LookupAndStop(t) /\ ~UNCHANGED domains
    <2>1. MoreVms(t) /\ UNCHANGED <<ovn, clones>> /\ Defined(h, v) /\ Stop(h, v)
      BY <1>a, <1>5 DEF LookupAndStop, rbd
    <2>2. v \in VM /\ h \in Host
      BY <1>0, <2>1, <1>a, CurrentElement, Elements
    <2> QED BY <1>4, <2>1, <2>2, StopEffect
  <1>6. CASE UndefineVm(t) /\ ~UNCHANGED domains
    <2>1. MoreVms(t) /\ UNCHANGED <<ovn, clones>> /\ Undefine(h, v) /\ Defined(h, v)
      BY <1>a, <1>6 DEF UndefineVm, rbd, At, IndexOK, VmLabel, OwnedBy
    <2>2. v \in VM /\ h \in Host
      BY <1>0, <2>1, <1>a, CurrentElement, Elements
    <2> QED BY <1>4, <2>1, <2>2, UndefineEffect
  <1> QED BY <1>a, <1>1, <1>2, <1>3, <1>5, <1>6
          DEF Teardown, TeardownBegins, LookupAndStop, UndefineVm, VmsDestroyed, RemoveClone,
              LocalDiskExists, Unlink, DisksRemoved, cluster, rbd
==============================================================================
